SPECIFICATION Spec
CONSTANTS
  Users = {u1}
  Emails = {admin}
  Jtis = {s1, s2, s3}
  Handlers = {h1, h2}
  Processes = {p1}
  Nothing = Nothing
  AdminEmail = admin
  AccessSecs = 2
  RefreshSecs = 2
  MaxSweeps = 1
  MaxNow = 0
  Ops <- SessionOps
SYMMETRY Symmetry
CHECK_DEADLOCK FALSE
INVARIANTS LiveAfterSweep
PROPERTY RefinesSessionLife
