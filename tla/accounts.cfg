SPECIFICATION Spec
CONSTANTS
  Users = {u1, u2}
  Emails = {admin, other}
  Jtis = {s1}
  Handlers = {h1, h2}
  Processes = {p1, p2}
  Nothing = Nothing
  AdminEmail = admin
  AccessSecs = 2
  RefreshSecs = 3
  MaxSweeps = 1
  MaxNow = 6
  Ops <- AccountOps
SYMMETRY Symmetry
CHECK_DEADLOCK FALSE
INVARIANTS TypeOK LogoutIsComplete UsableIsListed EmailsUnique AdminExists
