SPECIFICATION Spec
CONSTANTS
  Users = {u1, u2}
  JobIds = {j1, j2}
  Names = {n1, n2}
  Providers = {openai}
  Nothing = Nothing
SYMMETRY Symmetry
INVARIANTS SchemaFollowsRevision OwnersKnown WrappedOnce
PROPERTIES UpgradesKeepRows 
