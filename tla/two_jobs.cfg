\* Two ids: retries and scrapes make the second job from the first, and both
\* compete for one worker slot while workers crash.
SPECIFICATION Spec
CONSTANTS
  Jobs = {j1, j2}
  Urls = {u1}
  Handlers = {h1}
  NewModes <- ScrapeModes
  Faults <- Crashes
  MaxTries = 2
  MaxJobs = 1
  MaxFound = 1
SYMMETRY JobSymmetry
CHECK_DEADLOCK FALSE
INVARIANT PagesWithinTries
PROPERTY RefinesLifecycle
