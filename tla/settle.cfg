\* Nothing fails but engines and settings: every enqueued job settles.
SPECIFICATION FairSpec
CONSTANTS
  Jobs = {j1, j2}
  Urls = {u1}
  Handlers = {h1}
  NewModes <- StreamModes
  Faults <- NoFaults
  MaxTries = 1
  MaxJobs = 1
  MaxFound = 2
CHECK_DEADLOCK FALSE
PROPERTY JobsSettle
