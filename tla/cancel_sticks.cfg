SPECIFICATION FairSpec
CONSTANTS
  Jobs = {j1}
  Urls = {u1}
  Handlers = {h1, h2}
  NewModes <- ScrapeModes
  Faults <- NoFaults
  MaxTries = 1
  MaxJobs = 1
  MaxFound = 1
CHECK_DEADLOCK FALSE
PROPERTY CancelSticks
