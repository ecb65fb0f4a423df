\* Every failure may happen: the queue drains and requests are answered.
SPECIFICATION FairSpec
CONSTANTS
  Jobs = {j1}
  Urls = {u1}
  Handlers = {h1, h2}
  NewModes <- ListModes
  Faults <- AllFaults
  MaxTries = 2
  MaxJobs = 1
  MaxFound = 2
CHECK_DEADLOCK FALSE
PROPERTIES QueueDrains RequestsEnd
