\* One job of every mode that POST /crawls accepts, every failure, two
\* requests racing with its execution and its two redeliveries.
SPECIFICATION Spec
CONSTANTS
  Jobs = {j1}
  Urls = {u1}
  Handlers = {h1, h2}
  NewModes <- AllModes
  Faults <- AllFaults
  MaxTries = 3
  MaxJobs = 4
  MaxFound = 2
SYMMETRY HandlerSymmetry
CHECK_DEADLOCK FALSE
INVARIANTS TypeOK CountersMatchRows AtMostOneLatePage LocksAreHeld StampsAgree IInv
PROPERTY RefinesLifecycle
