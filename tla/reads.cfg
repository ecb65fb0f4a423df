SPECIFICATION Spec
CONSTANTS
  Jobs = {j1, j2}
  Second = 2
  Month = 2
  RecentLimit = 2
  Nothing = Nothing
  Empty = Empty
  Formats = {"json", "markdown"}
  Hits = {1}
  Outcomes = {"completed"}
  Filters <- MCFilters
  PageLimit = 1
  MaxNow = 2
  MaxPages = 2
  MaxDeletes = 1
SYMMETRY Symmetry
INVARIANTS IInv HistoriesMatchRows DetailNotBehind TotalsDrift RecentNotBehind WalkSeesSteadyJobs TotalNearPage ExportMatchesList
