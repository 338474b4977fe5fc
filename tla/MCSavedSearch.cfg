CONSTANTS
  Searches = {"q"}
  Lots = {"l"}
  Runs = {"r1", "r2"}
  NoSearch = "none"
  Window = 5
  Pause = 2
  MaxTime = 6
SPECIFICATION Spec
INVARIANTS
  ReportedInTime
PROPERTIES
  OncePerPause
CHECK_DEADLOCK FALSE
