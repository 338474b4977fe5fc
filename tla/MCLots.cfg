CONSTANTS
  l1 = l1
  s1 = s1
  w1 = w1
  w2 = w2
  None = None
  Never = Never
  Lots <- MCLots
  Sessions <- MCSessions
  Workers <- MCWorkers
  FormStatuses = {"available", "reserved", "partially_sold"}
  Visibilities = {"private", "public"}
  ConfirmDays = 0
  StaleDays = 1
  HideDays = 2
  LastDay = 3
SPECIFICATION MCSpec
INVARIANTS
  RunsCatchUp
PROPERTIES
  ArchivedRests
  TaskSparesUnlessSaved
  OverdueLeaves
  DoubtsEnd
CHECK_DEADLOCK FALSE
