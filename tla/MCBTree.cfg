SPECIFICATION Spec
CONSTANTS
  BASE = 4
  PAGE_SIZE = 48
  NODE_VALUES_START = 1
  VALUE_SIZE = 4
  KeyTypes <- MCTypes
  MaxKey = 8
  MaxPage = 20
  Keys <- MCLargestKeys
  PageIds <- MCPageIds
  Values = {v0}
  Absent = Absent
  MaxCalls = 8
  MaxFaults = 1
  MaxBeside = 1
CHECK_DEADLOCK FALSE
INVARIANTS
  GetExact
  ScanExact
  RangeExactWhileFilling
  ScanBesideDeletes
  LosesNeighbours
  NodesFitPage
  PanicsOnlyAtLargestKey
