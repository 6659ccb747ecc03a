SPECIFICATION SpecAscending
CONSTANTS
  BASE = 4
  PAGE_SIZE = 48
  NODE_VALUES_START = 1
  VALUE_SIZE = 4
  KeyTypes <- MCIntTypes
  MaxKey = 7
  MaxPage = 20
  Keys <- MCKeys
  PageIds <- MCPageIds
  Values = {v0}
  Absent = Absent
  MaxCalls = 8
  MaxFaults = 0
  MaxBeside = 1
CHECK_DEADLOCK FALSE
INVARIANT
  NodesFitPage
