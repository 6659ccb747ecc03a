SPECIFICATION SpecRefill
CONSTANTS
  BASE = 4
  PAGE_SIZE = 80
  NODE_VALUES_START = 1
  VALUE_SIZE = 4
  KeyTypes <- MCTypes
  MaxKey = 11
  MaxPage = 20
  Keys <- MCKeys
  PageIds <- MCPageIds
  Values = {v0}
  Absent = Absent
  MaxCalls = 8
  MaxFaults = 0
  MaxBeside = 1
CHECK_DEADLOCK FALSE
INVARIANT
  GetExact
