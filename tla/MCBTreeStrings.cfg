SPECIFICATION Spec
CONSTANTS
  BASE = 10
  PAGE_SIZE = 72
  NODE_VALUES_START = 1
  VALUE_SIZE = 4
  KeyTypes <- MCStringTypes
  MaxKey = 4
  MaxPage = 20
  Keys <- MCStringKeys
  PageIds <- MCPageIds
  Values = {v0}
  Absent = Absent
  MaxCalls = 8
  MaxFaults = 0
  MaxBeside = 1
CHECK_DEADLOCK FALSE
INVARIANT
  GetExact
