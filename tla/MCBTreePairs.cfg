SPECIFICATION Spec
CONSTANTS
  BASE = 4
  PAGE_SIZE = 64
  NODE_VALUES_START = 1
  VALUE_SIZE = 4
  KeyTypes <- MCPairTypes
  MaxKey = 4
  MaxPage = 20
  Keys <- MCPairKeys
  PageIds <- MCPageIds
  Values = {v0}
  Absent = Absent
  MaxCalls = 8
  MaxFaults = 0
  MaxBeside = 1
CHECK_DEADLOCK FALSE
INVARIANT
  ScanExact
