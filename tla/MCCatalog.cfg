SPECIFICATION Spec
CONSTANTS
  BASE = 6
  PAGE_SIZE = 48
  NODE_VALUES_START = 1
  VALUE_SIZE = 8
  TableNames = {"table_a", "table_b"}
  IndexNames = {"index_a", "table_b"}
  Schemas <- MCSchemas
  KeySets <- MCKeySets
  RowsOf <- MCRowsOf
  Unreadable = Unreadable
  MaxRows = 3
  MaxOid = 2
CHECK_DEADLOCK FALSE
INVARIANTS
  NamesAgree
  BreaksOnlyIfLarge
PROPERTIES
  RefinesCatalogSpec
