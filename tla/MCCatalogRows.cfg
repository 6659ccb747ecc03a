SPECIFICATION Spec
CONSTANTS
  BASE = 6
  PAGE_SIZE = 64
  NODE_VALUES_START = 1
  VALUE_SIZE = 8
  TableNames = {"table_a"}
  IndexNames = {"index_a"}
  Schemas <- MCSchemas
  KeySets <- MCKeySets
  RowsOf <- MCRowsOf
  Unreadable = Unreadable
  MaxRows = 2
  MaxOid = 1
CHECK_DEADLOCK FALSE
INVARIANT
  IndexHasEveryTuple
