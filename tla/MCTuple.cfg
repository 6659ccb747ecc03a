SPECIFICATION Spec
CONSTANTS
  BASE = 4
  ColumnValues <- MCColumnValues
  Rest <- MCRest
  MaxColumns = 3
CHECK_DEADLOCK FALSE
INVARIANTS
  ReadsAsBuilt
  EqAgreesWithCmp
  NextIsBound
