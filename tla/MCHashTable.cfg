SPECIFICATION Spec
CONSTANTS
  SLOTS = 5
  CAPACITY = 3
  DIR_SIZE = 4
  MaxKey = 2
  MaxPage = 7
  MaxCopies = 2
  MaxFaults = 2
  Keys <- MCKeys
  Values = {1}
  Hash <- MCHash
  ZeroPair <- MCZeroPair
  NoPair = NoPair
  PageIds <- MCPageIds
CHECK_DEADLOCK FALSE
INVARIANTS
  GetExactUntilSplit
  OnlyInsertedFound
  EntriesLive
  PanicsOnlyAfterSplits
