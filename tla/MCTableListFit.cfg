SPECIFICATION Spec
CONSTANTS
  PAGE_SIZE = 7
  HEADER_SIZE = 1
  SLOT_SIZE = 1
  Values <- MCValues
  MaxTuples = 4
  Blanked = Blanked
  Iters = {t0}
  Lens = {1, 4}
  PageIds <- MCPageIds
  FirstPage = 0
  MaxFaults = 0
  Failed = Failed
CHECK_DEADLOCK FALSE
INVARIANT
  OnlyTooLargeRefused
