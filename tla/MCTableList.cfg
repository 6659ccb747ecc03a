SPECIFICATION Spec
CONSTANTS
  PAGE_SIZE = 7
  HEADER_SIZE = 1
  SLOT_SIZE = 1
  Values <- MCValues
  MaxTuples = 4
  Blanked = Blanked
  Iters = {t0}
  Lens = {1, 4, 6}
  PageIds <- MCPageIds
  FirstPage = 0
  MaxFaults = 1
  Failed = Failed
CHECK_DEADLOCK FALSE
INVARIANTS
  ReadsBack
  SlotsBelowTuples
  IterIsSnapshot
  IterPanicsOnlyIfPoisoned
PROPERTIES
  IterEnds
