SPECIFICATION Spec
CONSTANTS
  Frames = {f0, f1, f2}
  NoVictim = NoVictim
  K = 2
  MaxU64 = 2
  MaxTs = 5
SYMMETRY Symmetry
INVARIANTS
  ClockInv
  EvictFailsOnlyIfAllPinned
PROPERTIES
  RefinesReplacerSpec
