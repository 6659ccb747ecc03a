SPECIFICATION Spec
CONSTANTS
  Frames = {f0, f1}
  Threads = {t0, t1}
  NoVictim = NoVictim
  NoFrame = NoFrame
  NoThread = NoThread
  MaxU64 = 3
  MaxPins = 1
  PageIds = {0, 1, 2}
  Data = {Zero, a}
  Zero = Zero
  Gone = Gone
  FirstPageId = 2
SYMMETRY Symmetry
CHECK_DEADLOCK FALSE
INVARIANTS
  PinProtected
