SPECIFICATION Spec
CONSTANTS
  Frames = {f0, f1}
  NoVictim = NoVictim
  NoFrame = NoFrame
  MaxU64 = 2
  PageIds = {0, 1, 2}
  Data = {Zero, a, b}
  Zero = Zero
  Gone = Gone
  FirstPageId = 1
SYMMETRY Symmetry
INVARIANTS
  PinsCounted
  PinProtected
  OutOfMemoryOnlyIfPinned
  FramesAccountedFor
  IInv
PROPERTIES
  RefinesPageStore
  FlushAllIsDurable
