SPECIFICATION Spec
CONSTANTS
  Threads = {t0, t1, t2}
  SIZE = 3
INVARIANTS
  NoFrameHandedOutTwice
  PushHasRoom
PROPERTIES
  RefinesFramePool
  CallsReturn
