SPECIFICATION SpecMixed
CONSTANTS
  Threads = {t0, t1, t2}
  SIZE = 3
INVARIANTS
  NoFrameHandedOutTwice
