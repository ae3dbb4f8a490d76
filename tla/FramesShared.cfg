SPECIFICATION Spec
CONSTANTS
  p = p
  q = q
  t = t
  u = u
  w = w
  Threads = {t, u}
  Procs = {p, q}
  owner <- TwoOwners
  Pages = {0, 1}
  BootRegions <- LargeRegion
  INVALID_FRAME_ADDR = INVALID_FRAME_ADDR
  SizeBits = 3
INVARIANTS
  NoFrameShared
CHECK_DEADLOCK FALSE
