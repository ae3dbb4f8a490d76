SPECIFICATION Spec
CONSTANTS
  p = p
  q = q
  t = t
  u = u
  w = w
  Threads = {t, u, w}
  Procs = {p, q}
  owner <- ThreeOwners
  Pages = {0, 1}
  BootRegions <- Regions
  INVALID_FRAME_ADDR = INVALID_FRAME_ADDR
  SizeBits = 3
SYMMETRY
  Siblings
CONSTRAINT
  NotRaced
INVARIANTS
  SharedOnlyByRace
  LostOnlyByRace
  HaltsOnlyByRace
CHECK_DEADLOCK FALSE
