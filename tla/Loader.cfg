SPECIFICATION Spec
CONSTANTS
  boot = boot
  r1 = r1
  r2 = r2
  Loaders = {boot, r1, r2}
  Boot = boot
  MaxFailures <- Failures
  Partitions <- Table
  EXT2_TYPE = 131
  SectorSize = 1
  block_size = 2
  PtrSize = 1
  GroupSize = 1
  InodeSize = 1
  inodes_per_group = 4
  GroupBlocks = 2
  Direct = 1
  MinRecLen = 1
  RecAlign = 1
  Pointers <- TheDisk
  InodeTable <- TheInodes
  Directory <- TheDirectory
  GarbagePointers = {0, 30}
  GarbageInodes <- SomeInodes
  GarbageEntries <- SomeEntries
  Requests <- AllRequests
  HeaderSize = 2
  ProgSize = 1
  Headers <- TheHeaders
  ProgHeaders <- TheSegments
  PAGE_SIZE = 2
  VA_USTACK_BASE = 12
  DEFAULT_STACK_BYTES = 2
INVARIANTS
  LoadsImage
  LoadOutcome
  NoBlockLost
PROPERTY
  LoadReturns
CHECK_DEADLOCK FALSE
