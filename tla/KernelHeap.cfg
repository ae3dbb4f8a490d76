SPECIFICATION Spec
CONSTANTS
  PAGE_SIZE = 8
  HeaderSize = 1
  max_size <- PoolSizes
  TableSpan = 2
  NumFrames = 6
  MaxPages = 14
  Sizes = {1, 2, 7, 12}
  MaxHeld = 4
  MaxAllocs = 6
INVARIANTS
  BlocksApart
  FramesBalanced
PROPERTY
  ImplementsHeap
CHECK_DEADLOCK FALSE
