SPECIFICATION Spec
CONSTANTS
  Memory = 8
  PageSize = 2
  MaxRegions = 5
  MemoryMaps <- OrderedMaps
  SectionLists <- Images
INVARIANTS
  ExactlyUsable
  RegionsDisjoint
CHECK_DEADLOCK FALSE
