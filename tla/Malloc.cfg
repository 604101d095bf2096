SPECIFICATION Spec
CONSTANTS
  HeapSize = 12
  Header = 2
  Sizes <- RequestSizes
INVARIANTS
  TypeOK
  Tiling
  Coalesced
PROPERTIES
  FreeOfFreeIsHarmless
  ImplementsAllocator
