SPECIFICATION Spec
CONSTANTS
  PageSize = 8
  InitialSize = 24
  MinSize = 16
  MaxSize = 32
  Sizes <- SmallSizes
  AlignedSizes <- SmallAlignedSizes
  Words = 1073741824
CONSTRAINT Sound
CHECK_DEADLOCK FALSE
INVARIANTS
  TypeOK
PROPERTIES
  HeapStaysSound
  SoundHeapAllocates
