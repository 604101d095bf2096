SPECIFICATION BootSpec
CONSTANTS
  PageSize = 1024
  InitialSize = 130048
  MinSize = 114688
  MaxSize = 66975744
  Sizes <- NoSizes
  AlignedSizes <- NoSizes
  Words = 1073741824
  MaxFiles = 63
CHECK_DEADLOCK FALSE
INVARIANTS
  BlocksKeepTheirHeaders
