SPECIFICATION Spec
CONSTANTS
  NFrames = 5
  Entries = 2
  Slots = 4
  Cleared = 5
  Identity = 2
  HeapStart = 2
  HeapPages = 1
  HeapMax = 4
  StackPages <- TopOfStack
  Values = {0, 1}
  MaxTables = 6
  MaxDirectories = 4
PROPERTIES
  PanicsWithoutFrames
