SPECIFICATION Spec
CONSTANTS
  Names <- SomeNames
  MaxFiles = 2
  MaxLength = 2
  Slots = 2
  HeaderSize = 1
  CountSize = 1
  Location = 3
  Word = 16
  Clients = {1, 2}
INVARIANTS
  TypeOK
  ReadsTheFile
  ListingComplete
  FindsWhatItLists
