SPECIFICATION Spec
CONSTANTS
  Columns = 4
  Lines = 3
  Nibbles = 2
  Messages <- SomeMessages
  Numbers <- SomeNumbers
  Codes <- SomeCodes
  MaxCodes = 6
  Prompt <- SomePrompt
  ShiftAtBoot = 65535
  CapsLockAtBoot = 13629952
CONSTRAINT ConsolePolite
INVARIANTS
  TypeOK
  ScreenShowsText
  PoliteStaysOnScreen
  EchoMatchesBuffer
PROPERTIES
  EachCodeOnce
