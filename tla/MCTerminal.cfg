SPECIFICATION Spec
CONSTANTS
  Width = 2
  Height = 3
  MAX_TERM_SIZE = 6
  Characters = {"a"}
  Newline = "newline"
  Backspace = "backspace"
  Space = "space"
  Colors = {"white", "red"}
  White = "white"
  Message <- LongMessage
  MaxPanics = 2
INVARIANTS
  TypeOK NewlineFlushes PanicShown
PROPERTIES
  IsPage PanicHalts
CHECK_DEADLOCK FALSE
