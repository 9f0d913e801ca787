SPECIFICATION Spec
CONSTANTS
  Raised <- Exceptions
  RaisedInside <- Inside
  RaisedInPassing <- InPassing
  MaxNested = 1
  StackPointers <- Tops
  KernelStack = 62
  JumpOperands <- Pairs
  Words <- AllWords
  Numbers <- Calls
  Counts <- Lengths
  UserStack <- UserTops
  OperandRegisters <- AnyRegister
  FrameWords <- Built
INVARIANTS
  ReturnsToCaller
CHECK_DEADLOCK FALSE
