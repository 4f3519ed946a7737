SPECIFICATION Spec
CONSTANTS
  numbers = numbers
  long = long
  Cores = {c1, c2}
  Messages <- MCMessages
  Text <- MCText
  NoMessage = NoMessage
  MaxChars = 6
  MaxArgs = 2
  ArgsSize = 20
  StackLetters = {"nul"}
INVARIANT PrintedAsSent
CHECK_DEADLOCK FALSE
