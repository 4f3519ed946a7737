SPECIFICATION FairSpec
CONSTANTS
  numbers = numbers
  long = long
  Cores = {c1, c2}
  Messages <- MCMessages
  Text <- MCText
  NoMessage = NoMessage
  MaxChars = 6
  MaxArgs = 2
  ArgsSize = 20
  StackLetters = {"nul", "d", "f", "s"}
INVARIANTS TypeOK PrintedWhole
PROPERTIES ImplementsPort PrintReturns
CHECK_DEADLOCK FALSE
