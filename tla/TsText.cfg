SPECIFICATION Spec
CONSTANTS
  Words <- MCWords
  Strings <- MCStrings
  Numbers <- MCNumbers
  Printed <- MCPrinted
  Given <- MCGiven
  MaxStored = 2
  MaxTokens = 14
  MaxDepth = 14
  Null = Null
INVARIANTS
  TypeOK
  NothingLost
  RoundTrip
CHECK_DEADLOCK FALSE
