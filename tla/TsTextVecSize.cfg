SPECIFICATION Spec
CONSTANTS
  Words <- MCWords
  Strings <- MCStrings
  Numbers <- MCNumbers
  Printed <- MCPrinted
  Given <- MCGiven
  MaxStored = 2
  MaxTokens = 12
  MaxDepth = 12
  Null = Null
INVARIANTS
  VecSizeIsArraySize
CHECK_DEADLOCK FALSE
