SPECIFICATION Spec
CONSTANTS
  Chars = {a, b}
  Zero = Zero
  Junk = Junk
  MaxElem = 6
INVARIANTS
  TypeOK
  StringIntact
PROPERTIES
  ImplementsStack
  NoThrashing
