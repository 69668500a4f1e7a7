SPECIFICATION Spec
CONSTANTS
  Chars = {a, b}
  Zero = Zero
  Junk = Junk
  MaxElem = 4
INVARIANTS
  LastIsZero
