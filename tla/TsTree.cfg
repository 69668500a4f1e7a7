SPECIFICATION Spec
CONSTANTS
  n1 = n1
  n2 = n2
  n3 = n3
  n4 = n4
  a1 = a1
  a2 = a2
  width = width
  height = height
  Null = Null
  Dummy = Dummy
  Junk = Junk
  Nodes <- MCNodes
  Attrs <- MCAttrs
  Names <- MCNames
  NameOf <- MCNameOf
SYMMETRY Namesakes
INVARIANTS
  TypeOK
  PointersAgree
  LookupFindsPaths
PROPERTIES
  ImplementsForest
