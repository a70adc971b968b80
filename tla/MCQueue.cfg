SPECIFICATION Spec
CONSTANTS
  Heads = {h, n}
  Elts = {1, 2, 3, 4, 5}
  Key <- Halves
  Null = Null
VIEW Rings
INVARIANTS
  PrevMirrorsNext
  MiddleIsMiddle
PROPERTY ImplementsSequences
