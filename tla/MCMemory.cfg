SPECIFICATION Spec
CONSTANTS
  PoolSize = 120
  SizeRange = 1000000
  MaxSmall = 4095
  FailedLimit = 0
  LargeTries = 1
  MaxBlocks = 3
  Heap = {h1}
  Null = Null
  Sizes = {50, 80}
  Arrays = {a1}
  Lists = {l1}
  EltSizes = {6}
  Counts = {1, 2}
  MaxHeld = 3
INVARIANTS
  LargeAccounted
  BlocksPassedOver
  ElementsHeld
  IterationMeetsElements
PROPERTY ImplementsAllocator
