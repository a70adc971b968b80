\* Keys of two bits: those in the tree are equal or neighbours on the circle.
SPECIFICATION TreeSpec
CONSTANTS
  Nodes = {n1, n2, n3, n4, n5, n6, n7, n8, n9}
  Sentinel = Sentinel
  Null = Null
  Half = 2
VIEW Shape
INVARIANTS
  LinksOK
  RedBlackOK
  NextWalks
PROPERTY
  ImplementsSortedList
