SPECIFICATION Spec
CONSTANTS
  Names = {allocation, free}
  Nodes = {n1, n2, n3, n4, n5}
  NULL = NULL
  Junk = Junk
INVARIANTS
  LinksAreMutual
  HeldIsDetached
  ChainInv
PROPERTIES
  ImplementsLists
