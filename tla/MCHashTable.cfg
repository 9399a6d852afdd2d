SPECIFICATION Spec
CONSTANTS
  Id <- CollidingIds
  n1 = n1
  n2 = n2
  n3 = n3
  v1 = v1
  v2 = v2
  Value <- MCValue
  NodePtr <- MCNodePtr
  B = 2
  NULL = NULL
SYMMETRY Symmetry
INVARIANTS
  TypeOK
  DoublyLinked
  Accounted
PROPERTY
  ImplementsMap
CHECK_DEADLOCK FALSE
