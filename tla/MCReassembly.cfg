SPECIFICATION Spec
CONSTANTS
  Chunk <- AnySlicing
  U16 = 8
  U32 = 16
  MaxPackets = 5
INVARIANTS
  TypeOK
  Delivered
  InOrderCompletes
PROPERTY
  Assembles
CHECK_DEADLOCK FALSE
