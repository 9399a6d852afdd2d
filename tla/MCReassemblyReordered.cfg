SPECIFICATION Spec
CONSTANTS
  Chunk <- ThreePackets
  U16 = 8
  U32 = 16
  MaxPackets = 3
INVARIANT
  CompletesWhenAllArrived
CHECK_DEADLOCK FALSE
