SPECIFICATION Spec
CONSTANTS
  m0 = m0
  m1 = m1
  m2 = m2
  p1 = p1
  p2 = p2
  p3 = p3
  w1 = w1
  w2 = w2
  a = a
  b = b
  NULL = NULL
  Msg <- MCMsg
  RawMsg <- MCRawMsg
  IdOf <- MCIdOf
  SourceOf <- MCSourceOf
  ChunksOf <- MCChunksOf
  Malformed <- MCMalformed
  Ptr <- MCPtr
  Worker <- MCWorker
  MaxDuplicates = 1
  Threshold = 1
  Faults = {}
INVARIANT
  OnlyReceptionStates
