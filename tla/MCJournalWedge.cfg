SPECIFICATION Spec
CONSTANTS
  w1 = w1
  w2 = w2
  r1 = r1
  r2 = r2
  Nobody = Nobody
  NoCall = NoCall
  Writer = {w1, w2}
  Room = {r1, r2}
  MaxSequence = 1
  Body <- MCBody
  BodyOf <- MCBodyOf
  SegmentRecords = 2
  QueueRecords = 2
  QueueBytes = 2
  Faults = {"read", "put"}
  MaxOperations = 3
INVARIANTS
  PreparationResolvable
CHECK_DEADLOCK FALSE
