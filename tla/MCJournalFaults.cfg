SPECIFICATION Spec
CONSTANTS
  w1 = w1
  w2 = w2
  r1 = r1
  r2 = r2
  Nobody = Nobody
  NoCall = NoCall
  Writer = {w1, w2}
  Room = {r1, r2}
  MaxSequence = 1
  Body <- MCBody
  BodyOf <- MCBodyOf
  SegmentRecords = 1
  QueueRecords = 2
  QueueBytes = 2
  Faults = {"read", "prepare", "reserve", "put", "commit", "settle", "cancel", "crash", "retry"}
  MaxOperations = 3
SYMMETRY Symmetry
INVARIANTS
  ObjectsAreCharged
  CommittedNotRetired
PROPERTIES
  DurableForever
CHECK_DEADLOCK FALSE
