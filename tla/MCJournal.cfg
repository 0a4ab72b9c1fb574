SPECIFICATION FairSpec
CONSTANTS
  w1 = w1
  w2 = w2
  r1 = r1
  r2 = r2
  Nobody = Nobody
  NoCall = NoCall
  Writer = {w1, w2}
  Room = {r1, r2}
  MaxSequence = 2
  Body <- MCBody
  BodyOf <- MCBodyOf
  SegmentRecords = 1
  QueueRecords = 2
  QueueBytes = 2
  Faults = {"put", "commit", "crash"}
  MaxOperations = 3
INVARIANTS
  AckedIsDurable
  OneRecordPerCursor
  PreparationResolvable
PROPERTIES
  ImplementsDurableLog
  AppendReturns
  ServesAgain
CHECK_DEADLOCK FALSE
