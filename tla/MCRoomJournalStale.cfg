SPECIFICATION RoomSpec
CONSTANTS
  r1 = r1
  r2 = r2
  e1 = e1
  e2 = e2
  Nobody = Nobody
  NoCall = NoCall
  NoSnapshot = NoSnapshot
  Writer = {r1}
  Room = {r1}
  Edit = {e1, e2}
  MaxSequence = 6
  Body <- MCBody
  BodyOf <- MCBodyOf
  SegmentRecords = 2
  QueueRecords = 2
  QueueBytes = 2
  Faults = {"prepare"}
  MaxOperations = 4
INVARIANTS
  SavedIsRecoverable
CHECK_DEADLOCK FALSE
