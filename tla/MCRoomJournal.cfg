SPECIFICATION RoomSpec
CONSTANTS
  r1 = r1
  r2 = r2
  e1 = e1
  e2 = e2
  Nobody = Nobody
  NoCall = NoCall
  NoSnapshot = NoSnapshot
  Writer = {r1, r2}
  Room = {r1, r2}
  Edit = {e1}
  MaxSequence = 4
  Body <- MCBody
  BodyOf <- MCBodyOf
  SegmentRecords = 2
  QueueRecords = 2
  QueueBytes = 2
  Faults = {"put", "commit", "crash"}
  MaxOperations = 3
SYMMETRY Symmetry
INVARIANTS
  SavedIsRecoverable
  CleanRoomIsDurable
CHECK_DEADLOCK FALSE
