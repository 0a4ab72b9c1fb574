SPECIFICATION StorageSpec
CONSTANTS
  RetDoc = {a, b}
  RetSegments = 2
  RetFaults = {"crash", "put", "commit", "delete"}
  RetFailures = 1
  AccObject = {k1, k2}
  AccWriter = {o1, o2}
  AccRequest = {q1}
  AccBytes = 1
  AccHeadroom = 1
  HistText = {{"c"}, {"c", "d"}}
  HistFigure = {"f"}
  HistKeep = 1
  HistOps = 2
  HistEdits = 2
  HistFaults = {"crash", "stall", "delete"}
  HistFailures = 1
  Nobody = Nobody
  NoCall = NoCall
  NoSnapshot = NoSnapshot
  Writer = {r1}
  Room = {r1}
  Edit = {j1}
  MaxSequence = 5
  Body <- MCBody
  BodyOf <- MCBodyOf
  SegmentRecords = 2
  QueueRecords = 2
  QueueBytes = 2
  Faults = {"cancel", "crash", "settle", "prepare", "read", "reserve", "put", "commit"}
  MaxOperations = 3
  q1 = q1
  q2 = q2
  q3 = q3
  CompReq = {q1, q2, q3}
  CompKept = {q1, q2}
  CompScope <- MCCompScope
  CompGen <- MCCompGen
  CompQueue = 2
  CompIds = 3
  CompGrants = 2
  CompFaults = {"stop", "fail", "disk"}
  CompFailures = 1
  SgRequest = {q1}
  SgFaults = {"drop", "crash", "checkpoint", "refused"}
  SgFailures = 3
  SgDecisions = 2
  SgContains = TRUE
  ErStages <- MCErStages
  ErKeys = 2
  ErBatch = 1
  ErPasses = {p1, p2}
  ErAsks = 1
  ErLives = 2
  ErCrashes = 1
  ErFaults = {}
INVARIANTS
  ErErasureAdvances
  RetStoreAgrees
  SgAcceptedOnce
  AccHoldingsAreCharged
  HistStoreAgrees
  CompJobsRunOnce
PROPERTIES
  RecoveryNeverRegresses
CHECK_DEADLOCK FALSE
