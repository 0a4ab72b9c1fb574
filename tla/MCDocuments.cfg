SPECIFICATION DocumentsSpec
CONSTANTS
  p1 = p1
  p2 = p2
  x = x
  y = y
  h1 = h1
  h2 = h2
  h3 = h3
  h4 = h4
  h5 = h5
  h6 = h6
  s = s
  t = t
  u = u
  PubRequest = {p1, p2}
  PubHash = {x, y}
  PubBundle <- MCBundle
  PubNone = none
  PubTtl = 2
  PubTicks = 3
  PubFailures = 1
  AgOp = {g1, g2}
  AgEdit = {e1}
  AgNone = none
  AgFaults <- MCAgFaults
  AgFailures = 3
  EditUpdate = {u1, u2}
  EditWriter = {w1, w2}
  EditDrops = {"reserving", "reserved", "rollback"}
  EditCancels = 2
  SyncPlace = {1, 2}
  SyncWords = 2
  SyncDrops = 1
  SyncNone = none
  PjText = {11}
  PjAsset = {21}
  PjEdits = 2
  PjFailures = 1
  BakDeployment = {d1, d2}
  BakObject = {k1}
  BakProcess = {c1, c2}
  BakTask = {o1, o2}
  BakId = {i1}
  BakFaults = {"crash", "fail", "lost"}
  BakFailures = 2
  BakNone = none
  Ask = {m1}
  ChatTasks = 1
  ChatQueue = 3
  ChatBrowsers = 1
  ChatRunners = 2
  ChatCancels = 1
  ChatStops = 1
  ToolOp = {1}
  ToolBatch = {1}
  ToolJob = {j1, j2}
  ToolEvents = 2
  ToolTake = 1
  ToolCalls = 3
  ToolNotes = 0
  ToolFaults = {"lost", "drop", "crash"}
  ToolFailures = 2
  DocFailures = 2
  DocCrashes = 1
  DocPauses = 1
  IdxServer = {i1, i2}
  IdxChange = {h1, h2, h3, h4, h5, h6}
  IdxKind <- MCIdxKind
  IdxSlug <- MCIdxSlug
  IdxLimit = 2
  IdxFailures = 1
  b1 = b1
  b2 = b2
  Browser = {b1, b2}
  SessConns <- MCSessConns
  SessQueue = 2
  SessSlots = 2
  SessFaults <- MCSessFaults
INVARIANTS
  SessEditsArrive
  DocPublishedOrGone
  IdxAckedSurvives
  ToolEffectsAreKnown
  
  BakCompleteIsWhole
  PubNeededIsStored
  AgRowsAreTrue
  EditReservationsAreSettled
  SyncWordsSurvive
  PjWordsSurvive
CHECK_DEADLOCK FALSE
