SPECIFICATION SessSpec
CONSTANTS
  b1 = b1
  b2 = b2
  Browser = {b1, b2}
  SessConns <- MCSessConns
  SessQueue = 2
  SessSlots = 2
  SessFaults <- MCSessReview
INVARIANT SessPendingIsHonest
CHECK_DEADLOCK FALSE
