SPECIFICATION DocSpec
CONSTANTS
  DocFailures = 1
  DocCrashes = 1
  DocPauses = 1
INVARIANTS
  DocStartsAgain
CHECK_DEADLOCK FALSE
