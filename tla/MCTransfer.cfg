SPECIFICATION FairSpec
CONSTANTS
  Pieces = 4
  MaxDrops = 2
  Patient = TRUE
INVARIANTS TypeOK PauseHolds CancelStops
PROPERTIES Delivers CancelEnds ResumeFlows
CHECK_DEADLOCK FALSE
