CONSTANTS
  FirstBlockTime = 1
  Duration = 2500
  NumberNodes = 2
  MyPosition = 1
  Authors <- Peers
  Step = 500
  MaxTime = 9000
  MaxBlocks = 3
  MaxList = 2
  MaxWrites = 3
SPECIFICATION Spec
INVARIANTS OnePerNodeAndSlot NextTimeIsNextTurn
CHECK_DEADLOCK FALSE
