CONSTANTS
  t1 = t1
  t2 = t2
  Txs = {t1}
  Malformed = {}
  TxTime <- NoneEarly
  MaxForw = 1
  MaxBack = 0
  MaxAttempt = 2
  LoopLimit = 1
  MaxTxCount = 2
  MaxTime = 1
  MaxBlocks = 2
  MaxCounter = 2
  MaxLate = 2
  Users = TRUE
  Gate = TRUE
  Relay = TRUE
  Limited = TRUE
  Rollbacks = TRUE
  Crashes = TRUE
SPECIFICATION Spec
INVARIANTS LogIsChain SelectionIsFresh StatusIsTrue
CHECK_DEADLOCK FALSE
