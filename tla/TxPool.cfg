CONSTANTS
  t1 = t1
  t2 = t2
  Txs = {t1, t2}
  Malformed = {}
  TxTime <- OneEarly
  MaxForw = 1
  MaxBack = 1
  MaxAttempt = 2
  LoopLimit = 1
  MaxTxCount = 2
  MaxTime = 2
  MaxBlocks = 3
  MaxCounter = 2
  MaxLate = 2
  Users = TRUE
  Gate = FALSE
  Relay = FALSE
  Limited = FALSE
  Rollbacks = FALSE
  Crashes = FALSE
SPECIFICATION FairSpec
INVARIANT NoSilentLoss
PROPERTY QueueDrains
CHECK_DEADLOCK FALSE
