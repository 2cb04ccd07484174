CONSTANTS
  h1 = h1
  h2 = h2
  me = me
  t1 = t1
  t2 = t2
  f1 = f1
  Hosts = {h1, h2}
  Me = me
  Txs = {t1, f1}
  Failing = {f1}
  TxLists <- OneList
  RollbackBlocks = 3
  BlocksPerRequest = 2
  MaxSlot = 3
  MaxHeight = 4
  Regenerate = FALSE
  Switching = FALSE
  Lossy = FALSE
  Crashes = FALSE
SPECIFICATION FairSpec
INVARIANT StateIsChain
PROPERTY CatchesUp
CHECK_DEADLOCK FALSE
