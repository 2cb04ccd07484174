CONSTANTS
  h1 = h1
  h2 = h2
  me = me
  t1 = t1
  t2 = t2
  f1 = f1
  Hosts = {h1}
  Me = me
  Txs = {t1, t2, f1}
  Failing = {f1}
  TxLists <- TwoLists
  RollbackBlocks = 1
  BlocksPerRequest = 2
  MaxSlot = 2
  MaxHeight = 4
  Regenerate = TRUE
  Switching = FALSE
  Lossy = TRUE
  Crashes = TRUE
SPECIFICATION Spec
INVARIANTS Linked InfoIsTop AppliedInChain NoDoubleEffect
PROPERTIES UndoFromTop GapIsNotBuiltOn
SYMMETRY SymmetricTxs
CHECK_DEADLOCK FALSE
