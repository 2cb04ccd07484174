CONSTANTS
  Gap = 1
  Remote = TRUE
  MaxBlock = 2
  MaxWaiting = 2
  Nodes = {1, 2, 3}
  Me = 1
  Suspects = {3}
  BadIds = {1}
  PerDay = 1
  NodeBanTime = 1
  LocalBanTime = 1
  Day = 2
  EveryBlock = 1
  MaxTime = 4
  MaxReports = 4
  Hosts = {h1, h2}
  BadHosts = {}
  MinConfirmed = 0
  Behind = 1
  MaxChanges = 2
  Daemons = {d1, d2}
  OneStop = TRUE
  EarlyHandlers = TRUE
  ListValues = {"n1", "n2"}
  GapValues = {0, 2, 9}
  MaxGap = 9
  MaxTx = 2
  MaxBlocks = 3
  Dead = {h2}
  Txs = {t1, t2}
  MaxAsk = 1
  MaxInfo = 2
SPECIFICATION Spec
INVARIANTS CacheFollowsState
PROPERTIES PauseFollowsHeights BansAreRight StopsCleanly TopIsChecked SendingIsTrue
CHECK_DEADLOCK FALSE
