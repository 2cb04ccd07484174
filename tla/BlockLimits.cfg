CONSTANTS
  a = a
  b = b
  large = large
  set = set
  fail = fail
  alice = alice
  bob = bob
  e1 = e1
  e2 = e2
  Txs = {a, b, large, set, fail}
  Keys = {alice, bob}
  Ecosystems = {e1, e2}
  TxKey <- Key
  TxEcosystem <- Ecosystem
  TxSize <- Size
  TxBytes <- Bytes
  HeaderSize = 1
  TxFuel <- Fuel
  NewLimit <- Limit
  Initial <- InitialLimits
  Failing = {fail}
  MaxTxSize = 8
  MaxBlockSize = 13
  MaxTxCount = 4
  MaxBlockUserTx = 2
  MaxTxFuel = 2
  MaxBlockFuel = 4
  MaxAttempt = 2
SPECIFICATION FairSpec
INVARIANTS PeersAgree CheckPasses
PROPERTY Decided
CHECK_DEADLOCK FALSE
