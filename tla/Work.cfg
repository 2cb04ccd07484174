CONSTANTS
  Ecosystems = {2}
  Names = {"a", "b"}
  Sources = {"v1", "v2"}
  Wallets = {0, 7}
  MaxContracts = 4
  MaxBlocks = 2
  MaxRecords = 4
  Keys = {k1, k2, k3}
  Founder = k1
  Developers = {k2}
  Values = {1, 2}
  RowConds = {"main", k3}
  MinCount = 1
  MaxCount = 2
  SomeTables = {"pages", "contracts", "languages", "applications", "app_params", "binaries", "metrics", "keys", "history", "system_parameters"}
  MaxRights = 1
  Importers = {i1, i2}
  PieceSize = 2
  ImportFiles <- SomeFiles
  ImportSlots <- SomeSlots
  MaxUploads = 3
  VDENames = {n1, n2}
  VDEUsers = {u1, u2}
  MaxVDEOps = 4
  CronIds = {1, 2}
  Specs = {"daily", "hourly", "wrong"}
  CronContracts = {"a", "b"}
  MaxCronOps = 4
  Ecos = {1, 2}
  NoteUsers = {m1, m2}
  NoteRole = role5
  MaxNotes = 3
  DayLimit = 4
  PairLimit = 2
  BlockLimit = 1
  Hours = 2
  Payers = {p1, p2}
  Amounts = {1, 2}
  MaxHour = 4
  MaxTransfers = 3
  Purses = {w1, w2, w3}
  Maker = w2
  Collector = w3
  Opening <- SomeOpening
  Maxpay <- SomeMaxpay
  FuelRate = 1
  SizeFuel = 1
  CommissionSizes = {34, 150}
  MaxSum = 3
  Overrun = 1
  MaxPlayed = 3
  CTxs = {c1, c2, c3}
  Editors = {c2}
  MaxVersion = 3
  MaxPages = 1
  MaxTxSize = 256
  Messages <- SomeMessages
  MaxSent = 2
  Resources = {"a", "b"}
  MaxLangOps = 3
  Dictionaries <- SomeTexts
  Accepts <- SomeAccepts
  BaseOf <- SomeBases
  Makers = {g1, g2}
  Delayed = {d1, d2}
  Fallible = {d2}
  FirstBlock <- SomeFirst
  EveryBlock <- SomeEvery
  CallLimit <- SomeLimit
  MaxHeight = 3
  MaxMade = 2
  MaxUndone = 2
SPECIFICATION Spec
CONSTRAINT Clean
INVARIANTS CompiledIsStored ImportArrives NothingLeftOver RowsAreScheduled
INVARIANTS ShownIsTrue ExcessIsMailed PaymentsAreRight PlayedAsItIsNow
INVARIANTS WireIsFaithful CallsAreKept TextIsTheStored
PROPERTIES RowsAreGuarded
CHECK_DEADLOCK FALSE
