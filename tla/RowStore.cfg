SPECIFICATION Spec
CONSTANTS
  t1 = t1
  UserTables = {t1}
  EcosystemOf <- MCEcosystemOf
  NameOf <- MCNameOf
  Columns = {"amount", "pub"}
  Ids = {1, 2}
  Ecosystems = {1, 2}
  Values = {0, 1}
  WhereColumns = {"amount"}
  ManyRows = FALSE
  Rekey = FALSE
  StrayKeys = FALSE
  BatchSize = 1
  MaxRecords = 4
  MaxBlocks = 2
  NoTable = NoTable
  NoData = NoData
  Absent = Absent
PROPERTIES RollbackIsExact
