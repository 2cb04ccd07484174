CONSTANTS
  Programs <- AllPrograms
  Budgets = {20, 1000}
  BareUnary = FALSE
  MaxLoop = 6
  CostCall = 5
  CostContract = 10
  CostExtend = 2
  MaxCallDepth = 5
SPECIFICATION Spec
INVARIANTS RunsAsMeant CompilesAsWritten
CHECK_DEADLOCK FALSE
