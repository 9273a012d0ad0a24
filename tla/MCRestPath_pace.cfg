\* An order and a market data call that compete for a small budget.
CONSTANTS
  order = order
  data = data
  Tasks = {order, data}
  Essential = {order}
  Weight <- Weights
  MaxWeight = 3
  Window = 2
  MaxAttempts = 2
  MaxCalls = 2
  MaxLost = 1
SPECIFICATION FairSpec
INVARIANTS TypeOK WaitIsExact SoleCallerWelcome
PROPERTIES EssentialServed
CHECK_DEADLOCK FALSE
