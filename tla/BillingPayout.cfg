SPECIFICATION FairSpec
CONSTANTS
  x = x
  u = u
  v = v
  h1 = h1
  h2 = h2
  rec = rec
  NoOrder = NoOrder
  NoNumber = NoNumber
  Orders <- OneOrder
  Package <- EachItsOwn
  Channel <- AllPsp
  Handlers <- TwoHandlers
  Reconcilers = {rec}
  MaxFaults = 1
  SlowCalls = FALSE
PROPERTY EveryRefundIsSent
CHECK_DEADLOCK FALSE
