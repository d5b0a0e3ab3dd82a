SPECIFICATION Spec
CONSTANTS
  x = x
  u = u
  v = v
  h1 = h1
  h2 = h2
  rec = rec
  NoOrder = NoOrder
  NoNumber = NoNumber
  Orders <- ThreeOrders
  Package <- EachItsOwn
  Channel <- AllManual
  Handlers <- TwoHandlers
  Reconcilers = {rec}
  MaxFaults = 0
  SlowCalls = FALSE
INVARIANT OffsetOnce
CHECK_DEADLOCK FALSE
