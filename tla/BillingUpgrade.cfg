SPECIFICATION Spec
CONSTANTS
  x = x
  u = u
  v = v
  h1 = h1
  h2 = h2
  rec = rec
  NoOrder = NoOrder
  NoNumber = NoNumber
  Orders <- ThreeOrders
  Package <- EachItsOwn
  Channel <- MockBase
  Handlers <- TwoHandlers
  Reconcilers = {rec}
  MaxFaults = 1
  SlowCalls = FALSE
SYMMETRY UpgradeSymmetry
INVARIANTS PendingUpgradeOwnsItsBase LostBaseIsMarked
CHECK_DEADLOCK FALSE
