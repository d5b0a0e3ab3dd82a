SPECIFICATION FairSpec
CONSTANTS
  x = x
  u = u
  v = v
  h1 = h1
  h2 = h2
  rec = rec
  NoOrder = NoOrder
  NoNumber = NoNumber
  Orders <- OneOrder
  Package <- EachItsOwn
  Channel <- AllPsp
  Handlers <- TwoHandlers
  Reconcilers = {rec}
  MaxFaults = 2
  SlowCalls = TRUE
INVARIANTS TypeOK GrantedOnce OneRecordedNumber SettledAsProviderSaid
PROPERTIES RefundIsFinal MoneyIsAnswered AcceptedRefundSettles
CHECK_DEADLOCK FALSE
