SPECIFICATION ServicesSpec
CONSTANTS
  \* OutboundQueue, Outreach
  Workers = {w1, w2}
  Messages = {t1}
  MaxRetries = 1
  MaxRows = 2
  MaxMishaps = 1
  MaxResends = 1
  WeeklyLimit = 1
  MaxAttempts = 2
  \* Deals
  Users = {u1, u2}
  LastStage = 1
  Amounts = {0, 1}
  Texts = {x, y}
  MaxDeals = 1
  MaxQuotes = 2
  \* Dunning
  Steps = {0, 1}
  Grace = 1
  MaxDays = 1
  MaxTerms = 2
  MaxPays = 2
  MaxActs = 1
  MaxFails = 1
  \* EventBus
  Consumers = {c1, c2}
  LastEvent = 2
  MaxRetry = 1
  MaxFaults = 2
  \* Conversation
  Requests = {q1}
  Advisors = {a1, a2}
  HumanTimeout = 1
  LeadTimeout = 2
  AutoReply = TRUE
  Unassigned = nobody
  MaxMessages = 2
  MaxCalls = 2
  \* FlowEngine
  Walkers = {w1, w2}
  StartNode = "start"
  Kind <- AGraph
  Leads <- ItsEdges
  MaxSteps = 4
  MaxWalks = 4
  MaxSlips = 1
INVARIANTS ServicesTypeOK OneOwner OneRowPerTask WonWithAmount VersionsDiffer EventsAccounted NotTalkedOver
PROPERTIES TasksSettle LiftsOnlyItsOwn SettledIsClosed StaysClaimed EndedIsClosed
CHECK_DEADLOCK FALSE
