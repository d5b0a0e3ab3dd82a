SPECIFICATION FairSpec
CONSTANTS
    m1 = m1 m2 = m2 m3 = m3 m4 = m4 m5 = m5 s1 = s1 s2 = s2
    Requests <- ThreeAndOne
    Simple <- OneSimple
    MaxMerge = 2
    MaySilent = TRUE
    StallsIn = {"generate"}
    MayDrain = TRUE
    MaySimpleStall = TRUE
    MayOvertake = TRUE
    PromptWakeups = FALSE
INVARIANTS
    OneRowPerRequest
    BusyMeansOneHolder
PROPERTIES
    OnlyHolderPublishes
    EveryRequestReturns
