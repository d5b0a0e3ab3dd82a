SPECIFICATION FairSpec
CONSTANTS
    r1 = r1 r2 = r2 r3 = r3 i1 = i1 i2 = i2
    Requests <- ThreeRequests
    Instances <- TwoInstances
    Home <- TwoHomes
    Workers <- TwoWorkers
    MaxMerge = 2
    MayCrash = TRUE
    MaySweep = TRUE
    MayExitText = TRUE
    SlowPolls = TRUE
INVARIANTS
    OneHolder
    NothingLost
    PublishedBeforeUnlock
    OnceUnlessNoEpoch
    DroppedOnlyOnReusedEpoch
PROPERTIES
    EveryRequestReturns
