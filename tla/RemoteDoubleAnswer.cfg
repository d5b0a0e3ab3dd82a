SPECIFICATION Spec
CONSTANTS
    r1 = r1 r2 = r2 r3 = r3 i1 = i1 i2 = i2
    Requests <- ThreeRequests
    Instances <- TwoInstances
    Home <- TwoHomes
    Workers <- ThreeRequests
    MaxMerge = 2
    MayCrash = FALSE
    MaySweep = FALSE
    MayExitText = FALSE
    SlowPolls = FALSE
SYMMETRY Symmetry
INVARIANTS
    AnsweredOnce
