SPECIFICATION Spec
CONSTANTS
    r1 = r1 r2 = r2 r3 = r3 i1 = i1 i2 = i2
    Requests <- ThreeRequests
    Instances <- OneInstance
    Home <- OneHome
    Workers <- ThreeRequests
    MaxMerge = 2
    MayCrash = FALSE
    MaySweep = TRUE
    MayExitText = FALSE
    SlowPolls = FALSE
SYMMETRY Symmetry
INVARIANTS
    WorkerDelivers
