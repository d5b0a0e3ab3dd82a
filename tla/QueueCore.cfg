SPECIFICATION Spec
CONSTANTS
    m1 = m1 m2 = m2 m3 = m3 m4 = m4 m5 = m5 s1 = s1 s2 = s2
    Requests <- FiveAndTwo
    Simple <- TwoSimple
    MaxMerge = 2
    MaySilent = FALSE
    StallsIn = {}
    MayDrain = FALSE
    MaySimpleStall = FALSE
    MayOvertake = FALSE
    PromptWakeups = TRUE
SYMMETRY Symmetry
INVARIANTS
    TypeOK
    NoOrphanRow
    MergedAtMostOnce
    ReplyCoversMessage
    TablesAreClean
PROPERTIES
    ImplementsAnswers
