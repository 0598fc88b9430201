SPECIFICATION Spec
CONSTANTS
    ta = ta
    tb = tb
    tc = tc
    s1 = s1
    s2 = s2
    Kernel = Kernel
    None = None
    Tasks = {ta, tb, tc}
    Servers = {s1, s2}
    EntitySeq <- MCEntities
    Home <- MCHome
    EDF = FALSE
    FixedPriority <- FPPriority
    Q <- LateQ
    P <- LateP
    VUnit = 1
    UUnit = 1
    Program <- LatePrograms
    Phases <- LatePhases
    Periods <- LatePeriods
    RelDeadline <- LateDeadlines
    Kinds <- LateKinds
    ChangesAt <- NoChange
    NewBudgets <- NoBudget
    EndTick = 20
INVARIANTS AllInTheFuture
