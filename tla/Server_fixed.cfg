SPECIFICATION Spec
CONSTANTS
    ta = ta
    tb = tb
    tc = tc
    s1 = s1
    s2 = s2
    Kernel = Kernel
    None = None
    Tasks = {ta, tb, tc}
    Servers = {s1, s2}
    EntitySeq <- MCEntities
    Home <- MCHome
    EDF = FALSE
    FixedPriority <- FPPriority
    Q <- FPQ
    P <- FPP
    VUnit = 6
    UUnit = 4
    Program <- FPPrograms
    Phases <- FPPhases
    Periods <- FPPeriods
    RelDeadline <- FPDeadlines
    Kinds <- FPKinds
    ChangesAt <- FPChanges
    NewBudgets <- FPBudgets
    EndTick = 24
INVARIANTS ServerInvariant NoBudgetIsLost ActiveIsInUse GrubAccounts
PROPERTIES PollsOncePerPeriod
