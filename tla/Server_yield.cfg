SPECIFICATION Spec
CONSTANTS
    ta = ta
    tb = tb
    tc = tc
    s1 = s1
    s2 = s2
    Kernel = Kernel
    None = None
    Tasks = {ta, tb, tc}
    Servers = {s1, s2}
    EntitySeq <- MCEntities
    Home <- MCHome
    EDF = TRUE
    FixedPriority <- NoPriority
    Q <- YieldQ
    P <- YieldP
    VUnit = 1
    UUnit = 1
    Program <- YieldPrograms
    Phases <- YieldPhases
    Periods <- YieldPeriods
    RelDeadline <- CBSDeadlines
    Kinds <- YieldKinds
    ChangesAt <- NoChange
    NewBudgets <- NoBudget
    EndTick = 16
INVARIANT NoException
