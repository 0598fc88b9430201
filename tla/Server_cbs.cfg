SPECIFICATION Spec
CONSTANTS
    ta = ta
    tb = tb
    tc = tc
    s1 = s1
    s2 = s2
    Kernel = Kernel
    None = None
    Tasks = {ta, tb, tc}
    Servers = {s1, s2}
    EntitySeq <- MCEntities
    Home <- MCHome
    EDF = TRUE
    FixedPriority <- NoPriority
    Q <- CBSQ
    P <- CBSP
    VUnit = 2
    UUnit = 1
    Program <- CBSPrograms
    Phases <- CBSPhases
    Periods <- CBSPeriods
    RelDeadline <- CBSDeadlines
    Kinds <- CBSKinds
    ChangesAt <- NoChange
    NewBudgets <- NoBudget
    EndTick = 26
INVARIANTS ServerInvariant VirtualTimeIsBudget NoMiss
PROPERTIES ImplementsReservation
