SPECIFICATION Spec
CONSTANTS
    t1 = t1
    t2 = t2
    t3 = t3
    r1 = r1
    None = None
    TaskSeq <- MCTasks
    Program <- FullPrograms
    Phases <- Early
    Periods <- FullPeriods
    RelDeadline <- FullDeadlines
    QueueSize <- LongBuffer
    KillOnMiss = {}
    Policies = {"EDF"}
    Slice <- AllZero
    FixedPriority <- AllZero
    Resources = {}
    Units <- Nothing
    ContextSwitchDelay = 0
    EndTick = 24
    Runs = 1
INVARIANTS ExecutingIsTimed NoMiss
PROPERTY ServesByRank
