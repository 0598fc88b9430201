SPECIFICATION Spec
CONSTANTS
    t1 = t1
    t2 = t2
    t3 = t3
    r1 = r1
    None = None
    TaskSeq <- MCTasks
    Program <- ResourcePrograms
    Phases <- ResourcePhases
    Periods <- ResourcePeriods
    RelDeadline <- FullDeadlines
    QueueSize <- LongBuffer
    KillOnMiss = {}
    Policies = {"FP"}
    Slice <- AllZero
    FixedPriority <- ByNumber
    Resources = {r1}
    Units <- TwoUnits
    ContextSwitchDelay = 0
    EndTick = 14
    Runs = 3
INVARIANTS NoException NoLostTask UnitsAreConserved NoIdleUnits
PROPERTY NotOvertaken
