SPECIFICATION Spec
CONSTANTS
    t1 = t1
    t2 = t2
    t3 = t3
    r1 = r1
    None = None
    TaskSeq <- MCTasks
    Program <- BusyPrograms
    Phases <- Late
    Periods <- BusyPeriods
    RelDeadline <- BusyDeadlines
    QueueSize <- BusyBuffers
    KillOnMiss = {t2}
    Policies = {"EDF", "RR"}
    Slice <- BusySlices
    FixedPriority <- AllZero
    Resources = {}
    Units <- Nothing
    ContextSwitchDelay = 0
    EndTick = 13
    Runs = 3
INVARIANTS TypeOK OnlyStaleFakeArrThrows FirstRuns BufferedIsServed JobsInOrder IdleLeavesNothing BoundedWait
PROPERTY RunEnds
