SPECIFICATION Spec
CONSTANTS
    Tasks = {t1, t2, t3}
    CPUs = {c1, c2}
    None = None
    ContextSwitchDelay = 1
    MigrationDelay = 1
    EndTick = 3
    Runs = 1
INVARIANTS TypeOK Consistent DispatchedIsReady ExecutingIsOnCPU NoException TopRuns NoLostDispatch DispatchIsPrompt
PROPERTIES TopSwitchIsKept PlacementIsLegal
