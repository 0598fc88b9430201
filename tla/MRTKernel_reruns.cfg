SPECIFICATION OrderedSpec
CONSTANTS
    Tasks = {t1, t2, t3}
    CPUs = {c1, c2, c3}
    None = None
    ContextSwitchDelay = 2
    MigrationDelay = 0
    EndTick = 4
    Runs = 3
INVARIANT NoTaskOnTwoCPUs
