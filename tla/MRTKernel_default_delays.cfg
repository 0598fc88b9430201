SPECIFICATION Spec
CONSTANTS
    Tasks = {t1, t2, t3, t4}
    CPUs = {c1, c2}
    None = None
    ContextSwitchDelay = 0
    MigrationDelay = 0
    EndTick = 2
    Runs = 3
SYMMETRY Symmetry
INVARIANTS NoTaskOnTwoCPUs TopRuns
