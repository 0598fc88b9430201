SPECIFICATION Spec
CONSTANTS
    e1 = e1
    e2 = e2
    e3 = e3
    Events = {e1, e2, e3}
    StdPriority <- MCStdPriority
    EndTick = 2
    Delays <- MCDelays
    Runs = 3
    MaxPosts = 4
INVARIANTS TypeOK FlagIsMembership
PROPERTY ImplementsAgenda
