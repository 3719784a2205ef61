SPECIFICATION Spec
CONSTANTS
    MaxTasks = 4
    AppTasks = 3
    BasePriority <- TwoAboveOne
    TickHz = 1000
    WordMod = 65536
    Mutexes = {m1}
    Timeouts = {1, 65535}
    SleepTimes = {1}
    MaxDepth = 2
    MaxHeld = 1
INVARIANTS
    NoMissedPreemption
