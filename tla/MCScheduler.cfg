SPECIFICATION FairSpec
CONSTANTS
    MaxTasks = 4
    AppTasks = 2
    BasePriority <- TwoLevels
    TickHz = 1000
    WordMod = 65536
    SleepTimes = {1, 65535}
    CreatePriorities = {3}
    MaxLock = 2
INVARIANTS
    TypeOK
    RingIsComplete
    BlockedNeverExecutes
    NoAssertFailure
    NoMissedPreemption
PROPERTIES
    ReuseIsSafe
    TopPriorityRuns
