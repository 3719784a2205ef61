SPECIFICATION SemFairSpec
CONSTANTS
    MaxTasks = 4
    AppTasks = 3
    BasePriority <- TwoPeersOneAbove
    TickHz = 1000
    WordMod = 65536
    InitialCount = 1
    MaxCount = 2
    Timeouts = {1, 2, 65535}
INVARIANTS
    SemTypeOK
    ListIsExact
PROPERTIES
    FirstComeAmongEquals
    ImplementsAbstract
    TimedWaitReturns
