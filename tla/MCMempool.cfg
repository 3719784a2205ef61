SPECIFICATION Spec
CONSTANTS
    MaxTasks = 4
    AppTasks = 3
    BasePriority <- TwoPeersOneAbove
    TickHz = 1000
    WordMod = 65536
    BlockCount = 2
    NoBlock = NoBlock
    Timeouts = {1, 2, 65535}
INVARIANTS
    BlocksConserved
    HandOverIsExact
PROPERTIES
    ImplementsSemaphore
