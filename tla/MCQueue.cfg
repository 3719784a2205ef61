SPECIFICATION Spec
CONSTANTS
    MaxTasks = 4
    AppTasks = 3
    BasePriority <- TwoPeersOneAbove
    TickHz = 1000
    WordMod = 65536
    Messages = {a, b}
    Blank = Blank
    Capacity = 2
    Timeouts = {1, 65535}
SYMMETRY MessageSymmetry
INVARIANTS
    TypeOK
    ListsAreExact
    NoLostWakeup
PROPERTIES
    ImplementsChannel
