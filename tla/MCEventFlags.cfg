SPECIFICATION EventsSpec
CONSTANTS
    MaxTasks = 4
    AppTasks = 3
    BasePriority <- TwoPeersOneAbove
    TickHz = 1000
    WordMod = 65536
    a = a
    b = b
    Flags = {a, b}
    Requests <- ThreeRequests
    EventTimeouts = {1, 65535}
INVARIANTS
    ListIsExact
    NoWaiterOverlooked
PROPERTIES
    TakenFlagsAreGone
