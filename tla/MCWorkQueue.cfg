SPECIFICATION FairSpec
CONSTANTS
    MaxTasks = 3
    AppTasks = 2
    BasePriority <- WorkerAboveOne
    TickHz = 1000
    WordMod = 65536
    Bits = {x}
    Items = {a, b}
    NoItem = NoItem
    WorkLength = 2
    ClearMasks <- NoneOrAll
    Timeouts = {0, 1, 65535}
INVARIANTS
    TypeOK
    NoNotificationMissed
    NoWorkLeftBehind
PROPERTIES
    NotificationsAreKept
    WorkIsFifo
    WorkGetsDone
