SPECIFICATION FairSpec
CONSTANTS
    MaxTasks = 4
    AppTasks = 3
    BasePriority <- TwoPeersOneAbove
    TickHz = 1000
    WordMod = 65536
    Messages = {a}
    Blank = Blank
    Capacity = 1
    Timeouts = {1, 65535}
PROPERTIES
    MostUrgentReceives
