SPECIFICATION FairSpec
CONSTANTS
    MaxTasks = 4
    AppTasks = 3
    BasePriority <- OneAboveTwo
    TickHz = 1000
    WordMod = 65536
    SleepTimes = {1}
    CreatePriorities = {}
    MaxLock = 0
PROPERTIES
    RoundRobin
