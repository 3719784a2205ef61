SPECIFICATION Spec
CONSTANTS
    MaxTasks = 6
    AppTasks = 5
    BasePriority <- DemoPriorities
    TickHz = 1000
    WordMod = 65536
    AppMutex = AppMutex
    Message = Message
    Blank = Blank
    Flag = Flag
    Item = Item
    NoItem = NoItem
    NoBlock = NoBlock
    DemoTimer = DemoTimer
    Bit = Bit
    WorkLength = 2
    QueueLength = 2
    BlockCount = 2
    TickSteps = 6
    Pause = 1
    SemTimeout = 2
    SendPeriod = 3
    TimerPeriod = 4
    WaitTimeout = 5
INVARIANTS
    ProbeHolds
    ListsAgree
    NoWorkDropped
