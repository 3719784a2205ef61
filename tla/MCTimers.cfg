SPECIFICATION TimersSpec
CONSTANTS
    Timers = {r1, r2, r3}
    Periods = {1, 2, 3}
SYMMETRY TimerSymmetry
INVARIANTS
    WalkCoversList
PROPERTIES
    TimersFireOnTime
