SPECIFICATION Spec
CONSTANTS
    Workers = {w1, w2, w3}
    NoWorker = NoWorker
    Poll = 1
    Stall = 5
    Nap = 3
    MaxWork = 2
    RestartDelay = 1
    FaultLimit = 6
    Levels = {0, 3}
    MaxShocks = 2
SYMMETRY Interchangeable
INVARIANTS
    FullBetweenWorkers
    SecondWorkerUnrecorded
    LowIsShortLived
    StopLeavesFull
    GivesUpInTime
PROPERTIES
    PowerOffJustified
    StallJustified
