SPECIFICATION FairSpec
CONSTANTS
    Workers = {w1, w2, w3}
    NoWorker = NoWorker
    Poll = 1
    Nap = 3
    Stall = 4
    MaxWork = 1
    RestartDelay = 1
    FaultLimit = 1
    Levels = {3}
    MaxShocks = 2
PROPERTIES
    Recovers
