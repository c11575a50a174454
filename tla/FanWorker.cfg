SPECIFICATION MCSpec
CONSTANTS
    CpuReadings = {0, 50, 62, 92, 95}
    PhyReadings = {50}
    DriveTemps = {30, 41, 60}
    MaxDrives = 2
    MonitorStates = {"absent", "alarm", "quiet"}
    CpuCurve <- MCCpuCurve
    PhyCurve <- MCPhyCurve
    DriveCurve <- MCDriveCurve
    CpuLimit = 90
    CpuHardLimit = 95
    DriveLimit = 60
    PhyLimit = 100
    Hold = 4
    FaultLimit = 6
    HotLimit = 2
    Refresh = 4
    AlarmLimit = 3
    Spans = {1, 2}
    MaxSpan = 2
    MaxNow = 10
    Temps <- MCTemps
    TheCurve <- MCCpuCurve
INVARIANTS
    CoolingMeetsDemand
    BlindMeansFull
    ScannedBeforeSlowing
    PromptShutdown
    ThreeSwitches
PROPERTIES
    ReductionHeld
    ShutdownJustified
    NoChatter
CHECK_DEADLOCK FALSE
