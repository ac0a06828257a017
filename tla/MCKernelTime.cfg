SPECIFICATION Spec
CONSTANTS
    NS = 12
    US = 6
    PitFreq = 3
    TscPerUnit = 2
    HpetFreq = 9
    Word = 33
    Window = 4
    Machines <- EveryMachine
    Powerdowns = TRUE
    MaxDelay = 2
    MaxNow = 16
INVARIANTS PowerdownInTime
PROPERTIES  RateExact TscDelayKept
