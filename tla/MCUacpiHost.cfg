SPECIFICATION FairSpec
CONSTANTS
    Spinlocks = {"regs", "gpe"}
    Mutexes = {"namespace"}
    SciCalls <- MCSciCalls
    SciDepth <- MCSciDepth
    MaxCalls = 8
    MaxPresses = 2
    Objects = 2
INVARIANTS SpinlockNeverSelfWaits FlagFollowsLocks
PROPERTIES PowerButtonServed
CHECK_DEADLOCK FALSE
