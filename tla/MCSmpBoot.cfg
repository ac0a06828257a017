SPECIFICATION SmpFairSpec
CONSTANTS
    Madt <- MCMadt
    BspApic = 0
    Refused <- MCRefused
\* kernel_panic halts a core for good, and kernel_main waits for ever for a processor
\* that never answers.
CHECK_DEADLOCK FALSE
INVARIANTS SurvivesOnceLoaded StacksPrivate AllocatorExclusive OwnContext CacheIndexMatches
PROPERTIES TrampolineStable ImplementsCpuSetup BootEnds
