CONSTANTS
    Irqs <- MCIrqs
    UacpiIrqs <- MCUacpiIrqs
    Wire <- MCWire
    Overrides <- MCOverrides
    Ioapics <- TwoIoapics
    HpetGsis <- HpetHigh
    BspId = 1
    HandlerSlots = 2
    FirmwareMasks = TRUE
    AllInvariant = FALSE
SPECIFICATION FairSpec
INVARIANTS TrampolineComplete InstalledServed EoiToDeliverer
PROPERTIES PitTicks
