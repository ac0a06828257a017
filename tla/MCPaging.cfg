CONSTANTS
    Fan = 3
    HhdmSlot = 1
    KernelSlot = 2
    KernelPdpt = 2
    P4 = 1
    P3 = 2
    P2 = 3
    Frames <- MCFrames
    UnmapCalls <- MCUnmapCalls
    Accesses <- MCAccesses
    Ram <- MCRam
    Regions <- MCRegions
    PAGE_SIZE = 4
    MapCalls <- MCMapCalls
SPECIFICATION Spec
INVARIANTS TablesHangOnce HhdmExact TablesReachable LoopsMapAll TlbExact
PROPERTY ImplementsAddressSpace
