CONSTANTS
    MaxOrder = 3
    NumPages = 32
    TotalPages = 29
    MaxRequest = 0
    Pow2 <- MCPow2
    Usable <- MCUsable
    Acpi <- MCAcpi
    MarkRegions <- MCMarkRegions
    EarlyRanges <- MCEarlyRanges
    LowPages <- MCLowPages
    PageSize = 2
    Mmap <- MCMmap
    KernelStart = 12
    KernelEnd = 21
    MbiEnd = 25
    EarlyLimit = 60
    BumpSizes = {1}
    MaxEarlyCalls = 3
SPECIFICATION BootSpec
INVARIANT BumpHandsOutOnce
