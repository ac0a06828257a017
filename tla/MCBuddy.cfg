CONSTANTS
    MaxOrder = 2
    NumPages = 8
    TotalPages = 8
    MaxRequest = 5
    Pow2 <- MCPow2
    Usable <- MCUsable
    Acpi <- MCAcpi
    MarkRegions <- MCMarkRegions
    EarlyRanges <- MCEarlyRanges
    LowPages <- MCLowPages
SPECIFICATION Spec
INVARIANTS BlocksSound MergeBitExact CountersExact
PROPERTY ImplementsPageAllocator
