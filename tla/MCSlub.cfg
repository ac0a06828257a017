CONSTANTS
    MaxOrder = 2
    NumPages = 10
    Pow2 <- MCPow2
    Classes = {1, 2}
    MaxObjs <- MCMaxObjs
    LargeSizes = {3}
    APs = {1}
    InuseModulus = 8
    MaxLive = 4
SPECIFICATION Spec
INVARIANTS ObjectsExact PartialListExact NothingLost
