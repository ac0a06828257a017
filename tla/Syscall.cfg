SPECIFICATION Spec
CONSTANTS
    TableLen = 0
    Words = 16
    Numbers = {0, 1, 5}
INVARIANT OnKernelStack
CHECK_DEADLOCK FALSE
