CONSTANTS
    NULL = NULL
    Unset = Unset
    NoExit = NoExit
    HeapCalculationOK <- [VerifyAll] MCHeapCalculationOK
    MemoryOverheadOK <- [VerifyAll] MCMemoryOverheadOK
SPECIFICATION Spec
INVARIANT OwnSourcePresentWhileRunning
CHECK_DEADLOCK FALSE
