CONSTANTS
    NULL = NULL
    Unset = Unset
    NoExit = NoExit
    HeapCalculationOK <- MCHeapCalculationOK
    MemoryOverheadOK <- MCMemoryOverheadOK
SPECIFICATION Spec
INVARIANT UndeterminedShownUnknown
CHECK_DEADLOCK FALSE
