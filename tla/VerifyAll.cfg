CONSTANTS
    NULL = NULL
    Unset = Unset
    NoExit = NoExit
    HeapCalculationOK <- MCHeapCalculationOK
    MemoryOverheadOK <- MCMemoryOverheadOK
SPECIFICATION Spec
INVARIANT TypeOK
 
INVARIANT ExitCodeMatchesVerdicts
PROPERTY ExitsUnlessJavacBlocks
 
\* The verifier exits; the exited state has no successor.
CHECK_DEADLOCK FALSE
