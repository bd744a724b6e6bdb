CONSTANTS
    NoCapacity = NoCapacity
    HeapBases <- MCHeapBases
    HeapSizes <- MCHeapSizes
    Shifts <- MCShifts
    max_compressed <- MCMaxCompressed
    MB <- MCMB
    GB <- MCGB
SPECIFICATION Spec
INVARIANT TypeOK
INVARIANT RoundTrip
\* The script prints its capacity figures and ends.
CHECK_DEADLOCK FALSE
