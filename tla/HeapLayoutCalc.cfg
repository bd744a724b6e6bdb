CONSTANTS
    HeapSizes <- MCHeapSizes
    RegionSizes <- MCRegionSizes
    NoReport = NoReport
SPECIFICATION Spec
INVARIANT TypeOK
INVARIANT BitmapDerivationsAgree
INVARIANT CardTableDerivationsAgree
\* Every script runs once and exits: the final state has no successor.
CHECK_DEADLOCK FALSE
