CONSTANTS
    HeapSizes <- MCHeapSizes
    RegionSizes <- MCRegionSizes
    NoReport = NoReport
SPECIFICATION Spec
INVARIANT SpecBitmapSize
CHECK_DEADLOCK FALSE
