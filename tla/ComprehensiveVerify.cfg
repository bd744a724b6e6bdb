CONSTANTS
    Unset = Unset
    NoOutput = NoOutput
    NoReport = NoReport
    NoExit = NoExit
    RegionOutputs <- MCRegionOutputs
    GcTimes <- MCGcTimes
    AllocRates <- MCAllocRates
SPECIFICATION Spec
INVARIANT TypeOK
INVARIANT OverallAccuracyCountsLeaves
PROPERTY ExitsUnlessJavacBlocks
 
\* The script exits (or blocks in javac); those states have no successor.
CHECK_DEADLOCK FALSE
