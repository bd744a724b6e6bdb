CONSTANTS
    NoOutput = NoOutput
    NoReport = NoReport
    NoExit = NoExit
    Sizes <- MCSizes
    Durations <- MCDurations
    MaxAllocs = 2
SPECIFICATION Spec
INVARIANT TypeOK
INVARIANT GroupsAccountForAllocations
PROPERTY ExitsUnlessJavacBlocks
\* The analyzer exits or blocks in javac; those states have no successor.
CHECK_DEADLOCK FALSE
