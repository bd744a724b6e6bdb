CONSTANTS
    NoOutput = NoOutput
    NoReport = NoReport
    NoExit = NoExit
    Sizes <- MCSizes
    Durations <- MCDurations
    MaxAllocs = 2
SPECIFICATION Spec
INVARIANT ReportForEveryTrace
\* The analyzer exits or blocks in javac; those states have no successor.
CHECK_DEADLOCK FALSE
