CONSTANTS
    NoOutput = NoOutput
    NoReport = NoReport
    NoExit = NoExit
    Phases <- MCPhases
    Durations <- MCDurations
    MaxLines = 3
SPECIFICATION Spec
INVARIANT CriticalPathIsSignificant
\* The profiler exits after its one run; that state has no successor.
CHECK_DEADLOCK FALSE
