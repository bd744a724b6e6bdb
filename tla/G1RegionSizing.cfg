CONSTANTS
    MaxMemories <- MCMaxMemories
SPECIFICATION Spec
INVARIANT TypeOK
INVARIANT RegionSizeIsReference
 
\* The program prints and exits: the final state has no successor.
CHECK_DEADLOCK FALSE
