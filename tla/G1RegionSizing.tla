---------------------------- MODULE G1RegionSizing ----------------------------
(***************************************************************************)
(* The region-size loop of RegionSizeTest, the Java program that           *)
(* comprehensive_g1_verification.py writes and runs (its                   *)
(* create_region_size_test).  System.getProperty("G1HeapRegionSize") is    *)
(* null in that run (compile_and_run_test passes no -D option), so the     *)
(* program takes the fallback: start at 1 MB and double while the region  *)
(* is below 32 MB and maxMemory / regionSize > 2048, then print the size   *)
(* and the estimated number of regions.                                    *)
(*                                                                         *)
(* Sizes are in MiB.  Runtime.maxMemory() of a G1 JVM is its maximum       *)
(* capacity, a whole number of (at least 1 MiB) regions, so every Java     *)
(* long division below has the same quotient in bytes and in MiB.          *)
(***************************************************************************)
EXTENDS Naturals

CONSTANTS
    MaxMemories     \* values Runtime.maxMemory() can return, in MiB

ASSUME MaxMemoriesAssumption == \A m \in MaxMemories : m \in Nat /\ m > 0

\* The literals of the loop, in MiB.
start_region == 1         \* 1024 * 1024
max_region == 32          \* 32 * 1024 * 1024
target_regions == 2048

VARIABLES
    maxMemory,      \* runtime.maxMemory()
    regionSize,     \* long regionSize
    pc,             \* "loop" while in the while statement, then "done"
    out             \* the two printed numbers, once printed

vars == <<maxMemory, regionSize, pc, out>>

NoOutput == [region_mb |-> 0, estimated |-> 0]

TypeOK ==
    /\ maxMemory \in MaxMemories
    /\ regionSize \in {2 ^ k : k \in 0..5}
    /\ pc \in {"loop", "done"}
    /\ out \in [region_mb : Nat, estimated : Nat]

Init ==
    /\ maxMemory \in MaxMemories
    /\ regionSize = start_region
    /\ pc = "loop"
    /\ out = NoOutput

\* Mutants: the 2048 boundary taken as >=, and the 32 MB cap as <=.
LoopConditionAtTarget ==
    regionSize < max_region /\ maxMemory \div regionSize >= target_regions
LoopConditionPastCap ==
    regionSize <= max_region /\ maxMemory \div regionSize > target_regions

\* The condition of the while statement.
LoopCondition ==
    regionSize < max_region /\ maxMemory \div regionSize > target_regions

\* One iteration: regionSize *= 2.
Double ==
    /\ pc = "loop"
    /\ LoopCondition
    /\ regionSize' = regionSize * 2
    /\ UNCHANGED <<maxMemory, pc, out>>

\* Leaving the loop and printing "Region size", "Max memory" and
\* "Estimated regions" (maxMemory / regionSize).
PrintResult ==
    /\ pc = "loop"
    /\ ~LoopCondition
    /\ pc' = "done"
    /\ out' = [region_mb |-> regionSize,
               estimated |-> maxMemory \div regionSize]
    /\ UNCHANGED <<maxMemory, regionSize>>

Next == Double \/ PrintResult

Spec == Init /\ [][Next]_vars

-----------------------------------------------------------------------------
\* What the loop is for: the smallest power-of-two region of 1..32 MiB that
\* leaves at most 2048 regions (counted as the loop counts them, with
\* integer division), and 32 MiB when no such region exists.
Candidates == {2 ^ k : k \in 0..5}
RefRegionSize(m) ==
    LET fit == {r \in Candidates : m \div r <= target_regions}
    IN  IF fit = {} THEN max_region
        ELSE CHOOSE r \in fit : \A s \in fit : r <= s

\* Once printed, the region size the program reports is the reference
\* region size for its maxMemory: the loop neither stops early at the
\* 2048 boundary nor doubles once too often.
RegionSizeIsReference ==
    pc = "done" => out.region_mb = RefRegionSize(maxMemory)
=============================================================================
