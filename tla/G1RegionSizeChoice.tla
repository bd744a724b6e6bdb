------------------------- MODULE G1RegionSizeChoice -------------------------
(***************************************************************************)
(* What RegionSizeTest's region-size loop promises, as one step: for its  *)
(* maxMemory (MiB) it prints the smallest power-of-two region size of     *)
(* 1..32 MiB that leaves at most 2048 regions, or 32 MiB when none does,  *)
(* with maxMemory / regionSize as the estimated count.                    *)
(***************************************************************************)
EXTENDS Naturals

CONSTANTS
    MaxMemories,    \* values Runtime.maxMemory() can return, in MiB
    NoResult        \* nothing printed yet

VARIABLES
    memory,         \* the JVM's maximum heap
    result          \* the printed region size and estimate

vars == <<memory, result>>

Candidates == {1, 2, 4, 8, 16, 32}
Fits(m, r) == m \div r <= 2048
ChosenRegion(m) ==
    LET fit == {r \in Candidates : Fits(m, r)}
    IN  IF fit = {} THEN 32 ELSE CHOOSE r \in fit : \A s \in fit : r <= s

Init ==
    /\ memory \in MaxMemories
    /\ result = NoResult

Choose ==
    /\ result = NoResult
    /\ result' = [region_mb |-> ChosenRegion(memory),
                  estimated |-> memory \div ChosenRegion(memory)]
    /\ UNCHANGED memory

Spec == Init /\ [][Choose]_vars
=============================================================================
