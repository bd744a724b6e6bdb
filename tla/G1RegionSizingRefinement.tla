---------------------- MODULE G1RegionSizingRefinement ----------------------
(***************************************************************************)
(* The doubling loop of G1RegionSizing implements G1RegionSizeChoice: the *)
(* abstract result is what the program has printed, nothing while it is  *)
(* still in the loop, so every Double is a stutter of the abstract spec  *)
(* and PrintResult is its one Choose step.                                *)
(***************************************************************************)
EXTENDS G1RegionSizing

Abstract == INSTANCE G1RegionSizeChoice
              WITH memory   <- maxMemory,
                   result   <- IF pc = "done" THEN out ELSE NoOutput,
                   NoResult <- NoOutput

\* The loop, its doubling and its exit together print exactly what the
\* one-step choice of the region size prints.
ImplementsRegionSizeChoice == Abstract!Spec
=============================================================================
