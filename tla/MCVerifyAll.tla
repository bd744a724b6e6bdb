---------------------------- MODULE MCVerifyAll ----------------------------
(***************************************************************************)
(* Instance of VerifyAll for TLC.  The two closed computations of the     *)
(* verifier use the 8 GiB heap, which TLC's 32-bit integers cannot hold;  *)
(* their values are the theorems HeapCalculationPasses and               *)
(* MemoryOverheadPasses of VerifyAllProofs, and are substituted here.     *)
(***************************************************************************)
EXTENDS VerifyAllRefinement

MCHeapCalculationOK == TRUE
MCMemoryOverheadOK == TRUE
=============================================================================
