--------------------------- MODULE MCVerifyAllPair ---------------------------
(***************************************************************************)
(* Two VerifyAll runs for TLC; the two closed 8 GiB checks are the values *)
(* VerifyAllProofs proves, as in MCVerifyAll.                              *)
(***************************************************************************)
EXTENDS VerifyAllPair

MCHeapCalculationOK == TRUE
MCMemoryOverheadOK == TRUE
=============================================================================
