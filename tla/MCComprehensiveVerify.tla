------------------------ MODULE MCComprehensiveVerify ------------------------
(***************************************************************************)
(* Instance of ComprehensiveVerify for TLC.  RegionSizeTest prints the     *)
(* region G1RegionSizing computes for the default heap: 4 MB is the        *)
(* expected answer, 2 and 32 MB wrong ones.  The GC figures are one inside *)
(* and one outside each accepted range, and the range bounds themselves.   *)
(***************************************************************************)
EXTENDS ComprehensiveVerify

MCRegionOutputs == {2, 4, 32}
MCGcTimes == {499, 500, 1234, 10000, 10001}
MCAllocRates == {999, 5000, 100000}
=============================================================================
