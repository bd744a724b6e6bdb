---------------------------- MODULE MCG1Analyzer ----------------------------
(***************************************************************************)
(* Sizes (KiB) at and around the classification thresholds: a page, the   *)
(* 16 MB card table, the 32 MB bitmaps, the 128 MB bitmap the calculators *)
(* derive, 250 MB, the 1 GB class space and the 8 GB heap reservation.     *)
(* Durations include zero, which strace prints for fast calls.  Two mmap  *)
(* lines are enough for two groups, one group twice, and an empty trace.  *)
(***************************************************************************)
EXTENDS G1Analyzer

MCSizes == {4, 16384, 32768, 131072, 256000, 1048576, 8388608}
MCDurations == {0, 89234}
=============================================================================
