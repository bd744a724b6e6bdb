--------------------------- MODULE MCInitProfiler ---------------------------
(***************************************************************************)
(* Three phases and up to four startup-time lines, so that a phase can    *)
(* repeat, durations can tie, and one share can be exactly 5%: with       *)
(* durations 0, 1, 19 and 20, the 1 of a 1 + 19 total is 5%.              *)
(***************************************************************************)
EXTENDS InitProfiler

MCPhases == {"Genesis", "Create VM", "Initialize module system"}
MCDurations == {0, 1, 19, 20}
=============================================================================
