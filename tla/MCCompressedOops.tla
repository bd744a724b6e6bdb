------------------------- MODULE MCCompressedOops -------------------------
(***************************************************************************)
(* CompressedOops scaled by 2^25: a "GB" is 32 bytes, an "MB" 16 bytes, so *)
(* the script's 8 GB heap at 24 GB is 256 bytes at 768, and a 32-bit      *)
(* narrow oop of 8-byte granules, which spans 32 GB, becomes 7 bits.  The  *)
(* bases include an unaligned one; the shifts are every shift for which    *)
(* the script's 8-byte test offsets are aligned.                           *)
(***************************************************************************)
EXTENDS CompressedOops

MCHeapBases == {0, 768, 1000}
MCHeapSizes == {256, 512}
MCShifts == {0, 1, 2, 3}
MCMaxCompressed == 127
MCMB == 16
MCGB == 32
=============================================================================
