-------------------------- MODULE MCHeapLayoutCalc --------------------------
(***************************************************************************)
(* Instance of HeapLayoutCalc for TLC.  TLC's integers are 32-bit, so the  *)
(* scripts' 8 GiB heap is out of reach; the heaps here run up to 2047 MiB, *)
(* cover powers of two and sizes that only small regions divide, and all  *)
(* six G1 region sizes.  The 8 GiB values are proved in HeapLayoutProofs. *)
(***************************************************************************)
EXTENDS HeapLayoutCalc

MCHeapSizes == {n * MiB : n \in {64, 96, 128, 1000, 1024, 1536, 2047}}
MCRegionSizes == {k * MiB : k \in {1, 2, 4, 8, 16, 32}}
=============================================================================
