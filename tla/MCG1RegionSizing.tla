------------------------- MODULE MCG1RegionSizing -------------------------
(***************************************************************************)
(* Heaps (MiB) around each doubling boundary 2048 * r and r * 2049, the    *)
(* 64 GiB cap, and heaps past it.                                          *)
(***************************************************************************)
EXTENDS G1RegionSizingRefinement

MCMaxMemories ==
    {256, 1024, 2048, 2049, 3000, 3001, 4096, 4097, 4098, 6144, 8192,
     8193, 8194, 12288, 16384, 16385, 16388, 24576, 32768, 32769, 32776,
     49152, 65536, 65537, 65568, 65600, 100000, 131072, 262144}
=============================================================================
