----------------------------- MODULE HeapLayout -----------------------------
(***************************************************************************)
(* The G1 auxiliary-structure arithmetic that the calculator scripts       *)
(* repeat: src/gdb_ai/calc_memory.py, src/gdb_ai/final_verify.py,          *)
(* src/gdb_ai/verify_bitmap_size.py and                                    *)
(* src/jvm-init-analysis/.../verify_g1_calculations.py.  Every quantity is *)
(* an integer number of bytes; Python's // on non-negative integers is     *)
(* \div and x >> s is x \div 2^s.  The literals are the scripts' literals. *)
(***************************************************************************)
EXTENDS Naturals

\* Sizes the scripts write as literals (calc_memory.py, final_verify.py).
MiB == 1024 * 1024
card_size == 512
HeapWordSize == 8
LogHeapWordSize == 3
ObjectAlignmentInBytes == 8
MinObjAlignmentInBytes == ObjectAlignmentInBytes
MinObjAlignment == MinObjAlignmentInBytes \div HeapWordSize
LogMinObjAlignmentInBytes == 3
LogMinObjAlignment == LogMinObjAlignmentInBytes - LogHeapWordSize
BitsPerByte == 8

\* mark_distance() = MinObjAlignmentInBytes * BitsPerByte: heap bytes per
\* mark-bitmap unit (calc_memory.py writes it as 8 * 8).
mark_distance == MinObjAlignmentInBytes * BitsPerByte

\* Mutant: the shift taken in bytes, LogMinObjAlignmentInBytes, instead of
\* in heap words.
shifter_in_bytes == LogMinObjAlignmentInBytes

\* The G1CMBitMap constructor's _shifter(LogMinObjAlignment).
shifter == LogMinObjAlignment

\* region_count = heap_size // region_size.
region_count(heap, region) == heap \div region

\* Mutant: cards counted in heap words, region // (card_size * word).
cards_per_region_in_words(region) == region \div (card_size * HeapWordSize)

\* CardsPerRegion = region_size // card_size.
cards_per_region(region) == region \div card_size

\* One byte per card: the card table, the block offset table and the card
\* counts table all use heap_size // card_size (calc_memory.py).
cardtable_size(heap) == heap \div card_size
bot_size(heap) == heap \div card_size
card_counts_size(heap) == heap \div card_size

\* compute_size(heap_size) = heap_size // mark_distance(): what the scripts
\* take as the byte size of one mark bitmap.
bitmap_size_bytes(heap) == heap \div mark_distance

\* final_verify.py's second derivation, from G1CMBitMap::initialize:
\* heap words >> _shifter bits, then // 8 bytes.
bitmap_bytes_from_initialize(heap) ==
    ((heap \div HeapWordSize) \div (2 ^ shifter)) \div 8

\* CardTable + BOT + CMBitMap x 2 + CardCounts (calc_memory.py).
fixed_overhead(heap) ==
    cardtable_size(heap) + bot_size(heap)
      + bitmap_size_bytes(heap) * 2 + card_counts_size(heap)

\* verify_g1_calculations.py derives the card table from the regions:
\* total_regions * cards_per_region, one byte per card, and adds estimated
\* per-region metadata (64 B) and remembered-set overhead (1024 B).
region_metadata_size == 64
rs_overhead_per_region == 1024
card_table_from_regions(heap, region) ==
    region_count(heap, region) * cards_per_region(region)
g1_total_overhead(heap, region) ==
    region_count(heap, region) * region_metadata_size
      + card_table_from_regions(heap, region)
      + region_count(heap, region) * rs_overhead_per_region

\* final_verify.py and verify_bitmap_size.py hard-code the three card-sized
\* tables as 16 MiB each, the value for the 8 GiB heap they analyse.
hardcoded_table == 16 * MiB
final_verify_total(heap) ==
    3 * hardcoded_table + bitmap_size_bytes(heap) * 2

\* verify_bitmap_size.py: what is left of the NMT "GC mmap" figure after
\* the three tables; it then assumes two bitmaps of 128 MiB each.
nmt_gc_mmap == 353128448
assumed_bitmap_size == 128 * MiB
\* Mutant: the two assumed bitmaps subtracted as well, each counted twice.
nmt_others_double_bitmaps ==
    nmt_gc_mmap - 3 * hardcoded_table - 2 * (assumed_bitmap_size * 2)
nmt_others == nmt_gc_mmap - 3 * hardcoded_table
=============================================================================
