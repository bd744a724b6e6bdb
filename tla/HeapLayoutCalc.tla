--------------------------- MODULE HeapLayoutCalc ---------------------------
(***************************************************************************)
(* The four calculator scripts as one state machine.  A configuration      *)
(* (heap size, region size) is fixed at the start; each script is an      *)
(* action that runs once, start to finish, and leaves the report it        *)
(* prints.  The scripts share nothing but the formulas of HeapLayout, so   *)
(* the questions are whether two scripts that report the same quantity    *)
(* agree, and whether they agree with the specification.                  *)
(***************************************************************************)
EXTENDS HeapLayout

CONSTANTS
    HeapSizes,      \* heap sizes in bytes (the scripts fix 8 GiB)
    RegionSizes,    \* G1 region sizes in bytes (the scripts fix 4 MiB)
    NoReport        \* model value: the script has not been run

\* A G1 heap is a whole number of MiB; a region is one of the G1 region
\* sizes, a power of two from 1 to 32 MiB.
ASSUME HeapAssumption ==
    \A h \in HeapSizes : h \in Nat /\ h > 0 /\ h % MiB = 0
ASSUME RegionAssumption ==
    RegionSizes \subseteq {k * MiB : k \in {1, 2, 4, 8, 16, 32}}

VARIABLES
    heap_size,      \* heap_size = 8 * 1024 * 1024 * 1024
    region_size,    \* region_size = 4 * 1024 * 1024
    calc,           \* what calc_memory.py prints
    fverify,        \* what final_verify.py prints
    bitmapv,        \* what verify_bitmap_size.py prints
    g1calc          \* what verify_g1_calculations() returns and prints

vars == <<heap_size, region_size, calc, fverify, bitmapv, g1calc>>

CalcReport == [region_count : Nat, cards_per_region : Nat, cardtable : Nat,
               bot : Nat, card_counts : Nat, bitmap : Nat,
               fixed_overhead : Nat]
FinalVerifyReport == [bitmap_bits : Nat, bitmap_bytes : Nat,
                      compute_size : Nat, total : Nat]
BitmapReport == [result : Nat, others : Nat, fixed : Nat]
G1CalcReport == [total_regions : Nat, cards_per_region : Nat,
                 card_table_size : Nat, total_overhead : Nat]

TypeOK ==
    /\ heap_size \in HeapSizes
    /\ region_size \in RegionSizes
    /\ calc \in CalcReport \cup {NoReport}
    /\ fverify \in FinalVerifyReport \cup {NoReport}
    /\ bitmapv \in BitmapReport \cup {NoReport}
    /\ g1calc \in G1CalcReport \cup {NoReport}

\* G1 sizes the heap as a whole number of regions.
Init ==
    /\ heap_size \in HeapSizes
    /\ region_size \in {r \in RegionSizes : heap_size % r = 0}
    /\ calc = NoReport
    /\ fverify = NoReport
    /\ bitmapv = NoReport
    /\ g1calc = NoReport

\* calc_memory.py: every table from heap_size, bitmap = heap // mark_distance.
RunCalcMemory ==
    /\ calc = NoReport
    /\ calc' = [region_count     |-> region_count(heap_size, region_size),
                cards_per_region |-> cards_per_region(region_size),
                cardtable        |-> cardtable_size(heap_size),
                bot              |-> bot_size(heap_size),
                card_counts      |-> card_counts_size(heap_size),
                bitmap           |-> bitmap_size_bytes(heap_size),
                fixed_overhead   |-> fixed_overhead(heap_size)]
    /\ UNCHANGED <<heap_size, region_size, fverify, bitmapv, g1calc>>

\* final_verify.py: the bitmap twice (initialize and compute_size) and the
\* total with the hard-coded tables.
RunFinalVerify ==
    /\ fverify = NoReport
    /\ fverify' = [bitmap_bits  |-> (heap_size \div HeapWordSize)
                                      \div (2 ^ shifter),
                   bitmap_bytes |-> bitmap_bytes_from_initialize(heap_size),
                   compute_size |-> bitmap_size_bytes(heap_size),
                   total        |-> final_verify_total(heap_size)]
    /\ UNCHANGED <<heap_size, region_size, calc, bitmapv, g1calc>>

\* verify_bitmap_size.py: compute_size, the NMT remainder, and the total it
\* settles on with two 128 MiB bitmaps.
RunVerifyBitmapSize ==
    /\ bitmapv = NoReport
    /\ bitmapv' = [result |-> bitmap_size_bytes(heap_size),
                   others |-> nmt_others,
                   fixed  |-> 3 * hardcoded_table + assumed_bitmap_size * 2]
    /\ UNCHANGED <<heap_size, region_size, calc, fverify, g1calc>>

\* verify_g1_calculations(): regions, cards via the regions, overhead.
RunVerifyG1Calculations ==
    /\ g1calc = NoReport
    /\ g1calc' = [total_regions    |-> region_count(heap_size, region_size),
                  cards_per_region |-> cards_per_region(region_size),
                  card_table_size  |-> card_table_from_regions(heap_size,
                                                               region_size),
                  total_overhead   |-> g1_total_overhead(heap_size,
                                                         region_size)]
    /\ UNCHANGED <<heap_size, region_size, calc, fverify, bitmapv>>

Next ==
    \/ RunCalcMemory
    \/ RunFinalVerify
    \/ RunVerifyBitmapSize
    \/ RunVerifyG1Calculations

Spec == Init /\ [][Next]_vars

-----------------------------------------------------------------------------
(***************************************************************************)
(* Properties                                                              *)
(***************************************************************************)

\* The mark bitmap is derived three ways: G1CMBitMap::initialize (heap words
\* >> _shifter bits, // 8) and compute_size (heap // mark_distance) in
\* final_verify.py, and compute_size in calc_memory.py and
\* verify_bitmap_size.py.  final_verify.py's consistency check says they give
\* one byte count; every pair of scripts that has run must agree on it.
BitmapDerivationsAgree ==
    /\ fverify # NoReport => fverify.bitmap_bytes = fverify.compute_size
    /\ fverify # NoReport /\ calc # NoReport =>
           fverify.bitmap_bytes = calc.bitmap
    /\ fverify # NoReport /\ bitmapv # NoReport =>
           fverify.bitmap_bytes = bitmapv.result

\* The card table computed from the heap (calc_memory.py, one byte per
\* 512 B) and from the regions (verify_g1_calculations.py, regions times
\* cards per region) is the same size, and BOT and card counts shadow it.
CardTableDerivationsAgree ==
    /\ calc # NoReport =>
           calc.cardtable = calc.bot /\ calc.bot = calc.card_counts
    /\ calc # NoReport /\ g1calc # NoReport =>
           g1calc.card_table_size = calc.cardtable

\* The specification (section 4.1) says the public mark-bitmap size is one
\* bit per mark_distance bytes, heap // mark_distance // 8; calc_memory.py
\* reports heap // mark_distance as bytes.
SpecBitmapSize ==
    calc # NoReport =>
        calc.bitmap = (heap_size \div mark_distance) \div BitsPerByte
=============================================================================
