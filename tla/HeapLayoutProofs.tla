--------------------------- MODULE HeapLayoutProofs ---------------------------
(***************************************************************************)
(* Proofs about HeapLayout and HeapLayoutCalc for every heap and region   *)
(* size the assumptions allow, and the scripts' own 8 GiB figures, which  *)
(* TLC's 32-bit integers cannot hold.                                     *)
(***************************************************************************)
EXTENDS HeapLayoutCalc, TLAPS

\* The shift of G1CMBitMap::initialize is zero: 2 ^ LogMinObjAlignment = 1.
LEMMA ShifterIsZero == 2 ^ shifter = 1
<1>1. shifter = 0
  BY DEF shifter, LogMinObjAlignment, LogMinObjAlignmentInBytes,
         LogHeapWordSize
<1>2. 2 ^ 0 = 1
  OBVIOUS
<1>3. QED
  BY <1>1, <1>2

\* For every heap size, G1CMBitMap::initialize (heap words >> _shifter
\* bits, // 8) and compute_size (heap // mark_distance) give one byte count.
LEMMA BitmapFormulasAgree ==
  ASSUME NEW h \in Nat
  PROVE  bitmap_bytes_from_initialize(h) = bitmap_size_bytes(h)
<1>1. bitmap_bytes_from_initialize(h) = ((h \div 8) \div 1) \div 8
  BY ShifterIsZero DEF bitmap_bytes_from_initialize, HeapWordSize
<1>2. bitmap_size_bytes(h) = h \div 64
  BY DEF bitmap_size_bytes, mark_distance, MinObjAlignmentInBytes,
         ObjectAlignmentInBytes, BitsPerByte
<1>3. ((h \div 8) \div 1) \div 8 = h \div 64
  OBVIOUS
<1>4. QED
  BY <1>1, <1>2, <1>3

\* The NMT remainder of verify_bitmap_size.py is a byte count.
LEMMA NmtOthersNat == nmt_others \in Nat
  BY DEF nmt_others, nmt_gc_mmap, hardcoded_table, MiB

\* Region sizes are positive.
LEMMA RegionPositive ==
  ASSUME NEW r \in RegionSizes
  PROVE  r \in Nat /\ r > 0
<1>1. PICK k \in {1, 2, 4, 8, 16, 32} : r = k * MiB
  BY RegionAssumption
<1>2. QED
  BY <1>1 DEF MiB

\* For a heap that is a whole number of regions, verify_g1_calculations'
\* card table, total_regions * cards_per_region, is calc_memory.py's
\* heap // card_size: a region is a whole number of 512-byte cards.
LEMMA CardsFromRegions ==
  ASSUME NEW h \in Nat, NEW r \in RegionSizes, h % r = 0
  PROVE  card_table_from_regions(h, r) = cardtable_size(h)
<1>1. PICK k \in {1, 2, 4, 8, 16, 32} : r = k * MiB
  BY RegionAssumption
<1> DEFINE q == h \div r
           c == k * 2048
<1>2. r \in Nat /\ r > 0 /\ q \in Nat /\ c \in Nat
  BY <1>1 DEF MiB
<1>3. h = q * r
  BY <1>2
<1>4. r = c * 512 /\ r \div 512 = c
  BY <1>1 DEF MiB
<1>5. h = (q * c) * 512
  BY <1>3, <1>4, <1>2
<1>6. h \div 512 = q * c
  BY <1>5, <1>2
<1>7. QED
  BY <1>4, <1>6 DEF card_table_from_regions, region_count, cards_per_region,
     cardtable_size, card_size

-----------------------------------------------------------------------------
(***************************************************************************)
(* Type correctness                                                        *)
(***************************************************************************)

LEMMA TypeOKStep == TypeOK /\ [Next]_vars => TypeOK'
<1> SUFFICES ASSUME TypeOK, [Next]_vars PROVE TypeOK'
  OBVIOUS
<1>1. heap_size \in Nat /\ region_size \in Nat /\ region_size > 0
  BY HeapAssumption, RegionPositive DEF TypeOK
<1>2. CASE RunCalcMemory
  BY <1>1, <1>2 DEF RunCalcMemory, TypeOK, CalcReport, region_count,
     cards_per_region, cardtable_size, bot_size, card_counts_size,
     bitmap_size_bytes, fixed_overhead, mark_distance,
     MinObjAlignmentInBytes, ObjectAlignmentInBytes, BitsPerByte,
     card_size
<1>3. CASE RunFinalVerify
  BY <1>1, <1>3, ShifterIsZero DEF RunFinalVerify, TypeOK,
     FinalVerifyReport, bitmap_bytes_from_initialize, bitmap_size_bytes,
     final_verify_total, hardcoded_table, MiB, mark_distance,
     MinObjAlignmentInBytes, ObjectAlignmentInBytes, BitsPerByte,
     HeapWordSize
<1>4. CASE RunVerifyBitmapSize
  BY <1>1, <1>4, NmtOthersNat DEF RunVerifyBitmapSize, TypeOK,
     BitmapReport, bitmap_size_bytes, hardcoded_table,
     assumed_bitmap_size, MiB, mark_distance, MinObjAlignmentInBytes,
     ObjectAlignmentInBytes, BitsPerByte
<1>5. CASE RunVerifyG1Calculations
  BY <1>1, <1>5 DEF RunVerifyG1Calculations, TypeOK, G1CalcReport,
     region_count, cards_per_region, card_table_from_regions,
     g1_total_overhead, region_metadata_size, rs_overhead_per_region,
     card_size
<1>6. CASE UNCHANGED vars
  BY <1>6 DEF vars, TypeOK
<1>7. QED
  BY <1>2, <1>3, <1>4, <1>5, <1>6 DEF Next

\* For every heap size and region size, the configuration keeps its types
\* and every report a script prints is a record of natural numbers.
THEOREM TypeCorrect == Spec => []TypeOK
<1>1. Init => TypeOK
  BY DEF Init, TypeOK
<1>2. QED
  BY <1>1, TypeOKStep, PTL DEF Spec

-----------------------------------------------------------------------------
(***************************************************************************)
(* The bitmap derivations agree                                            *)
(***************************************************************************)

\* Each report that exists holds the formula its script evaluates on the
\* configuration; with TypeOK this is inductive.
BitmapInv ==
    /\ TypeOK
    /\ fverify # NoReport =>
           /\ fverify.bitmap_bytes = bitmap_bytes_from_initialize(heap_size)
           /\ fverify.compute_size = bitmap_size_bytes(heap_size)
    /\ calc # NoReport => calc.bitmap = bitmap_size_bytes(heap_size)
    /\ bitmapv # NoReport => bitmapv.result = bitmap_size_bytes(heap_size)

LEMMA BitmapInvInductive == Spec => []BitmapInv
<1>1. Init => BitmapInv
  BY DEF Init, BitmapInv, TypeOK
<1>2. BitmapInv /\ [Next]_vars => BitmapInv'
  <2> SUFFICES ASSUME BitmapInv, [Next]_vars PROVE BitmapInv'
    OBVIOUS
  <2>1. TypeOK'
    BY TypeOKStep DEF BitmapInv
  <2>2. CASE RunCalcMemory
    BY <2>1, <2>2 DEF BitmapInv, RunCalcMemory
  <2>3. CASE RunFinalVerify
    BY <2>1, <2>3 DEF BitmapInv, RunFinalVerify
  <2>4. CASE RunVerifyBitmapSize
    BY <2>1, <2>4 DEF BitmapInv, RunVerifyBitmapSize
  <2>5. CASE RunVerifyG1Calculations
    BY <2>1, <2>5 DEF BitmapInv, RunVerifyG1Calculations
  <2>6. CASE UNCHANGED vars
    BY <2>1, <2>6 DEF BitmapInv, vars
  <2>7. QED
    BY <2>2, <2>3, <2>4, <2>5, <2>6 DEF Next
<1>3. QED
  BY <1>1, <1>2, PTL DEF Spec

-----------------------------------------------------------------------------
(***************************************************************************)
(* The card-table derivations agree                                        *)
(***************************************************************************)

\* The heap stays a whole number of regions, and each card-sized report
\* holds its script's formula on the configuration.
CardInv ==
    /\ TypeOK
    /\ heap_size % region_size = 0
    /\ calc # NoReport =>
           /\ calc.cardtable = cardtable_size(heap_size)
           /\ calc.bot = bot_size(heap_size)
           /\ calc.card_counts = card_counts_size(heap_size)
    /\ g1calc # NoReport =>
           g1calc.card_table_size = card_table_from_regions(heap_size,
                                                            region_size)

LEMMA CardInvInductive == Spec => []CardInv
<1>1. Init => CardInv
  BY DEF Init, CardInv, TypeOK
<1>2. CardInv /\ [Next]_vars => CardInv'
  <2> SUFFICES ASSUME CardInv, [Next]_vars PROVE CardInv'
    OBVIOUS
  <2>1. TypeOK'
    BY TypeOKStep DEF CardInv
  <2>2. CASE RunCalcMemory
    BY <2>1, <2>2 DEF CardInv, RunCalcMemory
  <2>3. CASE RunFinalVerify
    BY <2>1, <2>3 DEF CardInv, RunFinalVerify
  <2>4. CASE RunVerifyBitmapSize
    BY <2>1, <2>4 DEF CardInv, RunVerifyBitmapSize
  <2>5. CASE RunVerifyG1Calculations
    BY <2>1, <2>5 DEF CardInv, RunVerifyG1Calculations
  <2>6. CASE UNCHANGED vars
    BY <2>1, <2>6 DEF CardInv, vars
  <2>7. QED
    BY <2>2, <2>3, <2>4, <2>5, <2>6 DEF Next
<1>3. QED
  BY <1>1, <1>2, PTL DEF Spec

\* For every heap that is a whole number of regions, calc_memory.py's card
\* table, BOT and card counts are one size, and verify_g1_calculations.py,
\* counting cards region by region, gets the same card table.
THEOREM CardTableDerivationsAgreeHolds == Spec => []CardTableDerivationsAgree
<1>1. CardInv => CardTableDerivationsAgree
  <2> SUFFICES ASSUME CardInv PROVE CardTableDerivationsAgree
    OBVIOUS
  <2>1. heap_size \in Nat /\ region_size \in RegionSizes
    BY HeapAssumption DEF CardInv, TypeOK
  <2>2. card_table_from_regions(heap_size, region_size)
          = cardtable_size(heap_size)
    BY <2>1, CardsFromRegions DEF CardInv
  <2>3. QED
    BY <2>2 DEF CardInv, CardTableDerivationsAgree, cardtable_size, bot_size,
       card_counts_size
<1>2. QED
  BY <1>1, CardInvInductive, PTL

\* final_verify.py's consistency check, and its agreement with calc_memory.py
\* and verify_bitmap_size.py, hold for every heap size.
THEOREM BitmapDerivationsAgreeHolds == Spec => []BitmapDerivationsAgree
<1>1. BitmapInv => BitmapDerivationsAgree
  <2> SUFFICES ASSUME BitmapInv PROVE BitmapDerivationsAgree
    OBVIOUS
  <2>1. heap_size \in Nat
    BY HeapAssumption DEF BitmapInv, TypeOK
  <2>2. bitmap_bytes_from_initialize(heap_size)
          = bitmap_size_bytes(heap_size)
    BY <2>1, BitmapFormulasAgree
  <2>3. QED
    BY <2>2 DEF BitmapInv, BitmapDerivationsAgree
<1>2. QED
  BY <1>1, BitmapInvInductive, PTL
=============================================================================
