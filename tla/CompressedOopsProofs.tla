------------------------- MODULE CompressedOopsProofs -------------------------
(***************************************************************************)
(* Proofs about CompressedOops for every configuration ConstAssumption     *)
(* allows, and the script's own capacity figures, which TLC's 32-bit       *)
(* integers cannot hold.                                                   *)
(***************************************************************************)
EXTENDS CompressedOops, TLAPS

\* 2 ^ shift is the granule of an allowed shift.
LEMMA GranuleValues ==
  ASSUME NEW s \in 0..3
  PROVE  2 ^ s \in {1, 2, 4, 8}
<1>1. CASE s = 0
  BY <1>1
<1>2. CASE s = 1
  BY <1>2
<1>3. CASE s = 2
  BY <1>3
<1>4. CASE s = 3
  BY <1>4
<1>5. QED
  BY <1>1, <1>2, <1>3, <1>4

\* An offset on an 8-byte boundary is a whole number of granules, so
\* shifting it right and back left gives it back.
LEMMA ShiftRoundTrip ==
  ASSUME NEW o \in Nat, o % 8 = 0, NEW p \in {1, 2, 4, 8}
  PROVE  (o \div p) * p = o /\ o \div p \in Nat
<1>1. CASE p = 1
  BY <1>1
<1>2. CASE p = 2
  BY <1>2
<1>3. CASE p = 4
  BY <1>3
<1>4. CASE p = 8
  BY <1>4
<1>5. QED
  BY <1>1, <1>2, <1>3, <1>4

\* Every test offset is a natural number on an 8-byte boundary.
LEMMA OffsetsAligned ==
  ASSUME NEW h \in HeapSizes, NEW k \in 1..5
  PROVE  LET o == <<0, 8, MB, 4 * GB, h - 8>>[k]
         IN  o \in Nat /\ o % 8 = 0
  BY ConstAssumption

-----------------------------------------------------------------------------
\* The printed lines are the loop's first idx - 1 iterations, each a round
\* trip; with TypeOK this is inductive.
IInv ==
    /\ TypeOK
    /\ Len(lines) = idx - 1
    /\ RoundTrip

LEMMA InitIInv == Init => IInv
  BY DEF Init, IInv, TypeOK, RoundTrip

LEMMA IInvStep == IInv /\ [Next]_vars => IInv'
<1> SUFFICES ASSUME IInv, [Next]_vars PROVE IInv'
  OBVIOUS
<1>1. CASE PrintMapping
  <2> DEFINE o == TestOffsets[idx]
             p == 2 ^ shift
             addr == heap_base + o
             ln == [addr |-> addr, compressed |-> compress(addr),
                    decompressed |-> decompress(compress(addr))]
  <2>1. idx \in 1..5 /\ heap_base \in Nat /\ shift \in 0..3
        /\ heap_size \in HeapSizes
    BY <1>1, ConstAssumption DEF PrintMapping, IInv, TypeOK
  <2>2. o \in Nat /\ o % 8 = 0
    BY <2>1, OffsetsAligned DEF TestOffsets
  <2>3. p \in {1, 2, 4, 8}
    BY <2>1, GranuleValues
  <2>4. (o \div p) * p = o /\ o \div p \in Nat
    BY <2>2, <2>3, ShiftRoundTrip
  <2>5. compress(addr) = o \div p /\ decompress(compress(addr)) = addr
    BY <2>1, <2>2, <2>4 DEF compress, decompress
  <2>6. ln \in Line /\ ln.decompressed = ln.addr
    BY <2>1, <2>2, <2>4, <2>5 DEF Line
  <2>7. lines' = Append(lines, ln)
    BY <1>1 DEF PrintMapping
  <2>8. TypeOK'
    BY <1>1, <2>1, <2>6, <2>7 DEF IInv, TypeOK, PrintMapping
  <2>9. Len(lines') = idx' - 1
    BY <1>1, <2>7 DEF IInv, TypeOK, PrintMapping
  <2>10. RoundTrip'
    BY <2>6, <2>7 DEF IInv, TypeOK, RoundTrip
  <2>11. QED
    BY <2>8, <2>9, <2>10 DEF IInv
<1>2. CASE PrintCapacity
  <2>1. shift \in 0..3 /\ heap_base \in Nat
    BY ConstAssumption DEF IInv, TypeOK
  <2>2. 2 ^ shift \in {1, 2, 4, 8}
    BY <2>1, GranuleValues
  <2>3. decompress(max_compressed) \in Nat /\ max_heap_size \in Nat
    BY <2>1, <2>2, ConstAssumption DEF decompress, max_heap_size
  <2>4. QED
    BY <1>2, <2>3 DEF PrintCapacity, IInv, TypeOK, RoundTrip
<1>3. CASE UNCHANGED vars
  BY <1>3 DEF vars, IInv, TypeOK, RoundTrip
<1>4. QED
  BY <1>1, <1>2, <1>3 DEF Next

\* For every heap base, heap size and allowed shift, each address the
\* script's loop compresses decompresses to itself.
THEOREM RoundTripHolds == Spec => []RoundTrip
<1>1. IInv => RoundTrip
  BY DEF IInv
<1>2. QED
  BY <1>1, InitIInv, IInvStep, PTL DEF Spec

\* For every configuration, the loop position, the printed lines and the
\* capacity keep their types.
THEOREM TypeCorrect == Spec => []TypeOK
<1>1. IInv => TypeOK
  BY DEF IInv
<1>2. QED
  BY <1>1, InitIInv, IInvStep, PTL DEF Spec

\* The script's own figures: its last test address, heap_base + 8 GB - 8,
\* compresses into 32 bits, and with shift 3 the printed maximum heap size
\* (0xFFFFFFFF << 3) // 1024**3 is 31 while the 2^32 narrow oops span
\* 32 GB.
THEOREM ScriptCapacity ==
    /\ (8 * 1024 * 1024 * 1024 - 8) \div 2 ^ 3 <= 4294967295
    /\ (4294967295 * 2 ^ 3) \div (1024 * 1024 * 1024) = 31
    /\ ((4294967295 + 1) * 2 ^ 3) \div (1024 * 1024 * 1024) = 32
  OBVIOUS
=============================================================================
