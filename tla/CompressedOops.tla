---------------------------- MODULE CompressedOops ----------------------------
(***************************************************************************)
(* verify_compressed_oops.py: the heap-based compressed-pointer mapping    *)
(* of an 8 GiB heap at 0x600000000 with shift 3.  The script compresses    *)
(* and decompresses five test addresses, printing one line each, then      *)
(* prints the 32-bit addressing capacity.  The configuration is chosen    *)
(* from sets of CONSTANTS so that TLC can run scaled instances (its        *)
(* integers are 32-bit); CompressedOopsProofs proves the properties for    *)
(* every configuration the assumptions allow, the script's own included.   *)
(***************************************************************************)
EXTENDS Naturals, Sequences

CONSTANTS
    HeapBases,      \* values of heap_base (the script: 0x0000000600000000)
    HeapSizes,      \* values of heap_size (the script: 8 * 1024**3)
    Shifts,         \* values of shift (the script: 3)
    max_compressed, \* 0xFFFFFFFF
    MB,             \* 1024*1024, the offset of the third test address
    GB,             \* 1024*1024*1024
    NoCapacity      \* model value: the capacity lines are not printed yet

\* A shift is an object-alignment logarithm (HotSpot allows 8 to 256 byte
\* alignment, the script's test offsets are multiples of 8); the heap
\* holds every test address on an 8-byte boundary.
ASSUME ConstAssumption ==
    /\ HeapBases \subseteq Nat
    /\ Shifts \subseteq 0..3
    /\ max_compressed \in Nat
    /\ MB \in Nat /\ MB % 8 = 0
    /\ GB \in Nat \ {0} /\ GB % 8 = 0
    /\ \A h \in HeapSizes : h \in Nat /\ h % 8 = 0 /\ 4 * GB < h

VARIABLES
    heap_base,  \* heap_base
    heap_size,  \* heap_size
    shift,      \* shift
    idx,        \* the for loop's position in test_addresses
    lines,      \* the printed mapping lines, in order
    capacity    \* the printed capacity figures

vars == <<heap_base, heap_size, shift, idx, lines, capacity>>

\* test_addresses, as offsets from heap_base.
TestOffsets == <<0, 8, MB, 4 * GB, heap_size - 8>>

\* Mutant: decompression without adding the heap base back.
decompress_unbased(c) == c * (2 ^ shift)

\* Mutant: offsets counted from the first object, heap_base + 8.
compress_from_first_object(addr) == (addr - heap_base - 8) \div (2 ^ shift)

\* (addr - heap_base) >> shift and heap_base + (compressed << shift).
compress(addr) == (addr - heap_base) \div (2 ^ shift)
decompress(c) == heap_base + c * (2 ^ shift)

Line == [addr : Nat, compressed : Nat, decompressed : Nat]

TypeOK ==
    /\ heap_base \in HeapBases
    /\ heap_size \in HeapSizes
    /\ shift \in Shifts
    /\ idx \in 1..6
    /\ lines \in Seq(Line)
    /\ capacity \in [max_addressable : Nat, max_heap_size : Nat]
                      \cup {NoCapacity}

Init ==
    /\ heap_base \in HeapBases
    /\ heap_size \in HeapSizes
    /\ shift \in Shifts
    /\ idx = 1
    /\ lines = << >>
    /\ capacity = NoCapacity

\* One iteration of the for loop over test_addresses: compress, decompress
\* and print.
PrintMapping ==
    /\ idx <= 5
    /\ LET addr == heap_base + TestOffsets[idx]
           c    == compress(addr)
       IN  lines' = Append(lines, [addr |-> addr, compressed |-> c,
                                   decompressed |-> decompress(c)])
    /\ idx' = idx + 1
    /\ UNCHANGED <<heap_base, heap_size, shift, capacity>>

\* max_addressable = heap_base + (max_compressed << shift) and
\* max_heap_size = (max_compressed << shift) // GB, printed after the loop.
max_heap_size == (max_compressed * 2 ^ shift) \div GB
PrintCapacity ==
    /\ idx = 6
    /\ capacity = NoCapacity
    /\ capacity' = [max_addressable |-> decompress(max_compressed),
                    max_heap_size   |-> max_heap_size]
    /\ UNCHANGED <<heap_base, heap_size, shift, idx, lines>>

Next == PrintMapping \/ PrintCapacity

Spec == Init /\ [][Next]_vars

-----------------------------------------------------------------------------
(***************************************************************************)
(* Properties                                                              *)
(***************************************************************************)

\* Every address the script maps comes back from decompression unchanged:
\* the mapping lines show addr -> compressed -> addr.
RoundTrip ==
    \A k \in 1..Len(lines) : lines[k].decompressed = lines[k].addr
=============================================================================
