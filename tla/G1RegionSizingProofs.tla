------------------------- MODULE G1RegionSizingProofs -------------------------
(***************************************************************************)
(* The region-size loop implements its one-step promise for every maximum *)
(* heap: a proof of the refinement G1RegionSizingRefinement states.       *)
(***************************************************************************)
EXTENDS G1RegionSizingRefinement, TLAPS

Sizes == {1, 2, 4, 8, 16, 32}

\* The loop's powers of two, written out.
LEMMA PowersExplicit == {2 ^ k : k \in 0..5} = Sizes
<1>1. \A k \in 0..5 : 2 ^ k \in Sizes
  <2> SUFFICES ASSUME NEW k \in 0..5 PROVE 2 ^ k \in Sizes
    OBVIOUS
  <2>1. CASE k = 0
    BY <2>1 DEF Sizes
  <2>2. CASE k = 1
    BY <2>2 DEF Sizes
  <2>3. CASE k = 2
    BY <2>3 DEF Sizes
  <2>4. CASE k = 3
    BY <2>4 DEF Sizes
  <2>5. CASE k = 4
    BY <2>5 DEF Sizes
  <2>6. CASE k = 5
    BY <2>6 DEF Sizes
  <2>7. QED
    BY <2>1, <2>2, <2>3, <2>4, <2>5, <2>6
<1>2. \A r \in Sizes : \E k \in 0..5 : 2 ^ k = r
  <2> SUFFICES ASSUME NEW r \in Sizes PROVE \E k \in 0..5 : 2 ^ k = r
    OBVIOUS
  <2>1. CASE r = 1
    BY <2>1, 2 ^ 0 = 1
  <2>2. CASE r = 2
    BY <2>2, 2 ^ 1 = 2
  <2>3. CASE r = 4
    BY <2>3, 2 ^ 2 = 4
  <2>4. CASE r = 8
    BY <2>4, 2 ^ 3 = 8
  <2>5. CASE r = 16
    BY <2>5, 2 ^ 4 = 16
  <2>6. CASE r = 32
    BY <2>6, 2 ^ 5 = 32
  <2>7. QED
    BY <2>1, <2>2, <2>3, <2>4, <2>5, <2>6 DEF Sizes
<1>3. QED
  BY <1>1, <1>2

\* The reference region size of the properties is the abstract choice.
LEMMA ReferenceIsChoice ==
  ASSUME NEW m
  PROVE  RefRegionSize(m) = Abstract!ChosenRegion(m)
BY PowersExplicit DEF RefRegionSize, Candidates, target_regions, max_region,
   Abstract!ChosenRegion, Abstract!Candidates, Abstract!Fits, Sizes

\* When the loop leaves with region rs, every smaller size having left
\* more than 2048 regions, rs is the size the abstract choice picks.
LEMMA ExitChoosesRegion ==
  ASSUME NEW m \in Nat, NEW rs \in Sizes,
         \A r \in Sizes : r < rs => m \div r > 2048,
         ~(rs < 32 /\ m \div rs > 2048)
  PROVE  Abstract!ChosenRegion(m) = rs
<1> DEFINE fit == {r \in Sizes : m \div r <= 2048}
<1>1. Abstract!ChosenRegion(m) =
        IF fit = {} THEN 32 ELSE CHOOSE r \in fit : \A s \in fit : r <= s
  BY DEF Abstract!ChosenRegion, Abstract!Fits, Abstract!Candidates, Sizes
<1>2. \A s \in fit : rs <= s
  BY DEF Sizes, fit
<1>3. CASE rs < 32
  <2>0. m \div rs <= 2048
    BY <1>3 DEF Sizes
  <2>1. rs \in fit
    BY <2>0 DEF fit
  <2>2. (CHOOSE r \in fit : \A s \in fit : r <= s) = rs
    BY <1>2, <2>1 DEF Sizes
  <2>3. QED
    BY <1>1, <2>1, <2>2
<1>4. CASE rs = 32
  <2>1. fit \subseteq {32}
    BY <1>2, <1>4 DEF Sizes, fit
  <2>2. CASE fit = {}
    BY <1>1, <1>4, <2>2
  <2>3. CASE fit # {}
    <3>1. fit = {32}
      BY <2>1, <2>3
    <3>2. (CHOOSE r \in fit : \A s \in fit : r <= s) = 32
      BY <3>1
    <3>3. QED
      BY <1>1, <1>4, <2>3, <3>2
  <2>4. QED
    BY <2>2, <2>3
<1>5. QED
  BY <1>3, <1>4 DEF Sizes

-----------------------------------------------------------------------------
\* Every size below regionSize has left more than 2048 regions, and once
\* printed, the output is the abstract choice.
LInv ==
    /\ maxMemory \in MaxMemories
    /\ maxMemory \in Nat
    /\ regionSize \in Sizes
    /\ pc \in {"loop", "done"}
    /\ \A r \in Sizes : r < regionSize => maxMemory \div r > 2048
    /\ out \in [region_mb : Nat, estimated : Nat]
    /\ pc = "loop" => out = NoOutput
    /\ pc = "done" =>
           out = [region_mb |-> Abstract!ChosenRegion(maxMemory),
                  estimated |-> maxMemory \div
                                  Abstract!ChosenRegion(maxMemory)]

LEMMA InitLInv == Init => LInv
  BY MaxMemoriesAssumption DEF Init, LInv, start_region, Sizes, NoOutput

LEMMA LInvStep == LInv /\ [Next]_vars => LInv'
<1> SUFFICES ASSUME LInv, [Next]_vars PROVE LInv'
  OBVIOUS
<1>1. CASE Double
  <2>1. regionSize < 32 /\ maxMemory \div regionSize > 2048
        /\ regionSize' = 2 * regionSize /\ pc = "loop" /\ pc' = "loop"
        /\ UNCHANGED <<maxMemory, out>>
    BY <1>1 DEF Double, LoopCondition, max_region, target_regions,
       LInv, Sizes
  <2>2. regionSize' \in Sizes
    BY <2>1 DEF LInv, Sizes
  <2>3. \A r \in Sizes : r < regionSize' => maxMemory \div r > 2048
    BY <2>1 DEF LInv, Sizes
  <2>4. QED
    BY <2>1, <2>2, <2>3 DEF LInv
<1>2. CASE PrintResult
  <2>1. ~(regionSize < 32 /\ maxMemory \div regionSize > 2048)
        /\ pc = "loop" /\ pc' = "done"
        /\ out' = [region_mb |-> regionSize,
                   estimated |-> maxMemory \div regionSize]
        /\ UNCHANGED <<maxMemory, regionSize>>
    BY <1>2 DEF PrintResult, LoopCondition, max_region, target_regions
  <2>2. Abstract!ChosenRegion(maxMemory) = regionSize
    BY <2>1, ExitChoosesRegion DEF LInv
  <2>3. out' \in [region_mb : Nat, estimated : Nat]
    BY <2>1 DEF LInv, Sizes
  <2>4. QED
    BY <2>1, <2>2, <2>3 DEF LInv
<1>3. CASE UNCHANGED vars
  BY <1>3 DEF vars, LInv
<1>4. QED
  BY <1>1, <1>2, <1>3 DEF Next

LEMMA LInvHolds == Spec => []LInv
  BY InitLInv, LInvStep, PTL DEF Spec

\* For every maximum heap, the loop's state keeps its types: the heap is
\* one Runtime.maxMemory() can return, the region a power of two of
\* 1..32 MiB and the printed figures natural numbers.
THEOREM TypeCorrect == Spec => []TypeOK
<1>1. LInv => TypeOK
  BY PowersExplicit DEF LInv, TypeOK
<1>2. QED
  BY <1>1, LInvHolds, PTL

\* For every maximum heap, the region size RegionSizeTest prints is the
\* smallest power of two of 1..32 MiB leaving at most 2048 regions, or
\* 32 MiB: the loop neither stops early at the 2048 boundary nor doubles
\* once too often.
THEOREM RegionSizeIsReferenceHolds == Spec => []RegionSizeIsReference
<1>1. LInv => RegionSizeIsReference
  BY ReferenceIsChoice DEF LInv, RegionSizeIsReference
<1>2. QED
  BY <1>1, LInvHolds, PTL

\* For every maximum heap, the loop of RegionSizeTest prints what the
\* one-step choice of G1RegionSizeChoice prints: the detailed spec
\* implements the abstract one.
THEOREM RegionSizingRefinement == Spec => ImplementsRegionSizeChoice
<1>1. Init => Abstract!Init
  BY DEF Init, Abstract!Init
<1>2. LInv /\ [Next]_vars => [Abstract!Choose]_Abstract!vars
  <2> SUFFICES ASSUME LInv, [Next]_vars
               PROVE  [Abstract!Choose]_Abstract!vars
    OBVIOUS
  <2>1. CASE Double
    BY <2>1 DEF Double, Abstract!vars
  <2>2. CASE PrintResult
    <3>1. ~(regionSize < 32 /\ maxMemory \div regionSize > 2048)
          /\ pc = "loop" /\ pc' = "done"
          /\ out' = [region_mb |-> regionSize,
                     estimated |-> maxMemory \div regionSize]
          /\ UNCHANGED maxMemory
      BY <2>2 DEF PrintResult, LoopCondition, max_region, target_regions
    <3>2. Abstract!ChosenRegion(maxMemory) = regionSize
      BY <3>1, ExitChoosesRegion DEF LInv
    <3>3. QED
      BY <3>1, <3>2 DEF Abstract!Choose, LInv
  <2>3. CASE UNCHANGED vars
    BY <2>3 DEF vars, Abstract!vars
  <2>4. QED
    BY <2>1, <2>2, <2>3 DEF Next
<1>3. QED
  BY <1>1, <1>2, LInvHolds, PTL
     DEF Spec, ImplementsRegionSizeChoice, Abstract!Spec
=============================================================================
