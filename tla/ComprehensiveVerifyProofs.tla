----------------------- MODULE ComprehensiveVerifyProofs -----------------------
(***************************************************************************)
(* comprehensive_g1_verification.py's overall accuracy counts the eleven   *)
(* checks of the seven verifications once each, whatever the verifications *)
(* find and whatever the test programs print: a proof of                   *)
(* OverallAccuracyCountsLeaves and of the type invariant.                  *)
(***************************************************************************)
EXTENDS ComprehensiveVerify, FiniteSetTheorems, TLAPS

\* A function that maps S one-to-one onto T gives T the size of S.
LEMMA BijCard ==
  ASSUME NEW S, NEW T, IsFiniteSet(S), NEW f \in [S -> T],
         \A x, y \in S : f[x] = f[y] => x = y,
         \A t \in T : \E x \in S : f[x] = t
  PROVE  IsFiniteSet(T) /\ Cardinality(T) = Cardinality(S)
<1>1. f \in Bijection(S, T)
  BY DEF Bijection, Injection, Surjection, IsInjective
<1>2. ExistsBijection(S, T)
  BY <1>1 DEF ExistsBijection
<1>3. QED
  BY <1>2, FS_Bijection

\* The five check_* functions of verify_source_code_analysis.
LEMMA ChecksCard == IsFiniteSet(Checks) /\ Cardinality(Checks) = 5
<1> DEFINE f == [i \in 1..5 |-> <<"g1_collected_heap", "heap_region",
                                  "g1_allocator", "barrier_set",
                                  "concurrent_mark">>[i]]
<1>1. IsFiniteSet(1..5) /\ Cardinality(1..5) = 5
  <2>0. 1 \in Int /\ 5 \in Int
    OBVIOUS
  <2>1. IsFiniteSet(1..5) /\ Cardinality(1..5) = IF 1 > 5 THEN 0 ELSE 5 - 1 + 1
    BY <2>0, FS_Interval
  <2>2. QED
    BY <2>1
<1>2. f \in [1..5 -> Checks]
  BY DEF Checks
<1>3. \A x, y \in 1..5 : f[x] = f[y] => x = y
  <2> SUFFICES ASSUME NEW x \in {1, 2, 3, 4, 5}, NEW y \in {1, 2, 3, 4, 5}
               PROVE  f[x] = f[y] => x = y
    OBVIOUS
  <2> QED
    OBVIOUS
<1>4. \A t \in Checks : \E x \in 1..5 : f[x] = t
  BY DEF Checks
<1>5. QED
  BY <1>1, <1>2, <1>3, <1>4, BijCard

\* The categories after source_code_analysis, each with one flat result.
FlatCats == {Categories[i] : i \in 2..7}
SCA == "source_code_analysis"

\* The leaves of a complete verification_results: one 'accurate' per flat
\* category and one per check nested under source_code_analysis.
FlatLeaves == {<<c, "accurate">> : c \in FlatCats}
NestedLeaves == {<<SCA, k>> : k \in Checks}

\* verification_results once every verification has recorded its result.
Complete ==
    /\ vr["source_code_analysis"] \in Nested
    /\ \A i \in 2..7 : vr[Categories[i]] \in [accurate : BOOLEAN]

LEMMA LeavesOfComplete ==
  ASSUME Complete
  PROVE  LeafChecks = FlatLeaves \cup NestedLeaves
<1>1. CategorySet = FlatCats \cup {SCA}
  BY DEF CategorySet, FlatCats, SCA, Categories
<1>2. \A c \in FlatCats : vr[c] # Unset /\ IsFlat(vr[c])
  BY UnsetAssumption DEF Complete, FlatCats, IsFlat
<1>3. vr[SCA] # Unset /\ ~IsFlat(vr[SCA]) /\ DOMAIN vr[SCA] = Checks
  BY UnsetAssumption DEF Complete, SCA, IsFlat, Nested, Checks
<1>4. \A k \in Checks : IsFlat(vr[SCA][k])
  BY DEF Complete, SCA, IsFlat, Nested
<1>5. {c2 \in CategorySet : vr[c2] # Unset /\ IsFlat(vr[c2])} = FlatCats
  BY <1>1, <1>2, <1>3
<1>6. {c2 \in CategorySet : vr[c2] # Unset /\ ~IsFlat(vr[c2])} = {SCA}
  BY <1>1, <1>2, <1>3
<1>7. QED
  BY <1>3, <1>4, <1>5, <1>6 DEF LeafChecks, FlatLeaves, NestedLeaves

\* Categories names seven different keys.
LEMMA CategoriesDistinct ==
  \A i, j \in 1..7 : Categories[i] = Categories[j] => i = j
<1> SUFFICES ASSUME NEW i \in {1, 2, 3, 4, 5, 6, 7},
                    NEW j \in {1, 2, 3, 4, 5, 6, 7}
             PROVE  Categories[i] = Categories[j] => i = j
  OBVIOUS
<1> QED
  BY DEF Categories

\* The flat categories, and the checks, whose result is accurate.
AccurateCats == {i \in 2..7 : vr[Categories[i]].accurate}
AccurateChecks == {k \in Checks : vr[SCA][k].accurate}

\* Flat leaves of the categories in a set I of positions, nested leaves of
\* the checks in a set K.
FlatLeavesOf(I) == {<<Categories[i], "accurate">> : i \in I}
NestedLeavesOf(K) == {<<SCA, k>> : k \in K}

\* The flat leaves of positions I number as many as I, and the nested
\* leaves of checks K as many as K.
LEMMA LeafSetsCard ==
  ASSUME NEW I \in SUBSET (2..7), NEW K \in SUBSET Checks
  PROVE  /\ IsFiniteSet(FlatLeavesOf(I))
         /\ Cardinality(FlatLeavesOf(I)) = Cardinality(I)
         /\ IsFiniteSet(NestedLeavesOf(K))
         /\ Cardinality(NestedLeavesOf(K)) = Cardinality(K)
         /\ FlatLeavesOf(I) \cap NestedLeavesOf(K) = {}
<1>1. IsFiniteSet(2..7)
  <2>1. 2 \in Int /\ 7 \in Int
    OBVIOUS
  <2>2. QED
    BY <2>1, FS_Interval
<1>2. IsFiniteSet(I) /\ IsFiniteSet(K)
  BY <1>1, ChecksCard, FS_Subset
<1>3. IsFiniteSet(FlatLeavesOf(I)) /\ Cardinality(FlatLeavesOf(I)) = Cardinality(I)
  <2> DEFINE g == [i \in I |-> <<Categories[i], "accurate">>]
  <2>1. g \in [I -> FlatLeavesOf(I)]
    BY DEF FlatLeavesOf
  <2>2. \A x, y \in I : g[x] = g[y] => x = y
    BY CategoriesDistinct
  <2>3. \A t \in FlatLeavesOf(I) : \E x \in I : g[x] = t
    BY DEF FlatLeavesOf
  <2>4. QED
    BY <1>2, <2>1, <2>2, <2>3, BijCard
<1>4. IsFiniteSet(NestedLeavesOf(K)) /\ Cardinality(NestedLeavesOf(K)) = Cardinality(K)
  <2> DEFINE g == [k \in K |-> <<SCA, k>>]
  <2>1. g \in [K -> NestedLeavesOf(K)]
    BY DEF NestedLeavesOf
  <2>2. \A x, y \in K : g[x] = g[y] => x = y
    OBVIOUS
  <2>3. \A t \in NestedLeavesOf(K) : \E x \in K : g[x] = t
    BY DEF NestedLeavesOf
  <2>4. QED
    BY <1>2, <2>1, <2>2, <2>3, BijCard
<1>5. FlatLeavesOf(I) \cap NestedLeavesOf(K) = {}
  BY DEF FlatLeavesOf, NestedLeavesOf, Checks
<1>6. QED
  BY <1>3, <1>4, <1>5

\* Two disjoint finite sets: the union's size is the sum of theirs.
LEMMA DisjointUnionCard ==
  ASSUME NEW S, NEW T, IsFiniteSet(S), IsFiniteSet(T), S \cap T = {}
  PROVE  IsFiniteSet(S \cup T)
         /\ Cardinality(S \cup T) = Cardinality(S) + Cardinality(T)
<1>1. IsFiniteSet(S \cup T)
      /\ Cardinality(S \cup T)
           = Cardinality(S) + Cardinality(T) - Cardinality(S \cap T)
  BY FS_Union
<1>2. Cardinality(S \cap T) = 0
  BY FS_EmptySet
<1>3. Cardinality(S) \in Nat /\ Cardinality(T) \in Nat
  BY FS_CardinalityType
<1>4. QED
  BY <1>1, <1>2, <1>3

\* With every verification recorded, calculate_overall_accuracy counts
\* eleven checks, of which as many are accurate as the accurate nested
\* checks and flat categories together.
LEMMA CountsOfComplete ==
  ASSUME Complete
  PROVE  /\ CalculateOverallAccuracy.total = 11
         /\ CalculateOverallAccuracy.accurate
              = Cardinality(AccurateChecks) + Cardinality(AccurateCats)
         /\ CalculateOverallAccuracy.accurate \in 0..11
<1>1. LeafChecks = FlatLeavesOf(2..7) \cup NestedLeavesOf(Checks)
  BY LeavesOfComplete DEF FlatLeaves, NestedLeaves, FlatCats,
     FlatLeavesOf, NestedLeavesOf
<1>2. Cardinality(2..7) = 6
  <2>1. 2 \in Int /\ 7 \in Int
    OBVIOUS
  <2>2. Cardinality(2..7) = IF 2 > 7 THEN 0 ELSE 7 - 2 + 1
    BY <2>1, FS_Interval
  <2>3. QED
    BY <2>2
<1>3. IsFiniteSet(LeafChecks) /\ Cardinality(LeafChecks) = 11
  BY <1>1, <1>2, ChecksCard, LeafSetsCard, DisjointUnionCard
<1>4. {l \in LeafChecks : LeafAccurate(l)}
        = FlatLeavesOf(AccurateCats) \cup NestedLeavesOf(AccurateChecks)
  <2>1. \A i \in 2..7 : LeafAccurate(<<Categories[i], "accurate">>)
                          = vr[Categories[i]].accurate
    BY DEF LeafAccurate
  <2>2. \A k \in Checks : LeafAccurate(<<SCA, k>>) = vr[SCA][k].accurate
    BY DEF LeafAccurate, Checks, SCA
  <2>3. QED
    BY <1>1, <2>1, <2>2 DEF FlatLeavesOf, NestedLeavesOf, AccurateCats,
       AccurateChecks
<1>5. Cardinality({l \in LeafChecks : LeafAccurate(l)})
        = Cardinality(AccurateChecks) + Cardinality(AccurateCats)
  <2>1. AccurateCats \subseteq 2..7 /\ AccurateChecks \subseteq Checks
    BY DEF AccurateCats, AccurateChecks
  <2>2. /\ IsFiniteSet(FlatLeavesOf(AccurateCats))
        /\ Cardinality(FlatLeavesOf(AccurateCats)) = Cardinality(AccurateCats)
        /\ IsFiniteSet(NestedLeavesOf(AccurateChecks))
        /\ Cardinality(NestedLeavesOf(AccurateChecks))
             = Cardinality(AccurateChecks)
        /\ FlatLeavesOf(AccurateCats) \cap NestedLeavesOf(AccurateChecks) = {}
    BY <2>1, LeafSetsCard
  <2>3. Cardinality(FlatLeavesOf(AccurateCats) \cup NestedLeavesOf(AccurateChecks))
          = Cardinality(FlatLeavesOf(AccurateCats))
            + Cardinality(NestedLeavesOf(AccurateChecks))
    BY <2>2, DisjointUnionCard
  <2>4. Cardinality({l \in LeafChecks : LeafAccurate(l)})
          = Cardinality(FlatLeavesOf(AccurateCats))
            + Cardinality(NestedLeavesOf(AccurateChecks))
    BY <1>4, <2>3, Zenon
  <2>5. Cardinality(AccurateCats) \in Nat /\ Cardinality(AccurateChecks) \in Nat
    BY <2>2, FS_CardinalityType
  <2>6. QED
    BY <2>2, <2>4, <2>5
<1>6. Cardinality({l \in LeafChecks : LeafAccurate(l)}) \in 0..11
  <2>1. IsFiniteSet({l \in LeafChecks : LeafAccurate(l)})
        /\ Cardinality({l \in LeafChecks : LeafAccurate(l)}) <= 11
    BY <1>3, FS_Subset
  <2>2. QED
    BY <2>1, FS_CardinalityType
<1>7. QED
  BY <1>3, <1>5, <1>6 DEF CalculateOverallAccuracy

-----------------------------------------------------------------------------
(***************************************************************************)
(* The inductive invariant: the verifications that have run have recorded *)
(* a result of their shape under their category, the others none, and a  *)
(* report is the accuracy of the complete results.                        *)
(***************************************************************************)

\* The shape of the result the verification at position i records.
Shape(i) == IF i = 1 THEN Nested ELSE [accurate : BOOLEAN]

VrOK == vr \in [CategorySet -> [accurate : BOOLEAN] \cup Nested \cup {Unset}]

Recorded ==
    \A i \in 1..7 : IF i <= step THEN vr[Categories[i]] \in Shape(i)
                                 ELSE vr[Categories[i]] = Unset

CInv ==
    /\ phase \in {"start", "running", "javac_blocked", "exited", "crashed"}
    /\ step \in 0..7
    /\ VrOK
    /\ Recorded
    /\ regionOut \in RegionOutputs \cup {NoOutput}
    /\ gcOut \in (GcTimes \X AllocRates) \cup {NoOutput}
    /\ exitCode \in {NoExit, 0, 1}
    /\ report # NoReport =>
           /\ phase \in {"exited", "crashed"}
           /\ step = 7
           /\ report = CalculateOverallAccuracy

\* Seven recorded verifications make a complete verification_results.
LEMMA RecordedComplete ==
  ASSUME Recorded, step = 7
  PROVE  Complete
  BY DEF Recorded, Complete, Shape, Categories

\* The verification whose turn it is records a result of its shape: the
\* results stay well shaped and one more verification has recorded.
LEMMA RecordKeeps ==
  ASSUME NEW i \in 1..7, NEW r \in Shape(i), step = i - 1, VrOK, Recorded,
         Record(i, r)
  PROVE  VrOK' /\ Recorded' /\ step' \in 0..7
<1>1. vr' = [vr EXCEPT ![Categories[i]] = r] /\ step' = i
  BY DEF Record
<1>2. Categories[i] \in CategorySet
  BY DEF CategorySet
<1>3. \A j \in 1..7 : vr'[Categories[j]]
                        = IF j = i THEN r ELSE vr[Categories[j]]
  BY <1>1, <1>2, CategoriesDistinct DEF VrOK, CategorySet
<1>4. VrOK'
  BY <1>1, <1>2 DEF VrOK, Shape
<1>5. Recorded'
  BY <1>1, <1>3 DEF Recorded
<1>6. QED
  BY <1>1, <1>4, <1>5

LEMMA InitCInv == Init => CInv
  BY DEF Init, CInv, VrOK, Recorded, CategorySet

\* A flat result of a Boolean verdict has the shape of positions 2 to 7.
LEMMA FlatShape ==
  ASSUME NEW b \in BOOLEAN, NEW i \in 2..7
  PROVE  Flat(b) \in Shape(i)
<1>0. i # 1
  OBVIOUS
<1>1. Shape(i) = [accurate : BOOLEAN]
  BY <1>0, Zenon DEF Shape
<1>2. Flat(b) \in [accurate : BOOLEAN]
  BY Zenon DEF Flat
<1>3. QED
  BY <1>1, <1>2

LEMMA CInvStep == CInv /\ [Next]_vars => CInv'
<1> SUFFICES ASSUME CInv, [Next]_vars PROVE CInv'
  OBVIOUS
<1> USE DEF CInv
<1>0. Turn(1) \/ Turn(2) \/ Turn(3) \/ Turn(4) \/ Turn(5) \/ Turn(6)
        \/ Turn(7) => report = NoReport
  BY DEF Turn
<1>1. CASE StartRejected
  BY <1>1 DEF StartRejected, VrOK, Recorded
<1>2. CASE Start
  BY <1>2 DEF Start, VrOK, Recorded
<1>3. CASE VerifySourceCodeAnalysis
  <2>1. PICK ok \in [Checks -> BOOLEAN] :
          Record(1, [c \in Checks |-> Flat(ok[c])])
    BY <1>3 DEF VerifySourceCodeAnalysis
  <2>2. [c \in Checks |-> Flat(ok[c])] \in Shape(1)
    BY DEF Shape, Nested, Flat
  <2>3. VrOK' /\ Recorded' /\ step' \in 0..7
    BY <1>3, <2>1, <2>2, RecordKeeps DEF Turn, VerifySourceCodeAnalysis
  <2>4. QED
    BY <1>0, <1>3, <2>3 DEF VerifySourceCodeAnalysis
<1>4. CASE VerifyRegionSizeCalculations
  <2>1. CASE CompileHangs
    BY <1>0, <1>4, <2>1 DEF VerifyRegionSizeCalculations, CompileHangs,
       VrOK, Recorded
  <2>2. CASE ~CompileHangs
    <3>0. \E b \in BOOLEAN : Record(2, Flat(b))
      <4>1. /\ Search(RegionSizePattern, <<>>) \in BOOLEAN
            /\ \A n \in RegionOutputs :
                  RegionVerdict(RegionText(n), n) \in BOOLEAN
        BY DEF Search, RegionVerdict
      <4>2. QED
        BY <1>4, <2>2, <4>1 DEF VerifyRegionSizeCalculations, CompileHangs
    <3>1. \E r \in Shape(2) : Record(2, r)
      BY <3>0, FlatShape
    <3>2. VrOK' /\ Recorded' /\ step' \in 0..7
      BY <1>4, <3>1, RecordKeeps DEF Turn, VerifyRegionSizeCalculations
    <3>3. regionOut' \in RegionOutputs \cup {NoOutput}
      BY <1>4, <2>2, Zenon DEF VerifyRegionSizeCalculations, CompileHangs,
         CInv
    <3>4. QED
      BY <1>0, <1>4, <2>2, <3>2, <3>3 DEF VerifyRegionSizeCalculations,
         CompileHangs
  <2>3. QED
    BY <2>1, <2>2
<1>5. CASE VerifyMemoryLayoutAnalysis
  <2>1. CASE CompileHangs
    BY <1>0, <1>5, <2>1 DEF VerifyMemoryLayoutAnalysis, CompileHangs,
       VrOK, Recorded
  <2>2. CASE ~CompileHangs
    <3>1. \E r \in Shape(3) : Record(3, r)
      BY <1>5, <2>2, FlatShape DEF VerifyMemoryLayoutAnalysis, CompileHangs
    <3>2. VrOK' /\ Recorded' /\ step' \in 0..7
      BY <1>5, <3>1, RecordKeeps DEF Turn, VerifyMemoryLayoutAnalysis
    <3>3. QED
      BY <1>0, <1>5, <2>2, <3>2 DEF VerifyMemoryLayoutAnalysis, CompileHangs
  <2>3. QED
    BY <2>1, <2>2
<1>6. CASE VerifyGcPerformanceData
  <2>1. CASE CompileHangs
    BY <1>0, <1>6, <2>1 DEF VerifyGcPerformanceData, CompileHangs,
       VrOK, Recorded
  <2>2. CASE ~CompileHangs
    <3>0. \E b \in BOOLEAN : Record(4, Flat(b))
      <4>1. \A t \in GcTimes, a \in AllocRates :
              GcVerdict(GcText(t, a), t, a) \in BOOLEAN
        BY DEF GcVerdict
      <4>2. QED
        BY <1>6, <2>2, <4>1 DEF VerifyGcPerformanceData, CompileHangs
    <3>1. \E r \in Shape(4) : Record(4, r)
      BY <3>0, FlatShape
    <3>2. VrOK' /\ Recorded' /\ step' \in 0..7
      BY <1>6, <3>1, RecordKeeps DEF Turn, VerifyGcPerformanceData
    <3>3. gcOut' \in (GcTimes \X AllocRates) \cup {NoOutput}
      <4>1. gcOut' = gcOut
              \/ \E t \in GcTimes, a \in AllocRates : gcOut' = <<t, a>>
        BY <1>6, <2>2 DEF VerifyGcPerformanceData, CompileHangs
      <4>2. QED
        BY <4>1
    <3>4. QED
      BY <1>0, <1>6, <2>2, <3>2, <3>3 DEF VerifyGcPerformanceData,
         CompileHangs
  <2>3. QED
    BY <2>1, <2>2
<1>7. CASE VerifyIhopAlgorithm
  <2>1. \E r \in Shape(5) : Record(5, r)
    BY <1>7, FlatShape DEF VerifyIhopAlgorithm
  <2>2. VrOK' /\ Recorded' /\ step' \in 0..7
    BY <1>7, <2>1, RecordKeeps DEF Turn, VerifyIhopAlgorithm
  <2>3. QED
    BY <1>0, <1>7, <2>2 DEF VerifyIhopAlgorithm
<1>8. CASE VerifyYoungListManagement
  <2>1. \E r \in Shape(6) : Record(6, r)
    BY <1>8, FlatShape DEF VerifyYoungListManagement
  <2>2. VrOK' /\ Recorded' /\ step' \in 0..7
    BY <1>8, <2>1, RecordKeeps DEF Turn, VerifyYoungListManagement
  <2>3. QED
    BY <1>0, <1>8, <2>2 DEF VerifyYoungListManagement
<1>9. CASE VerifyStringDeduplication
  <2>0. \E b \in BOOLEAN : Record(7, Flat(b))
    <3>1. Record(7, Flat(FALSE)) \/ \E m \in 0..4 : Record(7, Flat(m <= 1))
      BY <1>9 DEF VerifyStringDeduplication
    <3>2. CASE Record(7, Flat(FALSE))
      BY <3>2
    <3>3. CASE \E m \in 0..4 : Record(7, Flat(m <= 1))
      <4>1. PICK m \in 0..4 : Record(7, Flat(m <= 1))
        BY <3>3
      <4>2. (m <= 1) \in BOOLEAN
        OBVIOUS
      <4>3. QED
        BY <4>1, <4>2
    <3>4. QED
      BY <3>1, <3>2, <3>3
  <2>1. \E r \in Shape(7) : Record(7, r)
    BY <2>0, FlatShape
  <2>2. VrOK' /\ Recorded' /\ step' \in 0..7
    BY <1>9, <2>1, RecordKeeps DEF Turn, VerifyStringDeduplication
  <2>3. QED
    BY <1>0, <1>9, <2>2 DEF VerifyStringDeduplication
<1>10. CASE GenerateVerificationReport
  BY <1>10 DEF GenerateVerificationReport, CalculateOverallAccuracy,
     LeafChecks, LeafAccurate, IsFlat, VrOK, Recorded
<1>11. CASE UNCHANGED vars
  BY <1>11 DEF vars, CalculateOverallAccuracy, LeafChecks, LeafAccurate,
     IsFlat, VrOK, Recorded
<1>12. QED
  BY <1>1, <1>2, <1>3, <1>4, <1>5, <1>6, <1>7, <1>8, <1>9, <1>10, <1>11
     DEF Next

LEMMA CInvHolds == Spec => []CInv
  BY InitCInv, CInvStep, PTL DEF Spec

\* Whatever the seven verifications find and the test programs print, the
\* overall accuracy calculate_overall_accuracy reports counts the eleven
\* checks, the five nested under source_code_analysis included, and as
\* many accurate as there are accurate checks.
THEOREM OverallAccuracyCountsLeavesHolds == Spec => []OverallAccuracyCountsLeaves
<1>1. CInv => OverallAccuracyCountsLeaves
  <2> SUFFICES ASSUME CInv, report # NoReport
               PROVE  /\ report.total = 11
                      /\ report.accurate =
                           Cardinality({k \in Checks :
                                 vr["source_code_analysis"][k].accurate})
                           + Cardinality({i \in 2..7 :
                                 vr[Categories[i]].accurate})
    BY DEF OverallAccuracyCountsLeaves
  <2>1. Complete /\ report = CalculateOverallAccuracy
    BY RecordedComplete DEF CInv
  <2>2. QED
    BY <2>1, CountsOfComplete DEF AccurateChecks, AccurateCats, SCA
<1>2. QED
  BY <1>1, CInvHolds, PTL

\* The script's state keeps its types in every run: each verification
\* records a result of its category's shape, and the overall accuracy is
\* a count of at most eleven checks.
THEOREM TypeCorrect == Spec => []TypeOK
<1>1. CInv => TypeOK
  <2> SUFFICES ASSUME CInv PROVE TypeOK
    OBVIOUS
  <2>1. report # NoReport => report \in [accurate : 0..11, total : 0..11]
    <3> SUFFICES ASSUME report # NoReport
                 PROVE  report \in [accurate : 0..11, total : 0..11]
      OBVIOUS
    <3>1. Complete /\ report = CalculateOverallAccuracy
      BY RecordedComplete DEF CInv
    <3>2. QED
      BY <3>1, CountsOfComplete DEF CalculateOverallAccuracy
  <2>2. QED
    BY <2>1 DEF CInv, VrOK, TypeOK
<1>2. QED
  BY <1>1, CInvHolds, PTL

\* A verification whose turn it is writes the one category still missing.
LEMMA RecordWritesUnset ==
  ASSUME CInv, NEW i \in 1..7, NEW r, step = i - 1, Record(i, r)
  PROVE  \A c \in CategorySet : vr[c] # Unset => vr'[c] = vr[c]
<1>1. vr[Categories[i]] = Unset
  BY DEF CInv, Recorded
<1>2. vr' = [vr EXCEPT ![Categories[i]] = r]
  BY DEF Record
<1>3. QED
  BY <1>1, <1>2 DEF CInv, VrOK

\* Every step either leaves verification_results alone or is the turn of
\* the verification at the position after the recorded ones.
LEMMA StepWritesUnset ==
  ASSUME CInv, [Next]_vars
  PROVE  \A c \in CategorySet : vr[c] # Unset => vr'[c] = vr[c]
<1>1. CASE vr' = vr
  BY <1>1
<1>2. CASE \E i \in 1..7 : \E r : step = i - 1 /\ Record(i, r)
  BY <1>2, RecordWritesUnset
<1>3. vr' = vr \/ \E i \in 1..7 : \E r : step = i - 1 /\ Record(i, r)
  <2> DEFINE W(i) == step = i - 1 /\ \E r : Record(i, r)
  <2>1. CASE VerifySourceCodeAnalysis
    <3>1. W(1)
      BY <2>1 DEF VerifySourceCodeAnalysis, Turn
    <3>2. QED
      BY <3>1
  <2>2. CASE VerifyRegionSizeCalculations
    <3>1. W(2) \/ vr' = vr
      BY <2>2 DEF VerifyRegionSizeCalculations, Turn, CompileHangs
    <3>2. QED
      BY <3>1
  <2>3. CASE VerifyMemoryLayoutAnalysis
    <3>1. W(3) \/ vr' = vr
      BY <2>3 DEF VerifyMemoryLayoutAnalysis, Turn, CompileHangs
    <3>2. QED
      BY <3>1
  <2>4. CASE VerifyGcPerformanceData
    <3>1. W(4) \/ vr' = vr
      BY <2>4 DEF VerifyGcPerformanceData, Turn, CompileHangs
    <3>2. QED
      BY <3>1
  <2>5. CASE VerifyIhopAlgorithm
    <3>1. W(5)
      BY <2>5 DEF VerifyIhopAlgorithm, Turn
    <3>2. QED
      BY <3>1
  <2>6. CASE VerifyYoungListManagement
    <3>1. W(6)
      BY <2>6 DEF VerifyYoungListManagement, Turn
    <3>2. QED
      BY <3>1
  <2>7. CASE VerifyStringDeduplication
    <3>1. W(7)
      BY <2>7 DEF VerifyStringDeduplication, Turn
    <3>2. QED
      BY <3>1
  <2>8. CASE StartRejected \/ Start \/ GenerateVerificationReport
                \/ UNCHANGED vars
    BY <2>8 DEF StartRejected, Start, GenerateVerificationReport, vars
  <2>9. QED
    BY <2>1, <2>2, <2>3, <2>4, <2>5, <2>6, <2>7, <2>8 DEF Next
<1>4. QED
  BY <1>1, <1>2, <1>3

\* No verification of run_verification replaces a result an earlier one
\* recorded in verification_results.
THEOREM ResultsNeverReplacedHolds == Spec => ResultsNeverReplaced
<1>1. CInv /\ [Next]_vars
        => [\A c \in CategorySet : vr[c] # Unset => vr'[c] = vr[c]]_vars
  BY StepWritesUnset
<1>2. QED
  BY <1>1, CInvHolds, PTL DEF Spec, ResultsNeverReplaced
=============================================================================
