--------------------------- MODULE G1AnalyzerProofs ---------------------------
(***************************************************************************)
(* The allocation breakdown of g1_8gb_performance_analyzer.py accounts for *)
(* every parsed allocation, for every trace: a proof of                    *)
(* GroupsAccountForAllocations for all sizes, durations and trace lengths. *)
(***************************************************************************)
EXTENDS G1Analyzer, WellFoundedInduction, TLAPS

\* A group's count and duration in a dictionary F of groups, 0 when the
\* label has none.
GCount(F, l) == IF l \in DOMAIN F THEN F[l].count ELSE 0
GDur(F, l) == IF l \in DOMAIN F THEN F[l].dur ELSE 0

\* The groups are records of naturals under the seven labels.
GroupsOK(F) == DOMAIN F \subseteq Labels /\ \A x \in DOMAIN F : F[x] \in Group

\* _classify_8gb_allocation always returns one of the seven labels.
LEMMA ClassifyInLabels == \A k : Classify(k) \in Labels
  BY DEF Classify, Labels

\* Each trace strace can yield is a sequence of allocations.
LEMMA TracesAreSeqs == Traces \subseteq Seq(Alloc)
  BY DEF Traces

\* One iteration of the loop on a dictionary F: the group of label t,
\* created empty if missing, counts one more allocation of d microseconds;
\* every other group is untouched.
Bumped(F, t, d) ==
    LET g == IF t \in DOMAIN F THEN F
             ELSE [x \in DOMAIN F \cup {t} |->
                     IF x = t THEN [count |-> 0, dur |-> 0] ELSE F[x]]
    IN  [g EXCEPT ![t] = [count |-> @.count + 1, dur |-> @.dur + d]]

LEMMA AddToGroup ==
  ASSUME NEW F, GroupsOK(F), NEW t \in Labels, NEW d \in Nat
  PROVE  /\ GroupsOK(Bumped(F, t, d))
         /\ \A l \in Labels :
               /\ GCount(Bumped(F, t, d), l)
                    = GCount(F, l) + (IF l = t THEN 1 ELSE 0)
               /\ GDur(Bumped(F, t, d), l)
                    = GDur(F, l) + (IF l = t THEN d ELSE 0)
  BY DEF GroupsOK, Group, GCount, GDur, Bumped

\* The allocation loop's bookkeeping: every allocation parsed so far is in
\* exactly one group, every duration in total_duration, and a report, once
\* made, shows the figures of the final groups.
AInv ==
    /\ GroupsOK(groups)
    /\ total_duration \in Nat
    /\ pos \in Nat \ {0}
    /\ phase = "analyzing" => trace \in Seq(Alloc)
    /\ SumOverLabels(CountOf) = pos - 1
    /\ SumOverLabels(DurOf) = total_duration
    /\ report # NoReport =>
           /\ phase = "exited"
           /\ report.heap = DurOf("heap_reserve")
           /\ report.g1 = DurOf("card_table_or_bot") + DurOf("mark_bitmap")
           /\ report.total = total_duration

LEMMA InitAInv == Init => AInv
  BY DEF Init, AInv, GroupsOK, SumOverLabels, CountOf, DurOf

LEMMA AInvStep == AInv /\ [Next]_vars => AInv'
<1> SUFFICES ASSUME AInv, [Next]_vars PROVE AInv'
  OBVIOUS
<1>0. report # NoReport => phase = "exited"
  BY DEF AInv
<1>1. CASE Usage
  BY <1>1, <1>0 DEF Usage, Exit, AInv, SumOverLabels, CountOf, DurOf
<1>2. CASE Start
  BY <1>2, <1>0 DEF Start, AInv, SumOverLabels, CountOf, DurOf
<1>3. CASE Compile
  BY <1>3, <1>0 DEF Compile, Exit, AInv, SumOverLabels, CountOf, DurOf
<1>4. CASE RunWithStrace
  <2>1. trace' \in Traces \cup {NoOutput}
        /\ (trace' # NoOutput => phase' = "analyzing")
        /\ (trace' = NoOutput => phase' = "exited")
        /\ UNCHANGED <<groups, pos, total_duration, report>>
    BY <1>4 DEF RunWithStrace, Exit
  <2>2. phase' = "analyzing" => trace' \in Seq(Alloc)
    BY <2>1, TracesAreSeqs
  <2>3. QED
    BY <2>1, <2>2, <1>0, <1>4 DEF RunWithStrace, AInv, SumOverLabels,
       CountOf, DurOf
<1>5. CASE AccumulateAllocation
  <2> DEFINE a == trace[pos]
             t == Classify(a.size)
  <2>1. trace \in Seq(Alloc) /\ pos \in 1..Len(trace)
    BY <1>5 DEF AccumulateAllocation, AInv
  <2>2. a \in Alloc /\ a.dur \in Nat
    <3>1. a \in Alloc
      BY <2>1
    <3>2. QED
      BY <3>1, ConstAssumption DEF Alloc
  <2>3. t \in Labels
    BY ClassifyInLabels
  <2>4. groups' = Bumped(groups, t, a.dur)
        /\ total_duration' = total_duration + a.dur
        /\ pos' = pos + 1
        /\ UNCHANGED <<phase, trace, report>>
    BY <1>5 DEF AccumulateAllocation, WithNewGroup, Bumped
  <2>5. /\ GroupsOK(groups')
        /\ \A l \in Labels :
              /\ GCount(groups', l) = GCount(groups, l) + (IF l = t THEN 1 ELSE 0)
              /\ GDur(groups', l) = GDur(groups, l) + (IF l = t THEN a.dur ELSE 0)
    <3>1. GroupsOK(groups)
      BY DEF AInv
    <3>2. /\ GroupsOK(Bumped(groups, t, a.dur))
          /\ \A l \in Labels :
                /\ GCount(Bumped(groups, t, a.dur), l)
                     = GCount(groups, l) + (IF l = t THEN 1 ELSE 0)
                /\ GDur(Bumped(groups, t, a.dur), l)
                     = GDur(groups, l) + (IF l = t THEN a.dur ELSE 0)
      BY <2>2, <2>3, <3>1, AddToGroup
    <3>3. QED
      BY <2>4, <3>2
  <2>6. \A l \in Labels : GCount(groups, l) \in Nat /\ GDur(groups, l) \in Nat
    BY DEF AInv, GroupsOK, Group, GCount, GDur
  <2>7. SumOverLabels(CountOf)' = SumOverLabels(CountOf) + 1
    <3>1. \A l \in Labels : CountOf(l)' = CountOf(l) + (IF l = t THEN 1 ELSE 0)
      BY <2>5 DEF CountOf, GCount
    <3>2. \A l \in Labels : CountOf(l) \in Nat
      BY <2>6 DEF CountOf, GCount
    <3>3. QED
      BY <3>1, <3>2, <2>3 DEF SumOverLabels, Labels
  <2>8. SumOverLabels(DurOf)' = SumOverLabels(DurOf) + a.dur
    <3>1. \A l \in Labels : DurOf(l)' = DurOf(l) + (IF l = t THEN a.dur ELSE 0)
      BY <2>5 DEF DurOf, GDur
    <3>2. \A l \in Labels : DurOf(l) \in Nat
      BY <2>6 DEF DurOf, GDur
    <3>3. QED
      BY <3>1, <3>2, <2>2, <2>3 DEF SumOverLabels, Labels
  <2>9. report = NoReport
    BY <1>5, <1>0 DEF AccumulateAllocation
  <2>10. QED
    BY <2>2, <2>4, <2>5, <2>7, <2>8, <2>9 DEF AInv
<1>6. CASE GenerateInsights
  <2>0. report = NoReport
    BY <1>6, <1>0 DEF GenerateInsights
  <2>1. UNCHANGED <<trace, pos, groups, total_duration>> /\ phase' = "exited"
    BY <1>6 DEF GenerateInsights, Exit
  <2>2. report' = NoReport \/
        report' = [slowest |-> Slowest,
                   heap    |-> DurOf("heap_reserve"),
                   g1      |-> DurOf("card_table_or_bot") + DurOf("mark_bitmap"),
                   total   |-> total_duration]
    BY <1>6, <2>0 DEF GenerateInsights
  <2>3. QED
    BY <2>0, <2>1, <2>2 DEF AInv, SumOverLabels, CountOf, DurOf
<1>7. CASE UNCHANGED vars
  BY <1>7 DEF vars, AInv, GroupsOK, SumOverLabels, CountOf, DurOf
<1>8. QED
  BY <1>1, <1>2, <1>3, <1>4, <1>5, <1>6, <1>7 DEF Next

LEMMA AInvHolds == Spec => []AInv
  BY InitAInv, AInvStep, PTL DEF Spec

\* For every trace strace can yield, of any length, with any sizes and
\* durations: the group counts add up to the allocations parsed, the group
\* durations to total_duration, and the heap and G1 shares of the insights
\* are at most the whole.
THEOREM GroupsAccountForAllocationsHolds == Spec => []GroupsAccountForAllocations
<1>1. AInv => GroupsAccountForAllocations
  <2> SUFFICES ASSUME AInv PROVE GroupsAccountForAllocations
    OBVIOUS
  <2>1. \A l \in Labels : DurOf(l) \in Nat
    BY DEF AInv, GroupsOK, Group, DurOf
  <2>2. report # NoReport => report.heap + report.g1 <= report.total
    BY <2>1 DEF AInv, SumOverLabels, Labels
  <2>3. QED
    BY <2>2 DEF AInv, GroupsAccountForAllocations
<1>2. QED
  BY <1>1, AInvHolds, PTL

-----------------------------------------------------------------------------
(***************************************************************************)
(* Type correctness.  The one hard part is Slowest: max() over the groups  *)
(* must pick a label, which needs a largest duration among the labels in  *)
(* order and, among the positions that have it, a first one.               *)
(***************************************************************************)

\* Every non-empty set of naturals has a least element.
LEMMA NatHasLeast ==
  ASSUME NEW T \in SUBSET Nat, T # {}
  PROVE  \E x \in T : \A y \in T : x <= y
<1> DEFINE Less == {ss \in Nat \X Nat : ss[1] < ss[2]}
<1>1. IsWellFoundedOn(Less, Nat)
  <2>1. OpToRel(<, Nat) = Less
    BY Zenon DEF OpToRel
  <2>2. QED
    BY <2>1, NatLessThanWellFounded
<1>2. \E x \in T : \A y \in T : ~(<<y, x>> \in Less)
  BY <1>1, WFMin
<1>3. PICK x \in T : \A y \in T : ~(<<y, x>> \in Less)
  BY <1>2
<1>4. \A y \in T : x <= y
  <2> TAKE y \in T
  <2>1. x \in Nat /\ y \in Nat
    OBVIOUS
  <2>2. ~(y < x)
    <3>1. <<y, x>> \in Nat \X Nat /\ <<y, x>>[1] = y /\ <<y, x>>[2] = x
      BY <2>1
    <3>2. QED
      BY <3>1, <1>3 DEF Less
  <2>3. QED
    BY <2>1, <2>2
<1>5. QED
  BY <1>4

\* A trace is a sequence of at most MaxAllocs allocations.
LEMMA TraceBound ==
  ASSUME NEW tr \in Traces
  PROVE  tr \in Seq(Alloc) /\ Len(tr) <= MaxAllocs
<1>1. PICK n \in 0..MaxAllocs : tr \in [1..n -> Alloc]
  BY DEF Traces
<1>2. tr \in Seq(Alloc)
  BY <1>1, ConstAssumption
<1>3. Len(tr) = n
  BY <1>1, <1>2, ConstAssumption
<1>4. QED
  BY <1>1, <1>2, <1>3, ConstAssumption

\* With order listing the labels of the groups, of naturals, and at least
\* one group, max() finds a label: some position has a duration no other
\* position exceeds (the least upper bound of the durations is one of
\* them), and of those positions a first one.
LEMMA SlowestIsLabel ==
  ASSUME NEW B \in Nat,
         order \in Seq(Labels),
         {order[i] : i \in 1..Len(order)} = DOMAIN groups,
         DOMAIN groups # {},
         \A x \in DOMAIN groups : groups[x] \in Group /\ groups[x].dur <= B
  PROVE  Slowest \in Labels
<1> DEFINE n == Len(order)
           D(k) == groups[order[k]].dur
           best == {k \in 1..n : \A j \in 1..n : D(j) <= D(k)}
<1>1. n \in Nat \ {0}
  OBVIOUS
<1>2. \A k \in 1..n : D(k) \in Nat /\ D(k) <= B
  BY DEF Group
<1> DEFINE U == {u \in Nat : \A k \in 1..n : D(k) <= u}
<1>3. PICK m \in U : \A u \in U : m <= u
  BY <1>2, NatHasLeast
<1>4. \E k \in 1..n : D(k) = m
  <2> SUFFICES ASSUME \A k \in 1..n : D(k) # m PROVE FALSE
    OBVIOUS
  <2>1. CASE m = 0
    BY <2>1, <1>1, <1>2
  <2>2. CASE m # 0
    <3>1. m - 1 \in U
      BY <2>2, <1>2
    <3>2. QED
      BY <3>1, <1>3, <2>2
  <2>3. QED
    BY <2>1, <2>2
<1>5. best # {} /\ best \subseteq Nat
  <2>1. PICK k \in 1..n : D(k) = m
    BY <1>4
  <2>2. \A j \in 1..n : D(j) <= D(k)
    BY <1>3, <2>1
  <2>3. k \in best
    BY <2>2
  <2>4. QED
    BY <2>3
<1>6. \E k \in best : \A j \in best : k <= j
  BY <1>5, NatHasLeast
<1>7. QED
  <2>1. (CHOOSE k \in best : \A j \in best : k <= j) \in 1..n
    BY <1>6
  <2>2. QED
    BY <2>1 DEF Slowest

\* Appending a label to order adds it to the labels order lists.
LEMMA AppendRange ==
  ASSUME NEW S, NEW sq \in Seq(S), NEW e \in S
  PROVE  {Append(sq, e)[i] : i \in 1..Len(Append(sq, e))}
           = {sq[i] : i \in 1..Len(sq)} \cup {e}
  OBVIOUS

\* The labels order lists are those of the groups.
OrderListsGroups == {order[i] : i \in 1..Len(order)} = DOMAIN groups

\* The program's state in its types, with what keeps pos within the trace
\* and order in step with the groups.
TInv ==
    /\ AInv
    /\ phase \in {"start", "compiling", "javac_blocked", "tracing",
                  "analyzing", "exited"}
    /\ files \subseteq TestFiles
    /\ trace \in Traces \cup {NoOutput}
    /\ exitCode \in {0, 1, NoExit}
    /\ phase \in {"start", "compiling", "javac_blocked", "tracing"}
           => trace = NoOutput
    /\ phase = "analyzing" => trace # NoOutput
    /\ trace = NoOutput => pos = 1
    /\ trace # NoOutput => pos <= Len(trace) + 1
    /\ order \in Seq(Labels)
    /\ OrderListsGroups
    /\ report \in Report \cup {NoReport}

LEMMA InitTInv == Init => TInv
  BY InitAInv DEF Init, TInv, OrderListsGroups

LEMMA TInvStep == TInv /\ [Next]_vars => TInv'
<1> SUFFICES ASSUME TInv, [Next]_vars PROVE TInv'
  OBVIOUS
<1>0. AInv'
  BY AInvStep DEF TInv
<1>1. CASE Usage
  BY <1>0, <1>1 DEF Usage, Exit, TInv, OrderListsGroups
<1>2. CASE Start
  BY <1>0, <1>2 DEF Start, TInv, OrderListsGroups, TestFiles
<1>3. CASE Compile
  BY <1>0, <1>3 DEF Compile, Exit, TInv, OrderListsGroups, TestFiles
<1>4. CASE RunWithStrace
  <2>1. pos = 1
    BY <1>4 DEF RunWithStrace, TInv
  <2>2. PICK out \in Traces \cup {NoOutput} :
          /\ trace' = out
          /\ IF out = NoOutput THEN Exit(0)
             ELSE phase' = "analyzing" /\ UNCHANGED exitCode
    BY <1>4 DEF RunWithStrace
  <2>3. out # NoOutput => Len(out) \in Nat
    BY TraceBound
  <2>4. QED
    BY <1>0, <1>4, <2>1, <2>2, <2>3 DEF RunWithStrace, Exit, TInv,
       OrderListsGroups
<1>5. CASE AccumulateAllocation
  <2> DEFINE a == trace[pos]
             t == Classify(a.size)
  <2>1. t \in Labels
    BY ClassifyInLabels
  <2>2. /\ groups' = Bumped(groups, t, a.dur)
        /\ order' = IF t \in DOMAIN groups THEN order ELSE Append(order, t)
        /\ pos' = pos + 1 /\ pos <= Len(trace)
        /\ UNCHANGED <<phase, files, trace, report, exitCode>>
    BY <1>5 DEF AccumulateAllocation, WithNewGroup, Bumped
  <2>3. DOMAIN groups' = DOMAIN groups \cup {t}
    BY <2>2 DEF Bumped
  <2>4. order' \in Seq(Labels) /\ OrderListsGroups'
    <3>1. CASE t \in DOMAIN groups
      BY <3>1, <2>2, <2>3 DEF TInv, OrderListsGroups
    <3>2. CASE t \notin DOMAIN groups
      BY <3>2, <2>1, <2>2, <2>3, AppendRange DEF TInv, OrderListsGroups
    <3>3. QED
      BY <3>1, <3>2
  <2>5. phase = "analyzing" /\ trace # NoOutput /\ trace \in Seq(Alloc)
    BY <1>5 DEF AccumulateAllocation, TInv, AInv
  <2>6. pos' <= Len(trace') + 1
    BY <2>2, <2>5 DEF TInv, AInv
  <2>7. QED
    BY <1>0, <2>2, <2>4, <2>5, <2>6 DEF TInv
<1>6. CASE GenerateInsights
  <2>0. report = NoReport
    BY <1>6 DEF GenerateInsights, TInv, AInv
  <2>1. UNCHANGED <<trace, pos, groups, order, total_duration>>
        /\ phase' = "exited" /\ exitCode' \in {0, 1}
        /\ files' \subseteq files
    BY <1>6 DEF GenerateInsights, Exit
  <2>2. report' = NoReport \/ DOMAIN groups # {}
    BY <1>6, <2>0 DEF GenerateInsights
  <2>3. report' # NoReport =>
          report' = [slowest |-> Slowest,
                     heap    |-> DurOf("heap_reserve"),
                     g1      |-> DurOf("card_table_or_bot") + DurOf("mark_bitmap"),
                     total   |-> total_duration]
    BY <1>6, <2>0 DEF GenerateInsights
  <2>4. \A l \in Labels : DurOf(l) \in Nat
    BY DEF TInv, AInv, GroupsOK, Group, DurOf
  <2>5. \A x \in DOMAIN groups : groups[x] \in Group
                                 /\ groups[x].dur <= total_duration
    <3>1. \A l \in Labels : DurOf(l) <= total_duration
      <4>1. SumOverLabels(DurOf) = total_duration
        BY DEF TInv, AInv
      <4>2. DurOf("heap_reserve") + DurOf("class_space_reserve")
              + DurOf("initial_heap_commit") + DurOf("class_space_commit")
              + DurOf("mark_bitmap") + DurOf("card_table_or_bot")
              + DurOf("other") = total_duration
        BY <4>1, Zenon DEF SumOverLabels
      <4>3. QED
        <5> HIDE DEF DurOf
        <5>1. /\ DurOf("heap_reserve") \in Nat
              /\ DurOf("class_space_reserve") \in Nat
              /\ DurOf("initial_heap_commit") \in Nat
              /\ DurOf("class_space_commit") \in Nat
              /\ DurOf("mark_bitmap") \in Nat
              /\ DurOf("card_table_or_bot") \in Nat
              /\ DurOf("other") \in Nat
          BY <2>4 DEF Labels
        <5>2. QED
          BY <4>2, <5>1 DEF Labels
    <3>2. QED
      BY <3>1 DEF TInv, AInv, GroupsOK, DurOf
  <2>6. DOMAIN groups # {} => Slowest \in Labels
    BY <2>5, SlowestIsLabel DEF TInv, AInv, OrderListsGroups
  <2>7. report' \in Report \cup {NoReport}
    <3>1. CASE report' # NoReport
      <4>1. Slowest \in Labels
        BY <3>1, <2>2, <2>6
      <4>2. /\ DurOf("heap_reserve") \in Nat
            /\ DurOf("card_table_or_bot") + DurOf("mark_bitmap") \in Nat
            /\ total_duration \in Nat
        BY <2>4 DEF Labels, TInv, AInv
      <4>3. QED
        BY <3>1, <2>3, <4>1, <4>2 DEF Report
    <3>2. QED
      BY <3>1
  <2>8. QED
    BY <1>0, <2>1, <2>7 DEF TInv, OrderListsGroups
<1>7. CASE UNCHANGED vars
  BY <1>0, <1>7 DEF vars, TInv, OrderListsGroups
<1>8. QED
  BY <1>1, <1>2, <1>3, <1>4, <1>5, <1>6, <1>7 DEF Next

\* Whatever strace yields, the analyzer's state keeps its types, the loop
\* never reads past its trace, and the slowest label of a report is one of
\* _classify_8gb_allocation's labels: max() over the groups finds one.
THEOREM TypeCorrect == Spec => []TypeOK
<1>1. TInv => TypeOK
  <2> SUFFICES ASSUME TInv PROVE TypeOK
    OBVIOUS
  <2>1. pos \in 1..MaxAllocs + 1
    <3>1. trace # NoOutput => Len(trace) <= MaxAllocs
      BY TraceBound DEF TInv
    <3>2. QED
      BY <3>1, ConstAssumption DEF TInv, AInv
  <2>2. QED
    BY <2>1 DEF TInv, AInv, GroupsOK, TypeOK
<1>2. QED
  BY <1>1, InitTInv, TInvStep, PTL DEF Spec
=============================================================================
