------------------------- MODULE InitProfilerProofs -------------------------
(***************************************************************************)
(* Proofs about the JVM-init profiler (InitProfiler): that the critical    *)
(* path of every report is the set of phases taking at least 5% of the    *)
(* total, each once, longest first.                                        *)
(*                                                                         *)
(* Items, SortedByDuration and KeepIf all name an element by its rank: the *)
(* number of elements before it under a strict total order.  The lemma    *)
(* RankOrder states once that this rank is a bijection onto 1..n that     *)
(* follows the order; the facts about the three operators rest on it.     *)
(***************************************************************************)
EXTENDS InitProfiler, FiniteSetTheorems, TLAPS

\* The elements of D before x under the relation R, and x's rank.
Below(D, R, x) == {y \in D : <<y, x>> \in R}
Pos(D, R, x) == Cardinality(Below(D, R, x)) + 1

\* R is a strict total order on D.
IsStrictTotal(D, R) ==
    /\ R \subseteq D \X D
    /\ \A x \in D : <<x, x>> \notin R
    /\ \A x, y, z \in D : <<x, y>> \in R /\ <<y, z>> \in R => <<x, z>> \in R
    /\ \A x, y \in D : x # y => <<x, y>> \in R \/ <<y, x>> \in R

\* Under a strict total order on a finite set of n elements, the rank of
\* each element is in 1..n, follows the order, and every rank is taken.
LEMMA RankOrder ==
  ASSUME NEW D, IsFiniteSet(D), NEW R, IsStrictTotal(D, R)
  PROVE  /\ \A x \in D : Pos(D, R, x) \in 1..Cardinality(D)
         /\ \A x, y \in D : <<x, y>> \in R => Pos(D, R, x) < Pos(D, R, y)
         /\ \A p \in 1..Cardinality(D) : \E x \in D : Pos(D, R, x) = p
         /\ \A x, y \in D : Pos(D, R, x) = Pos(D, R, y) => x = y
<1> DEFINE n == Cardinality(D)
<1>0. n \in Nat
  BY FS_CardinalityType
<1>1. ASSUME NEW x \in D
      PROVE  /\ IsFiniteSet(Below(D, R, x))
             /\ Cardinality(Below(D, R, x)) \in Nat
  <2>1. Below(D, R, x) \subseteq D
    BY DEF Below
  <2>2. QED
    BY <2>1, FS_Subset, FS_CardinalityType
<1>2. ASSUME NEW x \in D
      PROVE  Pos(D, R, x) \in 1..n
  <2>1. Below(D, R, x) \subseteq D \ {x}
    BY DEF Below, IsStrictTotal
  <2>2. IsFiniteSet(D \ {x}) /\ Cardinality(D \ {x}) = n - 1
    BY FS_RemoveElement
  <2>3. Cardinality(Below(D, R, x)) <= n - 1
    BY <2>1, <2>2, FS_Subset
  <2>4. QED
    BY <1>0, <1>1, <2>3 DEF Pos
<1>3. ASSUME NEW x \in D, NEW y \in D, <<x, y>> \in R
      PROVE  Pos(D, R, x) < Pos(D, R, y)
  <2>1. Below(D, R, x) \cup {x} \subseteq Below(D, R, y)
    BY <1>3 DEF Below, IsStrictTotal
  <2>2. x \notin Below(D, R, x)
    BY DEF Below, IsStrictTotal
  <2>3. IsFiniteSet(Below(D, R, x) \cup {x})
        /\ Cardinality(Below(D, R, x) \cup {x}) = Cardinality(Below(D, R, x)) + 1
    BY <1>1, <2>2, FS_AddElement
  <2>4. Cardinality(Below(D, R, x) \cup {x}) <= Cardinality(Below(D, R, y))
    BY <1>1, <2>1, FS_Subset
  <2>5. QED
    BY <1>1, <2>3, <2>4 DEF Pos
<1>4. \A x, y \in D : Pos(D, R, x) = Pos(D, R, y) => x = y
  <2> SUFFICES ASSUME NEW x \in D, NEW y \in D, x # y
               PROVE  Pos(D, R, x) # Pos(D, R, y)
    OBVIOUS
  <2>1. <<x, y>> \in R \/ <<y, x>> \in R
    BY DEF IsStrictTotal
  <2>2. QED
    BY <2>1, <1>3, <1>2
<1>5. \A p \in 1..n : \E x \in D : Pos(D, R, x) = p
  <2> DEFINE f == [x \in D |-> Pos(D, R, x)]
  <2>1. f \in Injection(D, 1..n)
    <3>1. f \in [D -> 1..n]
      BY <1>2
    <3>2. \A x, y \in D : f[x] = f[y] => x = y
      BY <1>4
    <3>3. QED
      BY <3>1, <3>2 DEF Injection, IsInjective
  <2>2. IsFiniteSet(1..n) /\ Cardinality(1..n) = n
    <3>1. 1 \in Int /\ n \in Int
      BY <1>0
    <3>2. IsFiniteSet(1..n) /\ Cardinality(1..n) = IF 1 > n THEN 0 ELSE n - 1 + 1
      BY <3>1, FS_Interval
    <3>3. QED
      BY <1>0, <3>2
  <2>3. f \in Surjection(D, 1..n)
    BY <2>1, <2>2, FS_Injection
  <2>4. QED
    BY <2>3 DEF Surjection
<1>6. QED
  BY <1>2, <1>3, <1>4, <1>5
\* The element of rank p.
Nth(D, R, p) == CHOOSE x \in D : Pos(D, R, x) = p

\* Nth is the inverse of the rank: it maps 1..n onto D.
LEMMA RankInverse ==
  ASSUME NEW D, IsFiniteSet(D), NEW R, IsStrictTotal(D, R)
  PROVE  /\ \A p \in 1..Cardinality(D) : /\ Nth(D, R, p) \in D
                                         /\ Pos(D, R, Nth(D, R, p)) = p
         /\ \A x \in D : Nth(D, R, Pos(D, R, x)) = x
<1>1. \A p \in 1..Cardinality(D) : /\ Nth(D, R, p) \in D
                                   /\ Pos(D, R, Nth(D, R, p)) = p
  BY RankOrder DEF Nth
<1>2. \A x \in D : Nth(D, R, Pos(D, R, x)) = x
  BY <1>1, RankOrder
<1>3. QED
  BY <1>1, <1>2

\* The rank Items and KeepIf give a member k of a finite set of naturals,
\* the number of members up to k: it is in 1..n, grows with k, and every
\* rank is taken.
LEMMA LeqRank ==
  ASSUME NEW D \in SUBSET Nat, IsFiniteSet(D)
  PROVE  /\ \A k \in D : Cardinality({j \in D : j <= k}) \in 1..Cardinality(D)
         /\ \A k, l \in D : k < l => Cardinality({j \in D : j <= k})
                                       < Cardinality({j \in D : j <= l})
         /\ \A p \in 1..Cardinality(D) :
               \E k \in D : Cardinality({j \in D : j <= k}) = p
<1> DEFINE R == {xy \in D \X D : xy[1] < xy[2]}
          rk(k) == Cardinality({j \in D : j <= k})
<1>0. \A x, y : <<x, y>> \in R <=> x \in D /\ y \in D /\ x < y
  OBVIOUS
<1>1. IsStrictTotal(D, R)
  BY <1>0 DEF IsStrictTotal
<1>2. ASSUME NEW k \in D
      PROVE  rk(k) = Pos(D, R, k)
  <2>1. {j \in D : j <= k} = Below(D, R, k) \cup {k}
    <3> SUFFICES ASSUME NEW j
                 PROVE  j \in {i \in D : i <= k} <=> j \in Below(D, R, k) \cup {k}
      OBVIOUS
    <3>1. j \in Below(D, R, k) <=> j \in D /\ j < k
      BY <1>0 DEF Below
    <3>2. j \in {i \in D : i <= k} <=> j \in D /\ j <= k
      OBVIOUS
    <3>3. k \in Nat /\ (j \in D => j \in Nat)
      OBVIOUS
    <3>4. j \in D => (j <= k <=> j < k \/ j = k)
      BY <3>3
    <3>5. QED
      BY <3>1, <3>2, <3>4
  <2>2. k \notin Below(D, R, k) /\ Below(D, R, k) \subseteq D
    BY <1>0 DEF Below
  <2>3. IsFiniteSet(Below(D, R, k))
    BY <2>2, FS_Subset
  <2>4. Cardinality(Below(D, R, k) \cup {k}) = Cardinality(Below(D, R, k)) + 1
    BY <2>2, <2>3, FS_AddElement
  <2>5. QED
    BY <2>1, <2>4, Zenon DEF Pos
<1>3. /\ \A x \in D : Pos(D, R, x) \in 1..Cardinality(D)
      /\ \A x, y \in D : <<x, y>> \in R => Pos(D, R, x) < Pos(D, R, y)
      /\ \A p \in 1..Cardinality(D) : \E x \in D : Pos(D, R, x) = p
      /\ \A x, y \in D : Pos(D, R, x) = Pos(D, R, y) => x = y
  BY <1>1, RankOrder
<1>4. \A k \in D : rk(k) \in 1..Cardinality(D)
  BY <1>2, <1>3
<1>5. \A k, l \in D : k < l => rk(k) < rk(l)
  <2> SUFFICES ASSUME NEW k \in D, NEW l \in D, k < l
               PROVE  rk(k) < rk(l)
    OBVIOUS
  <2>1. Pos(D, R, k) < Pos(D, R, l)
    BY <1>0, <1>3
  <2>2. QED
    BY <2>1, <1>2
<1>6. \A p \in 1..Cardinality(D) : \E k \in D : rk(k) = p
  <2> TAKE p \in 1..Cardinality(D)
  <2>1. PICK x \in D : Pos(D, R, x) = p
    BY <1>3
  <2>2. QED
    BY <2>1, <1>2
<1>7. QED
  BY <1>4, <1>5, <1>6
-----------------------------------------------------------------------------
(***************************************************************************)
(* sorted(..., key=duration, reverse=True)                                 *)
(***************************************************************************)

\* The order SortedByDuration ranks the items by: longer first, and among
\* equal durations the earlier item first (the sort is stable).
SortRel(items) ==
    {ji \in (DOMAIN items) \X (DOMAIN items) :
        \/ items[ji[1]].ms > items[ji[2]].ms
        \/ items[ji[1]].ms = items[ji[2]].ms /\ ji[1] < ji[2]}

\* Longest first.
Descending(s) == \A p, q \in DOMAIN s : p < q => s[p].ms >= s[q].ms

\* SortRel is a strict total order on the positions of a sequence of
\* timing lines, and SortedByDuration lists the items by their rank in it.
LEMMA SortRank ==
  ASSUME NEW items \in Seq(TimingLine)
  PROVE  LET D == DOMAIN items
             R == SortRel(items)
         IN  /\ D = 1..Len(items)
             /\ IsFiniteSet(D) /\ Cardinality(D) = Len(items)
             /\ IsStrictTotal(D, R)
             /\ \A i, j : <<j, i>> \in R <=>
                  /\ i \in D /\ j \in D
                  /\ \/ items[j].ms > items[i].ms
                     \/ items[j].ms = items[i].ms /\ j < i
             /\ DOMAIN SortedByDuration(items) = D
             /\ \A p \in D : SortedByDuration(items)[p] = items[Nth(D, R, p)]
<1> DEFINE D == DOMAIN items
           R == SortRel(items)
           n == Len(items)
<1>1. D = 1..n /\ n \in Nat
  OBVIOUS
<1>2. IsFiniteSet(D) /\ Cardinality(D) = n
  <2>1. 1 \in Int /\ n \in Int
    BY <1>1
  <2>2. IsFiniteSet(1..n) /\ Cardinality(1..n) = IF 1 > n THEN 0 ELSE n - 1 + 1
    BY <2>1, FS_Interval
  <2>3. QED
    BY <1>1, <2>2
<1>3. \A i \in D : items[i].ms \in Nat
  <2>1. \A i \in D : items[i] \in TimingLine
    BY <1>1
  <2>2. QED
    BY <2>1, ConstAssumption DEF TimingLine
<1>4. \A i, j : <<j, i>> \in R <=>
        /\ i \in D /\ j \in D
        /\ \/ items[j].ms > items[i].ms
           \/ items[j].ms = items[i].ms /\ j < i
  BY Zenon DEF SortRel
<1>5. IsStrictTotal(D, R)
  <2>1. R \subseteq D \X D
    BY Zenon DEF SortRel
  <2>2. \A x \in D : <<x, x>> \notin R
    BY <1>1, <1>3, <1>4
  <2>3. \A x, y, z \in D : <<x, y>> \in R /\ <<y, z>> \in R => <<x, z>> \in R
    BY <1>1, <1>3, <1>4
  <2>4. \A x, y \in D : x # y => <<x, y>> \in R \/ <<y, x>> \in R
    BY <1>1, <1>3, <1>4
  <2>5. QED
    BY <2>1, <2>2, <2>3, <2>4 DEF IsStrictTotal
<1>5a. /\ \A x \in D : Pos(D, R, x) \in 1..Cardinality(D)
       /\ \A x, y \in D : <<x, y>> \in R => Pos(D, R, x) < Pos(D, R, y)
       /\ \A q \in 1..Cardinality(D) : \E x \in D : Pos(D, R, x) = q
       /\ \A x, y \in D : Pos(D, R, x) = Pos(D, R, y) => x = y
  BY <1>2, <1>5, RankOrder
<1>5b. /\ \A q \in 1..Cardinality(D) : /\ Nth(D, R, q) \in D
                                        /\ Pos(D, R, Nth(D, R, q)) = q
       /\ \A x \in D : Nth(D, R, Pos(D, R, x)) = x
  BY <1>2, <1>5, RankInverse
<1> DEFINE before(j, i) ==
             \/ items[j].ms > items[i].ms
             \/ items[j].ms = items[i].ms /\ j < i
           pos(i) == Cardinality({j \in DOMAIN items : before(j, i)}) + 1
<1>6. \A i \in D : pos(i) = Pos(D, R, i)
  <2> TAKE i \in D
  <2>1. {j \in D : before(j, i)} = Below(D, R, i)
    BY <1>4 DEF Below
  <2>2. QED
    BY <2>1, Zenon DEF Pos
<1>7. \A p \in D : SortedByDuration(items)[p] = items[Nth(D, R, p)]
  <2> TAKE p \in D
  <2> DEFINE c == CHOOSE i \in DOMAIN items : pos(i) = p
  <2>1. p \in 1..Cardinality(D)
    BY <1>1, <1>2
  <2>2. \E i \in D : pos(i) = p
    BY <2>1, <1>6, <1>5a
  <2>3. c \in D /\ Pos(D, R, c) = p
    BY <2>2, <1>6
  <2>4. c = Nth(D, R, p)
    <3>1. Nth(D, R, p) \in D /\ Pos(D, R, Nth(D, R, p)) = p
      BY <2>1, <1>5b
    <3>2. QED
      BY <2>3, <3>1, <1>5a
  <2>5. SortedByDuration(items)[p] = items[c]
    BY Zenon DEF SortedByDuration
  <2>6. QED
    BY <2>4, <2>5
<1>8. DOMAIN SortedByDuration(items) = D
  BY DEF SortedByDuration
<1>9. QED
  BY <1>1, <1>2, <1>4, <1>5, <1>7, <1>8
\* SortedByDuration returns the same timing lines, each as often as
\* before, longest first.
LEMMA SortedByDurationFacts ==
  ASSUME NEW items \in Seq(TimingLine)
  PROVE  LET s == SortedByDuration(items)
         IN  /\ s \in Seq(TimingLine)
             /\ Range(s) = Range(items)
             /\ IsInjective(items) => IsInjective(s)
             /\ Descending(s)
<1> DEFINE D == DOMAIN items
           R == SortRel(items)
           s == SortedByDuration(items)
           nth(p) == Nth(D, R, p)
<1>1. /\ D = 1..Len(items)
      /\ IsFiniteSet(D) /\ Cardinality(D) = Len(items)
      /\ IsStrictTotal(D, R)
      /\ \A i, j : <<j, i>> \in R <=>
           /\ i \in D /\ j \in D
           /\ \/ items[j].ms > items[i].ms
              \/ items[j].ms = items[i].ms /\ j < i
      /\ DOMAIN s = D
      /\ \A p \in D : s[p] = items[nth(p)]
  BY SortRank
<1>2. /\ \A x \in D : Pos(D, R, x) \in 1..Cardinality(D)
      /\ \A x, y \in D : <<x, y>> \in R => Pos(D, R, x) < Pos(D, R, y)
      /\ \A x, y \in D : Pos(D, R, x) = Pos(D, R, y) => x = y
  BY <1>1, RankOrder
<1>3. /\ \A q \in D : nth(q) \in D /\ Pos(D, R, nth(q)) = q
      /\ \A x \in D : nth(Pos(D, R, x)) = x
  BY <1>1, RankInverse
<1>4. s \in Seq(TimingLine)
  <2>0. s = [p \in D |-> s[p]]
    BY DEF SortedByDuration
  <2>1. s \in [1..Len(items) -> TimingLine]
    <3>1. \A p \in D : s[p] \in TimingLine
      BY <1>1, <1>3
    <3>2. QED
      BY <2>0, <3>1, <1>1, Zenon
  <2>2. QED
    BY <2>1
<1>5. Range(s) = Range(items)
  <2>1. Range(s) \subseteq Range(items)
    BY <1>1, <1>3 DEF Range
  <2>2. Range(items) \subseteq Range(s)
    <3> SUFFICES ASSUME NEW x \in D PROVE items[x] \in Range(s)
      BY DEF Range
    <3>1. Pos(D, R, x) \in D /\ s[Pos(D, R, x)] = items[x]
      BY <1>1, <1>2, <1>3
    <3>2. QED
      BY <3>1, <1>1 DEF Range
  <2>3. QED
    BY <2>1, <2>2
<1>6. IsInjective(items) => IsInjective(s)
  <2> SUFFICES ASSUME IsInjective(items), NEW p \in D, NEW q \in D, s[p] = s[q]
               PROVE  p = q
    BY <1>1 DEF IsInjective
  <2>1. items[nth(p)] = items[nth(q)]
    BY <1>1
  <2>2. nth(p) = nth(q)
    BY <2>1, <1>3 DEF IsInjective
  <2>3. QED
    BY <2>2, <1>3
<1>7. Descending(s)
  <2> SUFFICES ASSUME NEW p \in D, NEW q \in D, p < q
               PROVE  s[p].ms >= s[q].ms
    BY <1>1 DEF Descending
  <2> DEFINE i == nth(p)
             j == nth(q)
  <2>1. i \in D /\ j \in D /\ Pos(D, R, i) = p /\ Pos(D, R, j) = q
    BY <1>3
  <2>2. <<j, i>> \notin R
    BY <2>1, <1>2
  <2>3. items[i].ms \in Nat /\ items[j].ms \in Nat
    <3>1. items[i] \in TimingLine /\ items[j] \in TimingLine
      BY <2>1, <1>1
    <3>2. QED
      BY <3>1, ConstAssumption DEF TimingLine
  <2>4. items[i].ms >= items[j].ms
    BY <2>1, <2>2, <2>3, <1>1
  <2>5. QED
    BY <2>4, <1>1
<1>8. QED
  BY <1>4, <1>5, <1>6, <1>7
-----------------------------------------------------------------------------
(***************************************************************************)
(* The loop of analyze_critical_path: KeepIf with the 5% test              *)
(***************************************************************************)

\* The loop with analyze_critical_path's test: at least 5% of total t.
KeepShare(s, t) == KeepIf(s, LAMBDA it : 20 * it.ms >= t)

\* The phases kept are those of s at 5% or more of t, each as often as in
\* s and in the order of s, so longest first when s is.
LEMMA KeepIfFacts ==
  ASSUME NEW s \in Seq(TimingLine), NEW t
  PROVE  LET c == KeepShare(s, t)
         IN  /\ c \in Seq(TimingLine)
             /\ Range(c) = {it \in Range(s) : 20 * it.ms >= t}
             /\ IsInjective(s) => IsInjective(c)
             /\ Descending(s) => Descending(c)
<1> DEFINE J == {i \in 1..Len(s) : 20 * s[i].ms >= t}
           rank(i) == Cardinality({j \in J : j <= i})
           at(k) == CHOOSE i \in J : rank(i) = k
           m == Cardinality(J)
           c == KeepShare(s, t)
<1>1. /\ J \subseteq 1..Len(s)
      /\ J \subseteq Nat /\ IsFiniteSet(J) /\ m \in Nat
      /\ DOMAIN s = 1..Len(s)
      /\ \A i \in 1..Len(s) : s[i] \in TimingLine
  <2>1. 1 \in Int /\ Len(s) \in Int
    OBVIOUS
  <2>2. IsFiniteSet(1..Len(s))
    BY <2>1, FS_Interval
  <2>3. IsFiniteSet(J)
    BY <2>2, FS_Subset
  <2>4. QED
    BY <2>3, FS_CardinalityType
<1>2. /\ \A k \in J : rank(k) \in 1..m
      /\ \A k, l \in J : k < l => rank(k) < rank(l)
      /\ \A p \in 1..m : \E k \in J : rank(k) = p
  BY <1>1, LeqRank
<1>3. \A k \in 1..m : at(k) \in J /\ rank(at(k)) = k
  BY <1>2
<1>4. /\ c = [k \in 1..m |-> c[k]]
      /\ DOMAIN c = 1..m
      /\ \A k \in 1..m : c[k] = s[at(k)]
  BY DEF KeepShare, KeepIf
<1> HIDE DEF J, rank, at, m, c
<1>5. \A k, l \in J : rank(k) = rank(l) => k = l
  <2> SUFFICES ASSUME NEW k \in J, NEW l \in J, k # l
               PROVE  rank(k) # rank(l)
    OBVIOUS
  <2>1. CASE k < l
    BY <2>1, <1>2
  <2>2. CASE l < k
    BY <2>2, <1>2
  <2>3. QED
    BY <2>1, <2>2, <1>1
<1>6. \A i \in J : rank(i) \in 1..m /\ at(rank(i)) = i
  BY <1>2, <1>3, <1>5
<1>7. \A k, l \in 1..m : k < l => at(k) < at(l)
  <2> SUFFICES ASSUME NEW k \in 1..m, NEW l \in 1..m, k < l
               PROVE  at(k) < at(l)
    OBVIOUS
  <2>1. at(k) \in J /\ at(l) \in J /\ rank(at(k)) = k /\ rank(at(l)) = l
    BY <1>3
  <2>2. at(k) # at(l)
    BY <2>1
  <2>3. ~(at(l) < at(k))
    BY <2>1, <1>2
  <2>4. at(k) \in Nat /\ at(l) \in Nat
    BY <2>1, <1>1
  <2>5. QED
    BY <2>2, <2>3, <2>4
<1>8. c \in Seq(TimingLine)
  <2>1. \A k \in 1..m : c[k] \in TimingLine
    BY <1>1, <1>3, <1>4
  <2>2. c \in [1..m -> TimingLine]
    BY <1>4, <2>1, Zenon
  <2>3. QED
    BY <1>1, <2>2
<1>9. Range(c) = {it \in Range(s) : 20 * it.ms >= t}
  <2>1. Range(c) \subseteq {s[i] : i \in J}
    BY <1>3, <1>4 DEF Range
  <2>2. {s[i] : i \in J} \subseteq Range(c)
    BY <1>4, <1>6 DEF Range
  <2>3. {s[i] : i \in J} = {it \in Range(s) : 20 * it.ms >= t}
    BY DEF Range, J
  <2>4. QED
    BY <2>1, <2>2, <2>3
<1>10. IsInjective(s) => IsInjective(c)
  <2> SUFFICES ASSUME IsInjective(s), NEW k \in 1..m, NEW l \in 1..m, c[k] = c[l]
               PROVE  k = l
    BY <1>4 DEF IsInjective
  <2>1. at(k) \in DOMAIN s /\ at(l) \in DOMAIN s /\ s[at(k)] = s[at(l)]
    BY <1>1, <1>3, <1>4
  <2>2. at(k) = at(l)
    BY <2>1 DEF IsInjective
  <2>3. QED
    BY <2>2, <1>3
<1>11. Descending(s) => Descending(c)
  <2> SUFFICES ASSUME Descending(s), NEW k \in 1..m, NEW l \in 1..m, k < l
               PROVE  c[k].ms >= c[l].ms
    BY <1>4 DEF Descending
  <2>1. at(k) \in DOMAIN s /\ at(l) \in DOMAIN s /\ at(k) < at(l)
    BY <1>1, <1>3, <1>7
  <2>2. s[at(k)].ms >= s[at(l)].ms
    BY <2>1 DEF Descending
  <2>3. QED
    BY <2>2, <1>4
<1>12. QED
  BY <1>8, <1>9, <1>10, <1>11 DEF c
-----------------------------------------------------------------------------
(***************************************************************************)
(* parse_startup_time_log: Items                                           *)
(***************************************************************************)

\* A finite non-empty set of naturals has a greatest member.
LEMMA NatHasGreatest ==
  ASSUME NEW K \in SUBSET Nat, IsFiniteSet(K), K # {}
  PROVE  \E x \in K : \A j \in K : ~(x < j)
<1> DEFINE rk(k) == Cardinality({j \in K : j <= k})
<1>1. /\ \A k \in K : rk(k) \in 1..Cardinality(K)
      /\ \A k, l \in K : k < l => rk(k) < rk(l)
      /\ \A p \in 1..Cardinality(K) : \E k \in K : rk(k) = p
  BY LeqRank
<1>2. Cardinality(K) \in Nat /\ Cardinality(K) # 0
  BY FS_CardinalityType, FS_EmptySet
<1>3. PICK x \in K : rk(x) = Cardinality(K)
  BY <1>1, <1>2
<1> HIDE DEF rk
<1>4. \A j \in K : ~(x < j)
  BY <1>1, <1>2, <1>3
<1>5. QED
  BY <1>4

\* Each phase of a log has a last line.
LEMMA LastIndexFacts ==
  ASSUME NEW log \in Seq(TimingLine), NEW k \in 1..Len(log)
  PROVE  /\ LastIndex(log, log[k].name) \in 1..Len(log)
         /\ log[LastIndex(log, log[k].name)].name = log[k].name
<1> DEFINE n == log[k].name
           K == {i \in 1..Len(log) : log[i].name = n}
<1>1. K \subseteq Nat /\ IsFiniteSet(K) /\ K # {}
  <2>1. 1 \in Int /\ Len(log) \in Int
    OBVIOUS
  <2>2. IsFiniteSet(1..Len(log))
    BY <2>1, FS_Interval
  <2>3. QED
    BY <2>2, FS_Subset
<1>2. PICK x \in K : \A j \in K : ~(x < j)
  BY <1>1, NatHasGreatest
<1>3. /\ x \in 1..Len(log)
      /\ log[x].name = n
      /\ \A j \in x + 1..Len(log) : log[j].name # n
  BY <1>2
<1>4. QED
  BY <1>3 DEF LastIndex
\* parse_startup_time_log yields timing lines, one per phase: a repeated
\* phase overwrites its entry, so no two items are equal.
LEMMA ItemsFacts ==
  ASSUME NEW log \in Seq(TimingLine)
  PROVE  /\ Items(log) \in Seq(TimingLine)
         /\ IsInjective(Items(log))
<1> DEFINE firsts == {k \in 1..Len(log) : FirstIndex(log, log[k].name) = k}
           rank(k) == Cardinality({j \in firsts : j <= k})
           at(i) == CHOOSE k \in firsts : rank(k) = i
           m == Cardinality(firsts)
           its == Items(log)
<1>1. /\ firsts \subseteq 1..Len(log)
      /\ firsts \subseteq Nat /\ IsFiniteSet(firsts) /\ m \in Nat
      /\ \A k \in 1..Len(log) : log[k] \in TimingLine
  <2>1. 1 \in Int /\ Len(log) \in Int
    OBVIOUS
  <2>2. IsFiniteSet(1..Len(log))
    BY <2>1, FS_Interval
  <2>3. IsFiniteSet(firsts)
    BY <2>2, FS_Subset
  <2>4. QED
    BY <2>3, FS_CardinalityType
<1>2. /\ \A k \in firsts : rank(k) \in 1..m
      /\ \A p \in 1..m : \E k \in firsts : rank(k) = p
  BY <1>1, LeqRank
<1>3. \A i \in 1..m : at(i) \in firsts /\ rank(at(i)) = i
  BY <1>2
<1>4. /\ its = [i \in 1..m |-> its[i]]
      /\ DOMAIN its = 1..m
      /\ \A i \in 1..m :
           its[i] = [name |-> log[at(i)].name,
                     ms   |-> log[LastIndex(log, log[at(i)].name)].ms]
  BY Zenon DEF Items
<1> HIDE DEF rank, at, m, its
<1>5. its \in Seq(TimingLine)
  <2>1. ASSUME NEW i \in 1..m PROVE its[i] \in TimingLine
    <3>1. at(i) \in 1..Len(log)
      BY <1>1, <1>3
    <3>2. LastIndex(log, log[at(i)].name) \in 1..Len(log)
      BY <3>1, LastIndexFacts
    <3>3. log[at(i)] \in TimingLine /\ log[LastIndex(log, log[at(i)].name)] \in TimingLine
      BY <1>1, <3>1, <3>2
    <3>4. QED
      BY <3>3, <1>4 DEF TimingLine
  <2>2. its \in [1..m -> TimingLine]
    BY <1>4, <2>1, Zenon
  <2>3. QED
    BY <1>1, <2>2
<1>6. IsInjective(its)
  <2> SUFFICES ASSUME NEW i \in 1..m, NEW j \in 1..m, its[i] = its[j]
               PROVE  i = j
    BY <1>4 DEF IsInjective
  <2>1. log[at(i)].name = log[at(j)].name
    BY <1>4
  <2>2. at(i) \in firsts /\ at(j) \in firsts
    BY <1>3
  <2>3. FirstIndex(log, log[at(i)].name) = at(i)
        /\ FirstIndex(log, log[at(j)].name) = at(j)
    BY <2>2
  <2>4. at(i) = at(j)
    BY <2>1, <2>3
  <2>5. QED
    BY <2>4, <1>3
<1>7. QED
  BY <1>5, <1>6 DEF its
-----------------------------------------------------------------------------
(***************************************************************************)
(* The critical path of a report                                           *)
(***************************************************************************)

\* A sequence whose elements are distinct has as many elements as values.
LEMMA InjectiveSeqCard ==
  ASSUME NEW S, NEW c \in Seq(S), IsInjective(c)
  PROVE  IsFiniteSet(Range(c)) /\ Cardinality(Range(c)) = Len(c)
<1>1. IsFiniteSet(1..Len(c)) /\ Cardinality(1..Len(c)) = Len(c)
  <2>1. 1 \in Int /\ Len(c) \in Int
    OBVIOUS
  <2>2. IsFiniteSet(1..Len(c))
        /\ Cardinality(1..Len(c)) = IF 1 > Len(c) THEN 0 ELSE Len(c) - 1 + 1
    BY <2>1, FS_Interval
  <2>3. QED
    BY <2>2
<1>2. c \in Bijection(1..Len(c), Range(c))
  BY DEF Bijection, Injection, Surjection, IsInjective, Range
<1>3. QED
  BY <1>1, <1>2, FS_Bijection DEF ExistsBijection

\* For every strace output, analyze_critical_path of the parsed timing
\* data keeps every phase at 5% or more of the total, each once, longest
\* first.
LEMMA CriticalPathFacts ==
  ASSUME NEW out \in Outputs
  PROVE  LET items == Items(out)
             cp == CriticalPath(items)
         IN  /\ Range(cp) = {it \in Range(items) : 20 * it.ms >= ItemsTotal(items)}
             /\ Len(cp) = Cardinality(Range(cp))
             /\ \A i \in 1..Len(cp) - 1 : cp[i].ms >= cp[i + 1].ms
<1> DEFINE items == Items(out)
           t == ItemsTotal(items)
           srt == SortedByDuration(items)
           cp == CriticalPath(items)
<1>1. out \in Seq(TimingLine)
  BY DEF Outputs
<1>2. items \in Seq(TimingLine) /\ IsInjective(items)
  BY <1>1, ItemsFacts
<1>3. /\ srt \in Seq(TimingLine)
      /\ Range(srt) = Range(items)
      /\ IsInjective(srt)
      /\ Descending(srt)
  BY <1>2, SortedByDurationFacts
<1>4. cp = KeepShare(srt, t)
  BY DEF CriticalPath, KeepShare
<1>5. /\ cp \in Seq(TimingLine)
      /\ Range(cp) = {it \in Range(srt) : 20 * it.ms >= t}
      /\ IsInjective(cp)
      /\ Descending(cp)
  BY <1>3, <1>4, KeepIfFacts
<1> HIDE DEF items, t, srt, cp
<1>6. Len(cp) = Cardinality(Range(cp))
  BY <1>5, InjectiveSeqCard
<1>7. \A i \in 1..Len(cp) - 1 : cp[i].ms >= cp[i + 1].ms
  BY <1>5 DEF Descending
<1>8. QED
  BY <1>3, <1>5, <1>6, <1>7 DEF items, t, cp

\* The inductive invariant: a report, once built, is the one
\* generate_report builds from some strace output.
IInv ==
    report \in {NoReport} \cup
               {[timing   |-> Items(o),
                 critical |-> CriticalPath(Items(o)),
                 total    |-> ItemsTotal(Items(o))] : o \in Outputs}

LEMMA InitIInv == Init => IInv
  BY DEF Init, IInv

LEMMA IInvStep == IInv /\ [Next]_vars => IInv'
<1> SUFFICES ASSUME IInv, [Next]_vars PROVE IInv'
  OBVIOUS
<1>1. CASE Usage
  BY <1>1 DEF Usage, IInv
<1>2. CASE Start
  BY <1>2 DEF Start, IInv
<1>3. CASE RunAndReport
  BY <1>3, Zenon DEF RunAndReport, IInv
<1>4. CASE UNCHANGED vars
  BY <1>4 DEF vars, IInv
<1>5. QED
  BY <1>1, <1>2, <1>3, <1>4 DEF Next

LEMMA IInvSignificant == IInv => CriticalPathIsSignificant
<1> SUFFICES ASSUME IInv, report # NoReport
             PROVE  CriticalPathIsSignificant
  BY DEF CriticalPathIsSignificant
<1>1. PICK o \in Outputs : report = [timing   |-> Items(o),
                                     critical |-> CriticalPath(Items(o)),
                                     total    |-> ItemsTotal(Items(o))]
  BY DEF IInv
<1>2. /\ Range(CriticalPath(Items(o)))
           = {it \in Range(Items(o)) : 20 * it.ms >= ItemsTotal(Items(o))}
      /\ Len(CriticalPath(Items(o))) = Cardinality(Range(CriticalPath(Items(o))))
      /\ \A i \in 1..Len(CriticalPath(Items(o))) - 1 :
           CriticalPath(Items(o))[i].ms >= CriticalPath(Items(o))[i + 1].ms
  BY CriticalPathFacts
<1>3. QED
  BY <1>1, <1>2 DEF CriticalPathIsSignificant, Range

\* For every strace output, with any number of lines, phases and
\* durations, analyze_critical_path lists exactly the phases at 5% or
\* more of the total, each once, longest first.
THEOREM CriticalPathIsSignificantHolds == Spec => []CriticalPathIsSignificant
<1>1. Init => IInv
  BY InitIInv
<1>2. IInv /\ [Next]_vars => IInv'
  BY IInvStep
<1>3. IInv => CriticalPathIsSignificant
  BY IInvSignificant
<1>4. QED
  BY <1>1, <1>2, <1>3, PTL DEF Spec
=============================================================================
