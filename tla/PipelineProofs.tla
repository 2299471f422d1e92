----------------------------- MODULE PipelineProofs -----------------------------
(***************************************************************************)
(* What the pipeline computes, for all values of the constants: what match *)
(* returns for every routing table and request, what the two writes of the *)
(* repository preserve, what the pipeline answers in every sound           *)
(* repository, and what the sandbox builds of every configuration.         *)
(***************************************************************************)
EXTENDS GeneratedConfig, TLAPS, FiniteSetTheorems, SequenceTheorems, WellFoundedInduction

--------------------------------------------------------------------------------
\* Routing.

\* A nonempty set of naturals has a least element (max() and next() of the code
\* are about least positions).
LEMMA LeastExists ==
  ASSUME NEW T \in SUBSET Nat, T # {}
  PROVE  \E x \in T : \A y \in T : x <= y
<1>1. \E x \in T : \A y \in T : <<y, x>> \notin OpToRel(<, Nat)
  BY WFMin, NatLessThanWellFounded
<1>2. PICK x \in T : \A y \in T : <<y, x>> \notin OpToRel(<, Nat)
  BY <1>1
<1>3. \A y \in T : x \in Nat /\ y \in Nat
  OBVIOUS
<1>4. \A y \in T : ~ (y < x)
  BY <1>2, <1>3 DEF OpToRel
<1>5. \A y \in T : x <= y
  BY <1>3, <1>4
<1> QED
  BY <1>5

\* A nonempty set of positions has a greatest element.
LEMMA GreatestExists ==
  ASSUME NEW n \in Nat, NEW T \in SUBSET (1 .. n), T # {}
  PROVE  \E x \in T : \A y \in T : y <= x
<1> DEFINE M == {n - i : i \in T}
<1>0. \A i \in T : i \in 1 .. n
  OBVIOUS
<1>1. M \in SUBSET Nat /\ M # {}
  <2>1. \A i \in T : n - i \in Nat
    BY <1>0
  <2> QED
    BY <2>1
<1>2. PICK m \in M : \A k \in M : m <= k
  BY <1>1, LeastExists
<1>3. PICK x \in T : m = n - x
  BY <1>2
<1>4. \A y \in T : n - x <= n - y
  BY <1>2, <1>3
<1> QED
  BY <1>0, <1>3, <1>4

LEMMA EqualIntervals ==
  ASSUME NEW m \in Nat, NEW n \in Nat, 1 .. m = 1 .. n
  PROVE  m = n
<1>1. \A k \in Int : 1 <= k /\ k <= m <=> 1 <= k /\ k <= n
  OBVIOUS
<1>2. 1 <= m => m <= n
  BY <1>1
<1>3. 1 <= n => n <= m
  BY <1>1
<1> QED
  BY <1>2, <1>3

\* Cutting the query leaves a path.
LEMMA WithoutQueryIsPath ==
  ASSUME NEW path \in Paths
  PROVE  PathWithoutQuery(path) \in Paths
<1> DEFINE marked == {i \in DOMAIN path : BeforeQuery[path[i]] # path[i]}
           first  == CHOOSE i \in marked : \A j \in marked : i <= j
<1>1. CASE marked = {}
  BY <1>1 DEF PathWithoutQuery
<1>2. CASE marked # {}
  <2>1. DOMAIN path = 1 .. Len(path) /\ Len(path) \in Nat
    BY LenProperties DEF Paths
  <2>2. \E i \in marked : \A j \in marked : i <= j
    <3>1. marked \in SUBSET Nat
      BY <2>1
    <3> QED
      BY <3>1, <1>2, LeastExists
  <2>3. first \in marked
    BY <2>2
  <2>4. first \in 1 .. Len(path)
    BY <2>1, <2>3
  <2>5. path[first] \in RawSegments
    BY <2>4, ElementOfSeq DEF Paths
  <2>6. BeforeQuery[path[first]] \in RawSegments
    BY <2>5, SegmentAssumption
  <2>7. SubSeq(path, 1, first - 1) \in Seq(RawSegments)
    <3> HIDE DEF first
    <3>1. first - 1 \in Int /\ 1 .. first - 1 \subseteq 1 .. Len(path)
      BY <2>1, <2>4
    <3>2. \A i \in 1 .. Len(path) : path[i] \in RawSegments
      BY ElementOfSeq DEF Paths
    <3>3. \A i \in 1 .. first - 1 : path[i] \in RawSegments
      BY <3>1, <3>2
    <3> QED
      BY <3>1, <3>3, SubSeqProperties
  <2>8. PathWithoutQuery(path) = Append(SubSeq(path, 1, first - 1), BeforeQuery[path[first]])
    BY <1>2 DEF PathWithoutQuery
  <2> QED
    BY <2>6, <2>7, <2>8, AppendProperties DEF Paths
<1> QED
  BY <1>1, <1>2

\* Splitting gives a list of segments, and its static segments can be counted.
LEMMA SplitPathLength ==
  ASSUME NEW path \in Paths
  PROVE  /\ Len(SplitPath(path)) \in Nat
         /\ DOMAIN SplitPath(path) = 1 .. Len(SplitPath(path))
         /\ StaticCount(SplitPath(path)) \in 0 .. Len(SplitPath(path))
<1> DEFINE cut  == PathWithoutQuery(path)
           kept == {i \in DOMAIN cut : cut[i] # Empty}
           n    == Cardinality(kept)
<1>1. n \in Nat
  <2>1. DOMAIN cut = 1 .. Len(cut) /\ Len(cut) \in Nat
    BY WithoutQueryIsPath, LenProperties DEF Paths
  <2>2. IsFiniteSet(1 .. Len(cut))
    BY <2>1, FS_Interval
  <2>3. kept \in SUBSET (1 .. Len(cut))
    BY <2>1
  <2> QED
    BY <2>2, <2>3, FS_Subset, FS_CardinalityType
<1>2. DOMAIN SplitPath(path) = 1 .. n
  BY DEF SplitPath
<1>3. Len(SplitPath(path)) = n
  BY <1>1, <1>2
<1>4. StaticCount(SplitPath(path)) \in 0 .. n
  <2> DEFINE static == {i \in DOMAIN SplitPath(path) : ~ IsParam(SplitPath(path)[i])}
  <2>1. IsFiniteSet(1 .. n) /\ Cardinality(1 .. n) = n
    BY <1>1, FS_Interval
  <2>2. static \in SUBSET (1 .. n)
    BY <1>2
  <2>3. Cardinality(static) \in Nat /\ Cardinality(static) <= n
    BY <1>1, <2>1, <2>2, FS_Subset, FS_CardinalityType
  <2> QED
    BY <1>1, <2>3 DEF StaticCount
<1> QED
  BY <1>1, <1>2, <1>3, <1>4

\* match answers with a candidate that no other candidate beats (most static
\* segments, then first in the table) whenever there is a candidate at all.
THEOREM MatchIsPreferred ==
  ASSUME NEW endpoints,
         \A i \in DOMAIN endpoints : endpoints[i].path \in Paths,
         NEW active \in SUBSET Nat, active \subseteq DOMAIN endpoints, 0 \notin active,
         NEW method, NEW path \in Paths
  PROVE  LET found == Candidates(endpoints, active, method, path)
             i     == Match(endpoints, active, method, path)
         IN  /\ found = {} => i = NoMatch
             /\ found # {} => /\ i \in found
                              /\ i # NoMatch
                              /\ \A j \in found : Preferred(endpoints, i, j)
<1> DEFINE found == Candidates(endpoints, active, method, path)
           static(i) == StaticCount(SplitPath(endpoints[i].path))
           n == Len(SplitPath(path))
<1>1. CASE found = {}
  BY <1>1 DEF Match
<1>2. CASE found # {}
  <2>1. found \in SUBSET Nat /\ found \subseteq DOMAIN endpoints /\ 0 \notin found
    BY DEF Candidates
  <2>2. n \in Nat
    BY SplitPathLength
  <2>3. \A i \in found : static(i) \in 0 .. n
    <3> SUFFICES ASSUME NEW i \in found PROVE static(i) \in 0 .. n
      OBVIOUS
    <3>1. endpoints[i].path \in Paths
      BY <2>1
    <3>2. Len(SplitPath(endpoints[i].path)) = n
      BY DEF Candidates, MatchSegments
    <3> QED
      BY <3>1, <3>2, SplitPathLength
  <2> DEFINE gaps == {n - static(i) : i \in found}
  <2>4. gaps \in SUBSET Nat /\ gaps # {}
    BY <1>2, <2>2, <2>3
  <2>5. PICK gap \in gaps : \A g \in gaps : gap <= g
    BY <2>4, LeastExists
  <2> DEFINE most == {i \in found : n - static(i) = gap}
  <2>6. most \in SUBSET Nat /\ most # {}
    BY <2>1, <2>5
  <2>7. PICK i \in most : \A j \in most : i <= j
    BY <2>6, LeastExists
  <2>8. \A j \in found : Preferred(endpoints, i, j)
    <3> SUFFICES ASSUME NEW j \in found PROVE Preferred(endpoints, i, j)
      OBVIOUS
    <3>1. static(i) \in 0 .. n /\ static(j) \in 0 .. n
      BY <2>3, <2>7
    <3>2. n - static(i) <= n - static(j)
      BY <2>5, <2>7
    <3>3. CASE static(i) > static(j)
      BY <3>3 DEF Preferred
    <3>4. CASE static(i) = static(j)
      <4>1. j \in most
        BY <2>7, <3>4
      <4> QED
        BY <2>7, <3>4, <4>1 DEF Preferred
    <3> QED
      BY <2>2, <3>1, <3>2, <3>3, <3>4
  <2>9. \E k \in found : \A j \in found : Preferred(endpoints, k, j)
    BY <2>7, <2>8
  <2>10. Match(endpoints, active, method, path)
           = CHOOSE k \in found : \A j \in found : Preferred(endpoints, k, j)
    BY <1>2 DEF Match
  <2> QED
    BY <1>2, <2>1, <2>9, <2>10 DEF NoMatch
<1> QED
  BY <1>1, <1>2

----------------------------------------------------------------------------
(* Ranks: what the code makes with a filter or with sort() is read off the *)
(* number of elements up to each.                                          *)

UpTo(S, R, i) == {j \in S : j = i \/ <<j, i>> \in R}

\* In a finite set with a strict total order, every rank from 1 to the size of the
\* set is taken, and a greater element has a greater rank.
LEMMA Ranks ==
  ASSUME NEW S, IsFiniteSet(S), NEW R,
         \A i \in S : <<i, i>> \notin R,
         \A i, j, k \in S : <<i, j>> \in R /\ <<j, k>> \in R => <<i, k>> \in R,
         \A i, j \in S : i # j => <<i, j>> \in R \/ <<j, i>> \in R
  PROVE  /\ Cardinality(S) \in Nat
         /\ \A i \in S : Cardinality(UpTo(S, R, i)) \in 1 .. Cardinality(S)
         /\ \A i, j \in S :
              <<i, j>> \in R => Cardinality(UpTo(S, R, i)) < Cardinality(UpTo(S, R, j))
         /\ \A k \in 1 .. Cardinality(S) : \E i \in S : Cardinality(UpTo(S, R, i)) = k
<1> DEFINE n == Cardinality(S)
           rank == [i \in S |-> Cardinality(UpTo(S, R, i))]
<1>1. n \in Nat
  BY FS_CardinalityType
<1>2. \A i \in S : /\ IsFiniteSet(UpTo(S, R, i))
                   /\ Cardinality(UpTo(S, R, i)) \in 1 .. n
  <2> SUFFICES ASSUME NEW i \in S
               PROVE  /\ IsFiniteSet(UpTo(S, R, i))
                      /\ Cardinality(UpTo(S, R, i)) \in 1 .. n
    OBVIOUS
  <2>1. UpTo(S, R, i) \in SUBSET S /\ UpTo(S, R, i) # {}
    BY DEF UpTo
  <2>2. /\ IsFiniteSet(UpTo(S, R, i))
        /\ Cardinality(UpTo(S, R, i)) <= n
    BY <2>1, FS_Subset
  <2>3. Cardinality(UpTo(S, R, i)) \in Nat /\ Cardinality(UpTo(S, R, i)) # 0
    BY <2>1, <2>2, FS_CardinalityType, FS_EmptySet
  <2> QED
    BY <1>1, <2>2, <2>3
<1>3. \A i, j \in S :
        <<i, j>> \in R => Cardinality(UpTo(S, R, i)) < Cardinality(UpTo(S, R, j))
  <2> SUFFICES ASSUME NEW i \in S, NEW j \in S, <<i, j>> \in R
               PROVE  Cardinality(UpTo(S, R, i)) < Cardinality(UpTo(S, R, j))
    OBVIOUS
  <2>1. UpTo(S, R, i) \in SUBSET UpTo(S, R, j)
    BY DEF UpTo
  <2>2. UpTo(S, R, i) # UpTo(S, R, j)
    BY DEF UpTo
  <2>3. /\ Cardinality(UpTo(S, R, i)) <= Cardinality(UpTo(S, R, j))
        /\ Cardinality(UpTo(S, R, j)) # Cardinality(UpTo(S, R, i))
    BY <1>2, <2>1, <2>2, FS_Subset
  <2> QED
    BY <1>1, <1>2, <2>3
<1>4. rank \in Injection(S, 1 .. n)
  <2>1. rank \in [S -> 1 .. n]
    BY <1>2
  <2>2. ASSUME NEW i \in S, NEW j \in S, rank[i] = rank[j] PROVE i = j
    <3>1. Cardinality(UpTo(S, R, i)) = Cardinality(UpTo(S, R, j))
      BY <2>2
    <3>2. Cardinality(UpTo(S, R, i)) \in Int
      BY <1>1, <1>2
    <3>3. <<i, j>> \notin R /\ <<j, i>> \notin R
      <4> HIDE DEF rank
      <4> QED
        BY <1>3, <3>1, <3>2
    <3> QED
      BY <3>3
  <2> QED
    BY <2>1, <2>2 DEF Injection, IsInjective
<1>5. IsFiniteSet(1 .. n) /\ Cardinality(1 .. n) = n
  BY <1>1, FS_Interval
<1>6. rank \in Surjection(S, 1 .. n)
  BY <1>4, <1>5, FS_Injection
<1>7. \A k \in 1 .. n : \E i \in S : rank[i] = k
  BY <1>6 DEF Surjection
<1> QED
  BY <1>1, <1>2, <1>3, <1>7

\* The k-th of a set of positions, as SplitPath finds it.
LEMMA KthPosition ==
  ASSUME NEW n \in Nat, NEW kept \in SUBSET (1 .. n)
  PROVE  LET rank(i) == Cardinality({j \in kept : j <= i})
             kth(k)  == CHOOSE i \in kept : rank(i) = k
         IN  /\ Cardinality(kept) \in Nat
             /\ \A k \in 1 .. Cardinality(kept) : kth(k) \in kept /\ rank(kth(k)) = k
             /\ \A i \in kept : rank(i) \in 1 .. Cardinality(kept) /\ kth(rank(i)) = i
<1> DEFINE rank(i) == Cardinality({j \in kept : j <= i})
           kth(k)  == CHOOSE i \in kept : rank(i) = k
           R == {p \in kept \X kept : p[1] < p[2]}
<1>1. IsFiniteSet(kept)
  <2>1. IsFiniteSet(1 .. n)
    BY FS_Interval
  <2> QED
    BY <2>1, FS_Subset
<1>2. \A i, j \in kept : i \in Nat /\ j \in Nat /\ (<<i, j>> \in R <=> i < j)
  OBVIOUS
<1> HIDE DEF R
<1>3. \A i \in kept : UpTo(kept, R, i) = {j \in kept : j <= i}
  <2> SUFFICES ASSUME NEW i \in kept, NEW j \in kept
               PROVE  j = i \/ <<j, i>> \in R <=> j <= i
    BY DEF UpTo
  <2> QED
    BY <1>2
<1>4. /\ Cardinality(kept) \in Nat
      /\ \A i \in kept : Cardinality(UpTo(kept, R, i)) \in 1 .. Cardinality(kept)
      /\ \A i, j \in kept :
           <<i, j>> \in R => Cardinality(UpTo(kept, R, i)) < Cardinality(UpTo(kept, R, j))
      /\ \A k \in 1 .. Cardinality(kept) : \E i \in kept : Cardinality(UpTo(kept, R, i)) = k
  <2>1. \A i \in kept : <<i, i>> \notin R
    BY <1>2
  <2>2. \A i, j, k \in kept : <<i, j>> \in R /\ <<j, k>> \in R => <<i, k>> \in R
    BY <1>2
  <2>3. \A i, j \in kept : i # j => <<i, j>> \in R \/ <<j, i>> \in R
    BY <1>2
  <2> QED
    BY <1>1, <2>1, <2>2, <2>3, Ranks
<1>5. \A i, j \in kept : rank(i) = rank(j) => i = j
  <2> SUFFICES ASSUME NEW i \in kept, NEW j \in kept, rank(i) = rank(j) PROVE i = j
    OBVIOUS
  <2>1. rank(i) = Cardinality(UpTo(kept, R, i)) /\ rank(j) = Cardinality(UpTo(kept, R, j))
    BY <1>3
  <2>2. Cardinality(UpTo(kept, R, i)) \in Int /\ Cardinality(UpTo(kept, R, j)) \in Int
    BY <1>4
  <2> DEFINE c(x) == Cardinality(UpTo(kept, R, x))
  <2>3. c(i) = c(j)
    BY <2>1
  <2>4. <<i, j>> \notin R /\ <<j, i>> \notin R
    <3>1. <<i, j>> \in R => c(i) < c(j)
      BY <1>4
    <3>2. <<j, i>> \in R => c(j) < c(i)
      BY <1>4
    <3> HIDE DEF c
    <3> QED
      BY <2>2, <2>3, <3>1, <3>2 DEF c
  <2> QED
    BY <1>2, <2>4
<1>6. \A k \in 1 .. Cardinality(kept) : kth(k) \in kept /\ rank(kth(k)) = k
  BY <1>3, <1>4
<1>7. \A i \in kept : rank(i) \in 1 .. Cardinality(kept)
  BY <1>3, <1>4
<1>8. \A i \in kept : kth(rank(i)) = i
  BY <1>5, <1>6, <1>7
<1> QED
  BY <1>4, <1>6, <1>7, <1>8

----------------------------------------------------------------------------
(* Equal signatures split alike.                                           *)

\* A normalised path is a prefix of the path that has all its filled segments.
LEMMA NormalizedIsPrefix ==
  ASSUME NEW path \in Paths
  PROVE  /\ NormalizePath(path) \in Paths
         /\ \E last \in 0 .. Len(path) :
              /\ NormalizePath(path) = SubSeq(path, 1, last)
              /\ \A i \in DOMAIN path : path[i] # Empty => i <= last
<1> DEFINE filled == {i \in DOMAIN path : path[i] # Empty}
           last   == CHOOSE i \in filled : \A j \in filled : j <= i
<1>1. DOMAIN path = 1 .. Len(path) /\ Len(path) \in Nat
  BY LenProperties DEF Paths
<1>2. \A m \in 0 .. Len(path) : SubSeq(path, 1, m) \in Paths
  BY <1>1, SubSeqProperties, ElementOfSeq DEF Paths
<1>3. CASE filled = {}
  <2>1. NormalizePath(path) = << >>
    BY <1>3 DEF NormalizePath
  <2>2. SubSeq(path, 1, 0) = << >>
    BY SubSeqEmpty
  <2>3. \A i \in DOMAIN path : path[i] # Empty => i <= 0
    BY <1>3
  <2>4. 0 \in 0 .. Len(path)
    BY <1>1
  <2>5. << >> \in Paths
    BY DEF Paths
  <2> QED
    BY <2>1, <2>2, <2>3, <2>4, <2>5
<1>4. CASE filled # {}
  <2>1. filled \in SUBSET (1 .. Len(path))
    BY <1>1
  <2>2. \E i \in filled : \A j \in filled : j <= i
    BY <1>1, <1>4, <2>1, GreatestExists
  <2>3. last \in filled /\ \A j \in filled : j <= last
    BY <2>2
  <2>4. NormalizePath(path) = SubSeq(path, 1, last)
    BY <1>4 DEF NormalizePath
  <2>5. last \in 0 .. Len(path) /\ \A i \in DOMAIN path : path[i] # Empty => i <= last
    BY <1>1, <2>1, <2>3
  <2> HIDE DEF last
  <2> QED
    BY <1>2, <2>4, <2>5
<1> QED
  BY <1>3, <1>4

\* Normalising and cutting the query commute.
LEMMA CutOfNormalized ==
  ASSUME NEW path \in Paths, NEW last \in 0 .. Len(path),
         \A i \in DOMAIN path : path[i] # Empty => i <= last
  PROVE  LET cut   == PathWithoutQuery(path)
             short == PathWithoutQuery(SubSeq(path, 1, last))
             kept(s) == {i \in DOMAIN s : s[i] # Empty}
         IN  kept(short) = kept(cut) /\ \A i \in kept(cut) : short[i] = cut[i]
<1> DEFINE prefix == SubSeq(path, 1, last)
           marked(s) == {i \in DOMAIN s : BeforeQuery[s[i]] # s[i]}
           first(s)  == CHOOSE i \in marked(s) : \A j \in marked(s) : i <= j
<1>1. DOMAIN path = 1 .. Len(path) /\ Len(path) \in Nat /\ \A i \in 1 .. Len(path) : path[i] \in RawSegments
  BY LenProperties, ElementOfSeq DEF Paths
<1>2. /\ DOMAIN prefix = 1 .. last
      /\ \A i \in 1 .. last : prefix[i] = path[i]
      /\ prefix \in Seq(RawSegments) /\ Len(prefix) = last
  BY <1>1, SubSeqProperties DEF Paths
<1>3. marked(prefix) = marked(path)
  <2>1. \A i \in marked(path) : i <= last
    BY <1>1, SegmentAssumption
  <2> QED
    BY <1>1, <1>2, <2>1
<1>4. CASE marked(path) = {}
  <2>1. PathWithoutQuery(path) = path /\ PathWithoutQuery(prefix) = prefix
    BY <1>3, <1>4 DEF PathWithoutQuery
  <2> QED
    BY <1>1, <1>2, <2>1
<1>5. CASE marked(path) # {}
  <2>1. first(prefix) = first(path)
    BY <1>3
  <2>2. first(path) \in marked(path)
    <3>1. \E i \in marked(path) : \A j \in marked(path) : i <= j
      <4>1. marked(path) \in SUBSET Nat
        BY <1>1
      <4> HIDE DEF marked
      <4> QED
        BY <4>1, <1>5, LeastExists
    <3> QED
      BY <3>1
  <2>3. first(path) \in 1 .. last
    BY <1>2, <1>3, <2>2
  <2> DEFINE f == first(path)
  <2>4. /\ PathWithoutQuery(path) = Append(SubSeq(path, 1, f - 1), BeforeQuery[path[f]])
        /\ PathWithoutQuery(prefix) = Append(SubSeq(prefix, 1, f - 1), BeforeQuery[prefix[f]])
    BY <1>3, <1>5, <2>1 DEF PathWithoutQuery
  <2> HIDE DEF f
  <2>5. SubSeq(prefix, 1, f - 1) = SubSeq(path, 1, f - 1)
    <3>1. f \in 1 .. last
      BY <2>3 DEF f
    <3> QED
      BY <1>1, <1>2, <3>1, SubSeqProperties DEF Paths
  <2>6. PathWithoutQuery(prefix) = PathWithoutQuery(path)
    BY <1>2, <2>3, <2>4, <2>5 DEF f
  <2> QED
    BY <2>6
<1> QED
  BY <1>4, <1>5

\* Paths with one normal form (equal signatures) split into the same segments, so
\* the route matcher cannot tell them apart.
THEOREM NormalizedSplitsAlike ==
  ASSUME NEW path \in Paths
  PROVE  SplitPath(NormalizePath(path)) = SplitPath(path)
<1>1. PICK last \in 0 .. Len(path) :
        /\ NormalizePath(path) = SubSeq(path, 1, last)
        /\ \A i \in DOMAIN path : path[i] # Empty => i <= last
  BY NormalizedIsPrefix
<1> DEFINE cut   == PathWithoutQuery(path)
           short == PathWithoutQuery(NormalizePath(path))
           kept  == {i \in DOMAIN cut : cut[i] # Empty}
           kept2 == {i \in DOMAIN short : short[i] # Empty}
           kth(k)  == CHOOSE i \in kept : Cardinality({j \in kept : j <= i}) = k
           kth2(k) == CHOOSE i \in kept2 : Cardinality({j \in kept2 : j <= i}) = k
<1>2. kept2 = kept /\ \A i \in kept : short[i] = cut[i]
  BY <1>1, CutOfNormalized
<1>3. kept \in SUBSET (1 .. Len(cut)) /\ Len(cut) \in Nat
  BY WithoutQueryIsPath, LenProperties DEF Paths
<1>4. \A k \in 1 .. Cardinality(kept) : kth(k) \in kept
  <2> HIDE DEF kept
  <2> QED
    BY <1>3, KthPosition
<1>5. SplitPath(path) = [k \in 1 .. Cardinality(kept) |-> Unquote[cut[kth(k)]]]
  BY DEF SplitPath
<1>6. SplitPath(NormalizePath(path)) = [k \in 1 .. Cardinality(kept) |-> Unquote[short[kth(k)]]]
  <2>1. SplitPath(NormalizePath(path))
          = [k \in 1 .. Cardinality(kept2) |-> Unquote[short[kth2(k)]]]
    BY DEF SplitPath
  <2> HIDE DEF kept2, kept
  <2> QED
    BY <1>2, <2>1
<1> HIDE DEF kth, kth2, kept, kept2, cut, short
<1>7. \A k \in 1 .. Cardinality(kept) : short[kth(k)] = cut[kth(k)]
  BY <1>2, <1>4
<1> QED
  BY <1>5, <1>6, <1>7

--------------------------------------------------------------------------------
\* The writes of the repository.

\* The lists hold what they should, and no identifier from n on is in use.
Sound(r, n) == r \in RepositoryType /\ Integral(r) /\ IdsBelow(r, n)

\* A list t is the list s with e put at the end.
Extends(t, s, e) ==
  /\ \A i \in DOMAIN s : i \in DOMAIN t /\ t[i] = s[i]
  /\ Len(s) + 1 \in DOMAIN t /\ t[Len(s) + 1] = e
  /\ \A i \in DOMAIN t : i \in DOMAIN s \/ i = Len(s) + 1
  /\ Len(s) + 1 \notin DOMAIN s

\* Append, position by position.
LEMMA AppendExtends ==
  ASSUME NEW S, NEW s \in Seq(S), NEW e
  PROVE  Extends(Append(s, e), s, e)
<1>1. DOMAIN s = 1 .. Len(s) /\ Len(s) \in Nat
  BY LenProperties
<1>2. /\ DOMAIN Append(s, e) = 1 .. Len(s) + 1
      /\ \A i \in 1 .. Len(s) : Append(s, e)[i] = s[i]
      /\ Append(s, e)[Len(s) + 1] = e
  BY AppendProperties
<1> QED
  BY <1>1, <1>2 DEF Extends

\* The elements of a list have the type of the list.
LEMMA Elements ==
  ASSUME NEW S, NEW s \in Seq(S)
  PROVE  \A i \in DOMAIN s : s[i] \in S
BY LenProperties, ElementOfSeq

\* A list of records with distinct identifiers takes one with a new identifier.
LEMMA ExtendDistinct ==
  ASSUME NEW s, NEW t, NEW e, Extends(t, s, e),
         DistinctIds(s), \A i \in DOMAIN s : s[i].id # e.id
  PROVE  DistinctIds(t)
BY DEF DistinctIds, Extends

\* An endpoint keeps its one default response when a response of another
\* endpoint, or one that is not a default, is added.
LEMMA DefaultKept ==
  ASSUME NEW r, NEW t, NEW response, NEW endpoint_id,
         Extends(t.responses, r.responses, response), HasOneDefault(r, endpoint_id),
         response.endpoint_id # endpoint_id \/ ~ response.is_default
  PROVE  HasOneDefault(t, endpoint_id)
BY DEF HasOneDefault, Extends

\* A new endpoint gets its one default response.
LEMMA DefaultAdded ==
  ASSUME NEW r, NEW t, NEW response, NEW endpoint_id,
         Extends(t.responses, r.responses, response),
         response.endpoint_id = endpoint_id, response.is_default,
         \A i \in DOMAIN r.responses : r.responses[i].endpoint_id # endpoint_id
  PROVE  HasOneDefault(t, endpoint_id)
BY DEF HasOneDefault, Extends

\* A rule keeps its target when responses are added.
LEMMA TargetKept ==
  ASSUME NEW r, NEW t, NEW response, NEW rule,
         Extends(t.responses, r.responses, response), HasTarget(r, rule)
  PROVE  HasTarget(t, rule)
BY DEF HasTarget, Extends

\* Owners stay when endpoints are added, and a new endpoint is an owner.
LEMMA OwnerKept ==
  ASSUME NEW r, NEW t, NEW endpoint, Extends(t.endpoints, r.endpoints, endpoint),
         NEW endpoint_id, HasOwner(r, endpoint_id) \/ endpoint.id = endpoint_id
  PROVE  HasOwner(t, endpoint_id)
BY DEF HasOwner, Extends

\* What Sound says of the identifiers, record by record.
LEMMA SoundIds ==
  ASSUME NEW r, NEW n \in Nat, Sound(r, n)
  PROVE  /\ \A i \in DOMAIN r.endpoints : r.endpoints[i].id \in Nat /\ r.endpoints[i].id < n
         /\ \A i \in DOMAIN r.responses :
              /\ r.responses[i].id \in Nat /\ r.responses[i].id < n
              /\ r.responses[i].endpoint_id \in Nat /\ r.responses[i].endpoint_id < n
         /\ \A i \in DOMAIN r.delays :
              r.delays[i].endpoint_id \in Nat /\ r.delays[i].endpoint_id < n
<1>1. /\ \A i \in DOMAIN r.endpoints : r.endpoints[i] \in Endpoint
      /\ \A i \in DOMAIN r.responses : r.responses[i] \in Response
      /\ \A i \in DOMAIN r.delays : r.delays[i] \in Delay
  BY Elements DEF Sound, RepositoryType
<1> QED
  BY <1>1 DEF Sound, IdsBelow, Endpoint, Response, Delay

\* create_endpoint leaves a repository sound, given two new identifiers.
THEOREM CreateEndpointSound ==
  ASSUME NEW r, NEW n \in Nat, Sound(r, n), NEW project \in Projects,
         NEW request \in EndpointCreateRequest
  PROVE  Sound(CreateEndpoint(r, project, request, n, n + 1), n + 2)
<1> DEFINE endpoint == [id |-> n, project_id |-> project, path |-> request.path,
                        method |-> request.method, is_active |-> request.is_active]
           response == [id |-> n + 1, endpoint_id |-> n, status_code |-> request.status_code,
                        is_default |-> TRUE, echo |-> request.echo]
           delay    == [endpoint_id |-> n, delay_ms |-> request.delay_ms,
                        mode |-> request.delay_mode]
           t        == CreateEndpoint(r, project, request, n, n + 1)
<1>1. /\ r.endpoints \in Seq(Endpoint) /\ r.responses \in Seq(Response)
      /\ r.rules \in Seq(Rule) /\ r.delays \in Seq(Delay)
  BY DEF Sound, RepositoryType
<1>2. /\ t.endpoints = Append(r.endpoints, endpoint)
      /\ t.responses = Append(r.responses, response)
      /\ t.rules = r.rules
      /\ t.delays = IF request.delay_ms = 0 THEN r.delays ELSE Append(r.delays, delay)
  BY DEF CreateEndpoint
<1>3. endpoint \in Endpoint /\ response \in Response /\ delay \in Delay
  BY DEF EndpointCreateRequest, Endpoint, Response, Delay
<1>4. /\ endpoint.id = n
      /\ response.id = n + 1 /\ response.endpoint_id = n /\ response.is_default
      /\ delay.endpoint_id = n
  OBVIOUS
<1>5. t \in RepositoryType
  <2>1. /\ Append(r.endpoints, endpoint) \in Seq(Endpoint)
        /\ Append(r.responses, response) \in Seq(Response)
        /\ Append(r.delays, delay) \in Seq(Delay)
    BY <1>1, <1>3, AppendProperties
  <2> QED
    BY <1>1, <2>1 DEF CreateEndpoint, RepositoryType
<1> HIDE DEF endpoint, response, delay, t
<1>6. /\ Extends(t.endpoints, r.endpoints, endpoint)
      /\ Extends(t.responses, r.responses, response)
  BY <1>1, <1>2, AppendExtends
<1>7. (request.delay_ms = 0 /\ t.delays = r.delays) \/ Extends(t.delays, r.delays, delay)
  BY <1>1, <1>2, AppendExtends
<1>8. /\ DistinctIds(r.endpoints) /\ DistinctIds(r.responses) /\ OneDelay(r)
      /\ \A i \in DOMAIN r.endpoints : HasOneDefault(r, r.endpoints[i].id)
      /\ \A i \in DOMAIN r.rules : HasTarget(r, r.rules[i])
      /\ \A i \in DOMAIN r.responses : HasOwner(r, r.responses[i].endpoint_id)
      /\ \A i \in DOMAIN r.delays : HasOwner(r, r.delays[i].endpoint_id)
  BY DEF Sound, Integral
<1>9. /\ \A i \in DOMAIN r.endpoints : r.endpoints[i].id < n /\ r.endpoints[i].id # n
      /\ \A i \in DOMAIN r.responses : /\ r.responses[i].id < n /\ r.responses[i].id # n + 1
                                       /\ r.responses[i].endpoint_id < n
                                       /\ r.responses[i].endpoint_id # n
      /\ \A i \in DOMAIN r.delays : r.delays[i].endpoint_id < n /\ r.delays[i].endpoint_id # n
  BY SoundIds
<1>10. Integral(t)
  <2>1. DistinctIds(t.endpoints)
    BY <1>4, <1>6, <1>8, <1>9, ExtendDistinct
  <2>2. DistinctIds(t.responses)
    BY <1>4, <1>6, <1>8, <1>9, ExtendDistinct
  <2>3. ASSUME NEW i \in DOMAIN t.endpoints
        PROVE  HasOneDefault(t, t.endpoints[i].id)
    <3>1. CASE i \in DOMAIN r.endpoints
      <4>1. t.endpoints[i].id = r.endpoints[i].id /\ r.endpoints[i].id # response.endpoint_id
        BY <1>4, <1>6, <1>9, <3>1 DEF Extends
      <4> QED
        BY <1>6, <1>8, <3>1, <4>1, DefaultKept
    <3>2. CASE i = Len(r.endpoints) + 1
      <4>1. t.endpoints[i].id = n
        BY <1>4, <1>6, <3>2 DEF Extends
      <4> QED
        BY <1>4, <1>6, <1>9, <4>1, DefaultAdded
    <3> QED
      BY <1>6, <3>1, <3>2 DEF Extends
  <2>4. ASSUME NEW i \in DOMAIN t.rules
        PROVE  HasTarget(t, t.rules[i])
    BY <1>2, <1>6, <1>8, TargetKept
  <2>5. OneDelay(t)
    BY <1>4, <1>7, <1>8, <1>9 DEF OneDelay, Extends
  <2>6. ASSUME NEW i \in DOMAIN t.responses
        PROVE  HasOwner(t, t.responses[i].endpoint_id)
    <3>1. \/ i \in DOMAIN r.responses /\ t.responses[i].endpoint_id = r.responses[i].endpoint_id
          \/ t.responses[i].endpoint_id = endpoint.id
      BY <1>4, <1>6 DEF Extends
    <3> QED
      BY <1>6, <1>8, <3>1, OwnerKept
  <2>7. ASSUME NEW i \in DOMAIN t.delays
        PROVE  HasOwner(t, t.delays[i].endpoint_id)
    <3>1. \/ i \in DOMAIN r.delays /\ t.delays[i].endpoint_id = r.delays[i].endpoint_id
          \/ t.delays[i].endpoint_id = endpoint.id
      BY <1>4, <1>7 DEF Extends
    <3> QED
      BY <1>6, <1>8, <3>1, OwnerKept
  <2> QED
    BY <2>1, <2>2, <2>3, <2>4, <2>5, <2>6, <2>7 DEF Integral
<1>11. IdsBelow(t, n + 2)
  <2>1. \A i \in DOMAIN t.endpoints : t.endpoints[i].id = n \/ t.endpoints[i].id < n
    BY <1>4, <1>6, <1>9 DEF Extends
  <2>2. \A i \in DOMAIN t.responses :
          /\ t.responses[i].id = n + 1 \/ t.responses[i].id < n
          /\ t.responses[i].endpoint_id = n \/ t.responses[i].endpoint_id < n
    BY <1>4, <1>6, <1>9 DEF Extends
  <2>3. \A i \in DOMAIN t.delays : t.delays[i].endpoint_id = n \/ t.delays[i].endpoint_id < n
    BY <1>4, <1>7, <1>9 DEF Extends
  <2>4. /\ \A i \in DOMAIN t.endpoints : t.endpoints[i].id \in Nat
        /\ \A i \in DOMAIN t.responses :
             t.responses[i].id \in Nat /\ t.responses[i].endpoint_id \in Nat
        /\ \A i \in DOMAIN t.delays : t.delays[i].endpoint_id \in Nat
    <3>1. /\ \A i \in DOMAIN t.endpoints : t.endpoints[i] \in Endpoint
          /\ \A i \in DOMAIN t.responses : t.responses[i] \in Response
          /\ \A i \in DOMAIN t.delays : t.delays[i] \in Delay
      BY <1>5, Elements DEF RepositoryType
    <3> QED
      BY <3>1 DEF Endpoint, Response, Delay
  <2>5. \A i \in DOMAIN t.endpoints : t.endpoints[i].id < n + 2
    BY <2>1, <2>4
  <2>6. \A i \in DOMAIN t.responses :
          t.responses[i].id < n + 2 /\ t.responses[i].endpoint_id < n + 2
    BY <2>2, <2>4
  <2>7. \A i \in DOMAIN t.delays : t.delays[i].endpoint_id < n + 2
    BY <2>3, <2>4
  <2> QED
    BY <2>5, <2>6, <2>7 DEF IdsBelow
<1> QED
  BY <1>5, <1>10, <1>11 DEF Sound, t

\* create_rule leaves a repository sound, for an endpoint the repository has and
\* a new identifier of the response.
THEOREM CreateRuleSound ==
  ASSUME NEW r, NEW n \in Nat, Sound(r, n), NEW project, NEW endpoint_id,
         EndpointExists(r, project, endpoint_id), NEW request \in RuleCreateRequest
  PROVE  Sound(CreateRule(r, endpoint_id, request, n), n + 1)
<1> DEFINE response == [id |-> n, endpoint_id |-> endpoint_id,
                        status_code |-> request.status_code, is_default |-> FALSE,
                        echo |-> request.echo]
           rule     == [endpoint_id |-> endpoint_id,
                        condition_type |-> request.condition_type, field |-> request.field,
                        operator |-> request.operator, value |-> request.value, action |-> n]
           t        == CreateRule(r, endpoint_id, request, n)
<1>1. /\ r.endpoints \in Seq(Endpoint) /\ r.responses \in Seq(Response)
      /\ r.rules \in Seq(Rule) /\ r.delays \in Seq(Delay)
  BY DEF Sound, RepositoryType
<1>2. /\ t.endpoints = r.endpoints
      /\ t.responses = Append(r.responses, response)
      /\ t.rules = Append(r.rules, rule)
      /\ t.delays = r.delays
  BY DEF CreateRule
<1>3. endpoint_id \in Nat /\ endpoint_id < n
  BY SoundIds DEF EndpointExists
<1>4. response \in Response /\ rule \in Rule
  BY <1>3 DEF RuleCreateRequest, Response, Rule
<1>5. /\ response.id = n /\ response.endpoint_id = endpoint_id /\ ~ response.is_default
      /\ rule.endpoint_id = endpoint_id /\ rule.action = n
  OBVIOUS
<1>6. t \in RepositoryType
  <2>1. Append(r.responses, response) \in Seq(Response) /\ Append(r.rules, rule) \in Seq(Rule)
    BY <1>1, <1>4, AppendProperties
  <2> QED
    BY <1>1, <2>1 DEF CreateRule, RepositoryType
<1> HIDE DEF response, rule, t
<1>7. Extends(t.responses, r.responses, response) /\ Extends(t.rules, r.rules, rule)
  BY <1>1, <1>2, AppendExtends
<1>8. /\ DistinctIds(r.endpoints) /\ DistinctIds(r.responses) /\ OneDelay(r)
      /\ \A i \in DOMAIN r.endpoints : HasOneDefault(r, r.endpoints[i].id)
      /\ \A i \in DOMAIN r.rules : HasTarget(r, r.rules[i])
      /\ \A i \in DOMAIN r.responses : HasOwner(r, r.responses[i].endpoint_id)
      /\ \A i \in DOMAIN r.delays : HasOwner(r, r.delays[i].endpoint_id)
  BY DEF Sound, Integral
<1>9. Integral(t)
  <2>1. DistinctIds(t.responses)
    <3>1. \A i \in DOMAIN r.responses : r.responses[i].id # n
      BY SoundIds
    <3> QED
      BY <1>5, <1>7, <1>8, <3>1, ExtendDistinct
  <2>2. \A i \in DOMAIN t.endpoints : HasOneDefault(t, t.endpoints[i].id)
    BY <1>2, <1>5, <1>7, <1>8, DefaultKept
  <2>3. ASSUME NEW i \in DOMAIN t.rules
        PROVE  HasTarget(t, t.rules[i])
    <3>1. CASE i \in DOMAIN r.rules
      <4>1. t.rules[i] = r.rules[i]
        BY <1>7, <3>1 DEF Extends
      <4> QED
        BY <1>7, <1>8, <3>1, <4>1, TargetKept
    <3>2. CASE i = Len(r.rules) + 1
      BY <1>5, <1>7, <3>2 DEF Extends, HasTarget
    <3> QED
      BY <1>7, <3>1, <3>2 DEF Extends
  <2>4. HasOwner(r, endpoint_id)
    BY DEF EndpointExists, HasOwner
  <2>5. ASSUME NEW i \in DOMAIN t.responses
        PROVE  HasOwner(t, t.responses[i].endpoint_id)
    <3>1. \/ i \in DOMAIN r.responses /\ t.responses[i].endpoint_id = r.responses[i].endpoint_id
          \/ t.responses[i].endpoint_id = endpoint_id
      BY <1>5, <1>7 DEF Extends
    <3>2. HasOwner(r, t.responses[i].endpoint_id)
      BY <1>8, <2>4, <3>1
    <3> QED
      BY <1>2, <3>2 DEF HasOwner
  <2>6. \A i \in DOMAIN t.delays : HasOwner(t, t.delays[i].endpoint_id)
    BY <1>2, <1>8 DEF HasOwner
  <2> QED
    BY <1>2, <1>8, <2>1, <2>2, <2>3, <2>5, <2>6 DEF Integral, OneDelay
<1>10. IdsBelow(t, n + 1)
  <2>1. \A i \in DOMAIN t.responses :
          t.responses[i].id \in 0 .. n /\ t.responses[i].endpoint_id \in 0 .. n
    <3>1. \A i \in DOMAIN r.responses :
            r.responses[i].id \in 0 .. n /\ r.responses[i].endpoint_id \in 0 .. n
      BY SoundIds
    <3>2. response.id \in 0 .. n /\ response.endpoint_id \in 0 .. n
      BY <1>3, <1>5
    <3> QED
      BY <1>7, <3>1, <3>2 DEF Extends
  <2>2. \A i \in DOMAIN t.responses :
          t.responses[i].id < n + 1 /\ t.responses[i].endpoint_id < n + 1
    BY <2>1
  <2>3. /\ \A i \in DOMAIN t.endpoints : t.endpoints[i].id < n + 1
        /\ \A i \in DOMAIN t.delays : t.delays[i].endpoint_id < n + 1
    BY <1>2, SoundIds
  <2> QED
    BY <2>2, <2>3 DEF IdsBelow
<1> QED
  BY <1>6, <1>9, <1>10 DEF Sound, t

\* create_endpoint behind the signature check keeps signatures unique.
THEOREM SignaturesStayUnique ==
  ASSUME NEW r, r.endpoints \in Seq(Endpoint), UniqueSignatures(r), NEW project,
         NEW request, ~ EndpointSignatureExists(r, project, request.method, request.path),
         NEW endpoint_id, NEW response_id
  PROVE  UniqueSignatures(CreateEndpoint(r, project, request, endpoint_id, response_id))
<1> DEFINE endpoint == [id |-> endpoint_id, project_id |-> project, path |-> request.path,
                        method |-> request.method, is_active |-> request.is_active]
           t == CreateEndpoint(r, project, request, endpoint_id, response_id)
<1>1. Extends(t.endpoints, r.endpoints, endpoint)
  BY AppendExtends DEF CreateEndpoint
<1>2. /\ endpoint.project_id = project /\ endpoint.method = request.method
      /\ endpoint.path = request.path
  OBVIOUS
<1> HIDE DEF endpoint, t
<1>3. \A i \in DOMAIN r.endpoints :
        ~ SameSignature(r.endpoints[i], project, request.method, request.path)
  BY DEF EndpointSignatureExists
<1>4. \A a, b : SameSignature(a, b.project_id, b.method, b.path)
                  <=> SameSignature(b, a.project_id, a.method, a.path)
  BY DEF SameSignature
<1>5. \A i \in DOMAIN r.endpoints :
        /\ ~ SameSignature(r.endpoints[i], endpoint.project_id, endpoint.method, endpoint.path)
        /\ ~ SameSignature(endpoint, r.endpoints[i].project_id, r.endpoints[i].method,
                           r.endpoints[i].path)
  BY <1>2, <1>3, <1>4
<1>6. UniqueSignatures(t)
  BY <1>1, <1>5 DEF UniqueSignatures, Extends
<1> QED
  BY <1>6 DEF t

--------------------------------------------------------------------------------
\* The pipeline.

SelectedType == [status_code : Statuses \cup {NotFound, Unconfigured}, echo : BOOLEAN]

\* The least of a nonempty set of positions is one of them.
LEMMA LeastOfIn ==
  ASSUME NEW S, NEW s \in Seq(S), NEW T \in SUBSET DOMAIN s, T # {}
  PROVE  LeastOf(T) \in T
<1>1. T \in SUBSET Nat
  BY LenProperties
<1> QED
  BY <1>1, LeastExists DEF LeastOf

\* The selector answers with a configured response or with the placeholder.
LEMMA SelectTyped ==
  ASSUME NEW r \in RepositoryType, NEW endpoint_id, NEW action
  PROVE  Select(r, endpoint_id, action) \in SelectedType
<1> DEFINE own      == GetResponses(r, endpoint_id)
           named    == {i \in own : r.responses[i].id = action}
           defaults == {i \in own : r.responses[i].is_default}
           T        == IF named # {} THEN named ELSE defaults
<1>1. r.responses \in Seq(Response)
  BY DEF RepositoryType
<1>2. CASE named = {} /\ defaults = {}
  BY <1>2 DEF Select, Selected, SelectedType
<1>3. CASE ~ (named = {} /\ defaults = {})
  <2>1. T # {} /\ T \in SUBSET DOMAIN r.responses
    BY <1>3 DEF GetResponses
  <2>2. LeastOf(T) \in DOMAIN r.responses
    <3> HIDE DEF T
    <3> QED
      BY <1>1, <2>1, LeastOfIn
  <2>3. r.responses[LeastOf(T)] \in Response
    <3> HIDE DEF T
    <3> QED
      BY <1>1, <2>2, Elements
  <2>4. Select(r, endpoint_id, action)
          = Selected(r.responses[LeastOf(T)].status_code, r.responses[LeastOf(T)].echo)
    BY <1>3 DEF Select
  <2> HIDE DEF T
  <2> QED
    BY <2>3, <2>4 DEF Selected, SelectedType, Response
<1> QED
  BY <1>2, <1>3

\* An endpoint with a default response is answered with a response of its own.
LEMMA SelectOwn ==
  ASSUME NEW r \in RepositoryType, NEW endpoint_id, HasOneDefault(r, endpoint_id), NEW action
  PROVE  \E i \in DOMAIN r.responses :
           /\ r.responses[i].endpoint_id = endpoint_id
           /\ r.responses[i].status_code = Select(r, endpoint_id, action).status_code
<1> DEFINE own      == GetResponses(r, endpoint_id)
           named    == {i \in own : r.responses[i].id = action}
           defaults == {i \in own : r.responses[i].is_default}
           T        == IF named # {} THEN named ELSE defaults
<1>1. r.responses \in Seq(Response)
  BY DEF RepositoryType
<1>2. defaults # {}
  BY DEF HasOneDefault, GetResponses
<1>3. T # {} /\ T \in SUBSET DOMAIN r.responses /\ T \subseteq own
  BY <1>2 DEF GetResponses
<1>4. LeastOf(T) \in T
  <2> HIDE DEF T
  <2> QED
    BY <1>1, <1>3, LeastOfIn
<1>5. LeastOf(T) \in DOMAIN r.responses /\ r.responses[LeastOf(T)].endpoint_id = endpoint_id
  BY <1>3, <1>4 DEF GetResponses
<1>6. Select(r, endpoint_id, action)
        = Selected(r.responses[LeastOf(T)].status_code, r.responses[LeastOf(T)].echo)
  BY <1>2 DEF Select
<1> HIDE DEF T
<1>7. Select(r, endpoint_id, action).status_code = r.responses[LeastOf(T)].status_code
  BY <1>6 DEF Selected
<1> QED
  BY <1>5, <1>7

\* What router finds is an active endpoint of the project, with the method.
LEMMA MatchFound ==
  ASSUME NEW r \in RepositoryType, NEW project, NEW method, NEW path \in Paths,
         Match(r.endpoints, GetActiveEndpoints(r, project), method, path) # NoMatch
  PROVE  LET i == Match(r.endpoints, GetActiveEndpoints(r, project), method, path)
         IN  /\ i \in DOMAIN r.endpoints
             /\ r.endpoints[i].project_id = project
             /\ r.endpoints[i].method = method
             /\ r.endpoints[i].is_active
<1> DEFINE active == GetActiveEndpoints(r, project)
           i == Match(r.endpoints, active, method, path)
<1>1. r.endpoints \in Seq(Endpoint)
  BY DEF RepositoryType
<1>2. /\ active \in SUBSET Nat /\ active \subseteq DOMAIN r.endpoints /\ 0 \notin active
      /\ \A j \in DOMAIN r.endpoints : r.endpoints[j].path \in Paths
  <2>1. DOMAIN r.endpoints = 1 .. Len(r.endpoints) /\ Len(r.endpoints) \in Nat
    BY <1>1, LenProperties
  <2>2. \A j \in DOMAIN r.endpoints : r.endpoints[j] \in Endpoint
    BY <1>1, Elements
  <2> QED
    BY <2>1, <2>2 DEF GetActiveEndpoints, Endpoint
<1>3. i \in Candidates(r.endpoints, active, method, path)
  <2>1. i # NoMatch
    OBVIOUS
  <2> HIDE DEF active
  <2> QED
    BY <1>2, <2>1, MatchIsPreferred
<1> QED
  BY <1>2, <1>3 DEF Candidates, GetActiveEndpoints

LEMMA ResolutionFields ==
  ASSUME NEW step, NEW endpoint_id, NEW selected
  PROVE  /\ Resolution(step, endpoint_id, selected).step = step
         /\ Resolution(step, endpoint_id, selected).endpoint_id = endpoint_id
         /\ Resolution(step, endpoint_id, selected).selected = selected
BY DEF Resolution

\* Once an endpoint is found, resolve either raises or goes on with the
\* response that is selected for the endpoint.
LEMMA ResolveMatchedShape ==
  ASSUME NEW r, NEW endpoint, NEW ctx
  PROVE  LET params   == PathParams(SplitPath(endpoint.path), SplitPath(ctx.path))
             selected == Select(r, endpoint.id, RuleAction(r, endpoint.id, ctx, params))
         IN  \/ ResolveMatched(r, endpoint, ctx)
                  = Resolution("raise", endpoint.id, Selected(NotFound, FALSE))
             \/ \E step \in {"render", "sleep", "raise"} :
                  ResolveMatched(r, endpoint, ctx) = Resolution(step, endpoint.id, selected)
BY DEF ResolveMatched, DelayStep

\* Whatever resolve answers has the shape the handler relies on.
LEMMA ResolveTyped ==
  ASSUME NEW r \in RepositoryType, NEW project, NEW ctx, ctx.path \in Paths
  PROVE  /\ Resolve(r, project, ctx).step \in {"render", "sleep", "raise"}
         /\ Resolve(r, project, ctx).endpoint_id \in Nat
         /\ Resolve(r, project, ctx).selected \in SelectedType
<1> DEFINE i == Match(r.endpoints, GetActiveEndpoints(r, project), ctx.method, ctx.path)
           endpoint == r.endpoints[i]
           missing == Selected(NotFound, FALSE)
<1>0. missing \in SelectedType
  BY DEF Selected, SelectedType
<1>1. CASE i = NoMatch
  <2>1. Resolve(r, project, ctx) = Resolution("render", NoId, missing)
    BY <1>1 DEF Resolve
  <2> HIDE DEF missing
  <2> QED
    BY <1>0, <2>1, ResolutionFields DEF NoId
<1>2. CASE i # NoMatch
  <2>1. endpoint.id \in Nat
    <3>1. i \in DOMAIN r.endpoints
      BY <1>2, MatchFound
    <3>2. r.endpoints[i] \in Endpoint
      BY <3>1, Elements DEF RepositoryType
    <3> QED
      BY <3>2 DEF Endpoint
  <2>2. Resolve(r, project, ctx) = ResolveMatched(r, endpoint, ctx)
    BY <1>2 DEF Resolve
  <2> HIDE DEF endpoint
  <2>3. \E selected \in SelectedType, step \in {"render", "sleep", "raise"} :
          ResolveMatched(r, endpoint, ctx) = Resolution(step, endpoint.id, selected)
    BY <1>0, SelectTyped, ResolveMatchedShape
  <2> QED
    BY <2>1, <2>2, <2>3, ResolutionFields
<1> QED
  BY <1>1, <1>2

\* A request that resolve routes to an endpoint gets an active endpoint of its
\* own project and method, and a response configured for that endpoint.
THEOREM ResolveServesOwn ==
  ASSUME NEW r \in RepositoryType, Integral(r), NEW project, NEW ctx, ctx.path \in Paths,
         Resolve(r, project, ctx).endpoint_id # NoId,
         Resolve(r, project, ctx).step # "raise"
  PROVE  LET resolution == Resolve(r, project, ctx)
         IN  /\ \E i \in DOMAIN r.endpoints :
                  /\ r.endpoints[i].id = resolution.endpoint_id
                  /\ r.endpoints[i].project_id = project
                  /\ r.endpoints[i].method = ctx.method
                  /\ r.endpoints[i].is_active
             /\ \E i \in DOMAIN r.responses :
                  /\ r.responses[i].endpoint_id = resolution.endpoint_id
                  /\ r.responses[i].status_code = resolution.selected.status_code
<1> DEFINE i == Match(r.endpoints, GetActiveEndpoints(r, project), ctx.method, ctx.path)
           endpoint == r.endpoints[i]
           params == PathParams(SplitPath(endpoint.path), SplitPath(ctx.path))
           selected == Select(r, endpoint.id, RuleAction(r, endpoint.id, ctx, params))
           missing == Selected(NotFound, FALSE)
<1>1. i # NoMatch
  BY DEF Resolve, Resolution
<1>2. /\ i \in DOMAIN r.endpoints
      /\ endpoint.project_id = project /\ endpoint.method = ctx.method /\ endpoint.is_active
  BY <1>1, MatchFound
<1>3. Resolve(r, project, ctx) = ResolveMatched(r, endpoint, ctx)
  BY <1>1 DEF Resolve
<1>4. \E step : ResolveMatched(r, endpoint, ctx) = Resolution(step, endpoint.id, selected)
  <2>1. \/ ResolveMatched(r, endpoint, ctx) = Resolution("raise", endpoint.id, missing)
        \/ \E step : ResolveMatched(r, endpoint, ctx) = Resolution(step, endpoint.id, selected)
    <3> HIDE DEF endpoint
    <3> QED
      BY ResolveMatchedShape
  <2> HIDE DEF endpoint, selected, missing
  <2>2. Resolution("raise", endpoint.id, missing).step = "raise"
    BY ResolutionFields
  <2> QED
    BY <1>3, <2>1, <2>2
<1>5. /\ Resolve(r, project, ctx).endpoint_id = endpoint.id
      /\ Resolve(r, project, ctx).selected = selected
  <2> HIDE DEF endpoint, selected
  <2> QED
    BY <1>3, <1>4, ResolutionFields
<1>6. HasOneDefault(r, endpoint.id)
  BY <1>2 DEF Integral
<1>7. \E k \in DOMAIN r.responses :
        /\ r.responses[k].endpoint_id = endpoint.id
        /\ r.responses[k].status_code = selected.status_code
  BY <1>6, SelectOwn
<1> QED
  BY <1>2, <1>5, <1>7

\* What is selected once an endpoint is found.
SelectedFor(r, endpoint, ctx) ==
  LET params == PathParams(SplitPath(endpoint.path), SplitPath(ctx.path))
  IN  IF Raises(r.rules, GetRules(r, endpoint.id), ctx, params) THEN Selected(NotFound, FALSE)
      ELSE Select(r, endpoint.id, RuleAction(r, endpoint.id, ctx, params))

LEMMA ResolveSelected ==
  ASSUME NEW r, NEW project, NEW ctx
  PROVE  LET i == Match(r.endpoints, GetActiveEndpoints(r, project), ctx.method, ctx.path)
         IN  /\ i = NoMatch => Resolve(r, project, ctx).selected = Selected(NotFound, FALSE)
             /\ i # NoMatch =>
                  Resolve(r, project, ctx).selected = SelectedFor(r, r.endpoints[i], ctx)
<1> DEFINE i == Match(r.endpoints, GetActiveEndpoints(r, project), ctx.method, ctx.path)
           missing == Selected(NotFound, FALSE)
<1>1. \A e : ResolveMatched(r, e, ctx).selected = SelectedFor(r, e, ctx)
  <2> SUFFICES ASSUME NEW e
               PROVE  ResolveMatched(r, e, ctx).selected = SelectedFor(r, e, ctx)
    OBVIOUS
  <2> DEFINE params == PathParams(SplitPath(e.path), SplitPath(ctx.path))
             raises == Raises(r.rules, GetRules(r, e.id), ctx, params)
             delay  == DelayStep(r, e.id)
             step   == IF delay = "none" THEN "render" ELSE delay
             chosen == Select(r, e.id, RuleAction(r, e.id, ctx, params))
  <2>1. ResolveMatched(r, e, ctx)
          = IF raises THEN Resolution("raise", e.id, missing)
            ELSE Resolution(step, e.id, chosen)
    BY DEF ResolveMatched
  <2>2. SelectedFor(r, e, ctx) = IF raises THEN missing ELSE chosen
    BY DEF SelectedFor
  <2> HIDE DEF raises, step, chosen, missing
  <2> QED
    BY <2>1, <2>2, ResolutionFields
<1>2. CASE i = NoMatch
  <2>1. Resolve(r, project, ctx) = Resolution("render", NoId, missing)
    BY <1>2 DEF Resolve
  <2> HIDE DEF missing
  <2>2. Resolve(r, project, ctx).selected = missing
    BY <2>1, ResolutionFields
  <2> HIDE DEF i
  <2> QED
    BY <1>2, <2>2 DEF i, missing
<1>3. CASE i # NoMatch
  <2>1. Resolve(r, project, ctx) = ResolveMatched(r, r.endpoints[i], ctx)
    BY <1>3 DEF Resolve
  <2> HIDE DEF i
  <2> QED
    BY <1>1, <1>3, <2>1 DEF i
<1> QED
  BY <1>2, <1>3
--------------------------------------------------------------------------------
\* Configurations and their rounds.

TypedConfig(c) ==
  /\ c.endpoints \in Seq(GeneratedEndpointConfig)
  /\ c.rules \in Seq(GeneratedRuleConfig)

\* The pieces a typed configuration is made of.
LEMMA Pieces ==
  ASSUME NEW c, TypedConfig(c)
  PROVE  /\ Len(c.endpoints) \in Nat /\ Len(c.rules) \in Nat
         /\ DOMAIN c.endpoints = 1 .. Len(c.endpoints)
         /\ DOMAIN c.rules = 1 .. Len(c.rules)
         /\ \A i \in DOMAIN c.endpoints :
              /\ c.endpoints[i].key \in Keys
              /\ c.endpoints[i].endpoint \in EndpointCreateRequest
         /\ \A i \in DOMAIN c.rules :
              /\ c.rules[i].endpoint_key \in Keys
              /\ c.rules[i].rule \in RuleCreateRequest
<1>1. /\ c.endpoints \in Seq(GeneratedEndpointConfig)
      /\ c.rules \in Seq(GeneratedRuleConfig)
  BY DEF TypedConfig
<1>2. /\ \A i \in DOMAIN c.endpoints : c.endpoints[i] \in GeneratedEndpointConfig
      /\ \A i \in DOMAIN c.rules : c.rules[i] \in GeneratedRuleConfig
  BY <1>1, Elements
<1> QED
  BY <1>1, <1>2, LenProperties DEF GeneratedEndpointConfig, GeneratedRuleConfig

LEMMA RoundsNat ==
  ASSUME NEW c, TypedConfig(c)
  PROVE  Rounds(c) \in Nat
<1>1. Len(c.endpoints) \in Nat /\ Len(c.rules) \in Nat
  BY Pieces
<1>2. \A x, y \in Nat : x + y \in Nat
  OBVIOUS
<1> QED
  BY <1>1, <1>2 DEF Rounds
--------------------------------------------------------------------------------
\* The rounds of commit and of the sandbox.

Round(loops, b, project, c, n) ==
  IF loops = "commit" THEN CommitRound(b, project, c, n) ELSE SandboxRound(b, project, c, n)

\* f holds what the loops have built after every round.
IsRun(f, loops, b, project, c) ==
  f = [n \in 0 .. Rounds(c) |-> IF n = 0 THEN b ELSE Round(loops, f[n - 1], project, c, n)]

\* The loops have a result after every round.
LEMMA RoundsRun ==
  ASSUME NEW loops, NEW b, NEW project, NEW c, Rounds(c) \in Nat
  PROVE  \E f : IsRun(f, loops, b, project, c)
<1> DEFINE Step(f, n) == IF n = 0 THEN b ELSE Round(loops, f[n - 1], project, c, n)
           F(f, m) == [n \in 0 .. m |-> Step(f, n)]
           Runs(m) == \E f : f = F(f, m)
           stuck == {m \in Nat : ~ Runs(m)}
<1>1. Runs(0)
  <2> DEFINE f == [n \in 0 .. 0 |-> b]
  <2>1. f = F(f, 0)
    OBVIOUS
  <2> QED
    BY <2>1
<1>2. ASSUME NEW m \in Nat, Runs(m)
      PROVE  Runs(m + 1)
  <2>1. PICK f : f = F(f, m)
    BY <1>2
  <2> DEFINE g == [n \in 0 .. m + 1 |-> IF n = m + 1 THEN Round(loops, f[m], project, c, m + 1)
                                        ELSE f[n]]
  <2>2. g = F(g, m + 1)
    <3>1. ASSUME NEW n \in 0 .. m + 1
          PROVE  g[n] = Step(g, n)
      <4>1. CASE n = m + 1
        <5>1. g[n - 1] = f[m] /\ n # 0
          BY <4>1
        <5> HIDE DEF g
        <5> QED
          BY <4>1, <5>1 DEF g
      <4>2. CASE n # m + 1
        <5>1. n \in 0 .. m /\ g[n] = f[n]
          BY <4>2
        <5>2. f[n] = Step(f, n)
          BY <2>1, <5>1
        <5>3. n # 0 => g[n - 1] = f[n - 1]
          BY <4>2
        <5> HIDE DEF g
        <5> QED
          BY <5>1, <5>2, <5>3
      <4> QED
        BY <4>1, <4>2
    <3>2. g = [n \in 0 .. m + 1 |-> g[n]]
      OBVIOUS
    <3> HIDE DEF g, Step
    <3> QED
      BY <3>1, <3>2
  <2> HIDE DEF g, F
  <2> QED
    BY <2>2
<1> HIDE DEF Runs
<1>3. stuck = {}
  <2> SUFFICES ASSUME stuck # {}
               PROVE  FALSE
    OBVIOUS
  <2>1. stuck \in SUBSET Nat
    OBVIOUS
  <2>2. PICK m \in stuck : \A k \in stuck : m <= k
    <3> HIDE DEF stuck
    <3> QED
      BY <2>1, LeastExists
  <2>3. m \in Nat /\ ~ Runs(m) /\ m # 0
    BY <1>1
  <2>4. m - 1 \in Nat /\ ~ (m <= m - 1)
    BY <2>3
  <2>5. Runs(m - 1)
    BY <2>2, <2>4
  <2>6. Runs((m - 1) + 1)
    BY <1>2, <2>4, <2>5
  <2> QED
    BY <2>3, <2>6
<1>4. Runs(Rounds(c))
  BY <1>3
<1> QED
  BY <1>4 DEF Runs, IsRun

LEMMA CommitRuns ==
  ASSUME NEW r, NEW fresh, NEW project, NEW c, Rounds(c) \in Nat
  PROVE  \E f : /\ Commit(r, fresh, project, c) = f[Rounds(c)]
                /\ f[0] = Build(r, fresh, << >>)
                /\ \A n \in 1 .. Rounds(c) : f[n] = CommitRound(f[n - 1], project, c, n)
<1> DEFINE F(f) == [n \in 0 .. Rounds(c) |->
                      IF n = 0 THEN Build(r, fresh, << >>)
                      ELSE CommitRound(f[n - 1], project, c, n)]
           built == CHOOSE f : f = F(f)
<1>1. \E f : f = F(f)
  <2> DEFINE b == Build(r, fresh, << >>)
  <2> HIDE DEF b
  <2>1. PICK f : IsRun(f, "commit", b, project, c)
    BY RoundsRun
  <2>2. \A d, n : Round("commit", d, project, c, n) = CommitRound(d, project, c, n)
    BY DEF Round
  <2>3. f = F(f)
    BY <2>1, <2>2 DEF IsRun, b
  <2> QED
    BY <2>3
<1>2. built = F(built)
  <2> HIDE DEF F
  <2> QED
    BY <1>1
<1>3. Commit(r, fresh, project, c) = built[Rounds(c)]
  BY DEF Commit
<1> HIDE DEF built
<1>4. built[0] = Build(r, fresh, << >>)
  BY <1>2
<1>5. \A n \in 1 .. Rounds(c) : built[n] = CommitRound(built[n - 1], project, c, n)
  BY <1>2
<1> QED
  BY <1>3, <1>4, <1>5

LEMMA SandboxRuns ==
  ASSUME NEW project, NEW c, Rounds(c) \in Nat
  PROVE  \E f : /\ SandboxRepository(project, c) = f[Rounds(c)].repo
                /\ f[0] = Build(EmptyRepository, 1, << >>)
                /\ \A n \in 1 .. Rounds(c) : f[n] = SandboxRound(f[n - 1], project, c, n)
<1> DEFINE F(f) == [n \in 0 .. Rounds(c) |->
                      IF n = 0 THEN Build(EmptyRepository, 1, << >>)
                      ELSE SandboxRound(f[n - 1], project, c, n)]
           built == CHOOSE f : f = F(f)
<1>1. \E f : f = F(f)
  <2> DEFINE b == Build(EmptyRepository, 1, << >>)
  <2> HIDE DEF b
  <2>1. PICK f : IsRun(f, "sandbox", b, project, c)
    BY RoundsRun
  <2>2. \A d, n : Round("sandbox", d, project, c, n) = SandboxRound(d, project, c, n)
    BY DEF Round
  <2>3. f = F(f)
    BY <2>1, <2>2 DEF IsRun, b
  <2> QED
    BY <2>3
<1>2. built = F(built)
  <2> HIDE DEF F
  <2> QED
    BY <1>1
<1>3. SandboxRepository(project, c) = built[Rounds(c)].repo
  BY DEF SandboxRepository
<1> HIDE DEF built
<1>4. built[0] = Build(EmptyRepository, 1, << >>)
  BY <1>2
<1>5. \A n \in 1 .. Rounds(c) : built[n] = SandboxRound(built[n - 1], project, c, n)
  BY <1>2
<1> QED
  BY <1>3, <1>4, <1>5

\* The endpoints of r are where they were in t.
KeepsEndpoints(r, t) ==
  \A i \in DOMAIN r.endpoints : i \in DOMAIN t.endpoints /\ t.endpoints[i] = r.endpoints[i]

LEMMA KeepsFound ==
  ASSUME NEW r, NEW t, KeepsEndpoints(r, t)
  PROVE  /\ \A project, id : EndpointExists(r, project, id) => EndpointExists(t, project, id)
         /\ \A project, method, path :
              EndpointSignatureExists(r, project, method, path) =>
                EndpointSignatureExists(t, project, method, path)
BY DEF KeepsEndpoints, EndpointExists, EndpointSignatureExists

\* The created endpoint is there, beside the others.
LEMMA EndpointCreated ==
  ASSUME NEW r, NEW n \in Nat, Sound(r, n), NEW project, NEW request, NEW m
  PROVE  LET t == CreateEndpoint(r, project, request, n, m)
         IN  /\ KeepsEndpoints(r, t)
             /\ EndpointExists(t, project, n)
             /\ EndpointSignatureExists(t, project, request.method, request.path)
<1> DEFINE endpoint == [id |-> n, project_id |-> project, path |-> request.path,
                        method |-> request.method, is_active |-> request.is_active]
           t == CreateEndpoint(r, project, request, n, m)
<1>1. Extends(t.endpoints, r.endpoints, endpoint)
  BY AppendExtends DEF CreateEndpoint, Sound, RepositoryType
<1>2. /\ endpoint.id = n /\ endpoint.project_id = project /\ endpoint.method = request.method
      /\ endpoint.path = request.path
  OBVIOUS
<1> HIDE DEF endpoint, t
<1>3. KeepsEndpoints(r, t)
  BY <1>1 DEF Extends, KeepsEndpoints
<1>4. EndpointExists(t, project, n)
  BY <1>1, <1>2 DEF Extends, EndpointExists
<1>5. EndpointSignatureExists(t, project, request.method, request.path)
  BY <1>1, <1>2 DEF Extends, EndpointSignatureExists, SameSignature
<1> QED
  BY <1>3, <1>4, <1>5 DEF t

\* The endpoints of a configuration that n rounds have been through.
Seen(c, n) == {i \in DOMAIN c.endpoints : i <= n}

\* What the sandbox has built after n rounds: the endpoints seen, in their order, and
\* an identifier for each of their keys.
Simulated(c, project, b, n) ==
  /\ b.fresh \in Nat \ {NoId}
  /\ Sound(b.repo, b.fresh)
  /\ \A i \in DOMAIN b.repo.endpoints : b.repo.endpoints[i].id # NoId
  /\ \A i \in DOMAIN b.repo.responses : b.repo.responses[i].id # NoId
  /\ DOMAIN b.repo.endpoints = Seen(c, n)
  /\ \A i \in Seen(c, n) :
       /\ b.repo.endpoints[i].project_id = project
       /\ b.repo.endpoints[i].method = c.endpoints[i].endpoint.method
       /\ b.repo.endpoints[i].path = c.endpoints[i].endpoint.path
  /\ DOMAIN b.ids = {c.endpoints[i].key : i \in Seen(c, n)}
  /\ \A key \in DOMAIN b.ids : EndpointExists(b.repo, project, b.ids[key])

KeysKnown(c) == \A i \in DOMAIN c.rules : c.rules[i].endpoint_key \in EndpointKeys(c)

LEMMA SimulatedFirst ==
  ASSUME NEW c, TypedConfig(c), NEW project
  PROVE  Simulated(c, project, Build(EmptyRepository, 1, << >>), 0)
<1> DEFINE b == Build(EmptyRepository, 1, << >>)
<1>1. b.repo = EmptyRepository /\ b.fresh = 1 /\ b.ids = << >>
  BY DEF Build
<1> HIDE DEF b
<1>2. Seen(c, 0) = {}
  BY Pieces DEF Seen
<1>3. Sound(EmptyRepository, 1)
  <2>1. EmptyRepository \in RepositoryType
    BY EmptySeq DEF EmptyRepository, RepositoryType
  <2>2. /\ DOMAIN EmptyRepository.endpoints = {} /\ DOMAIN EmptyRepository.responses = {}
        /\ DOMAIN EmptyRepository.rules = {} /\ DOMAIN EmptyRepository.delays = {}
    BY DEF EmptyRepository
  <2> QED
    BY <2>1, <2>2 DEF Sound, Integral, DistinctIds, OneDelay, IdsBelow
<1>4. /\ DOMAIN b.repo.endpoints = {} /\ DOMAIN b.repo.responses = {} /\ DOMAIN b.ids = {}
  BY <1>1 DEF EmptyRepository
<1>5. b.fresh \in Nat \ {NoId}
  BY <1>1 DEF NoId
<1>6. Simulated(c, project, b, 0)
  BY <1>1, <1>2, <1>3, <1>4, <1>5 DEF Simulated
<1> QED
  BY <1>6 DEF b

LEMMA RoundOfEndpoint ==
  ASSUME NEW c, TypedConfig(c), NEW n \in 1 .. Rounds(c), n <= Len(c.endpoints)
  PROVE  /\ n \in DOMAIN c.endpoints
         /\ c.endpoints[n].endpoint \in EndpointCreateRequest
         /\ Seen(c, n - 1) = 1 .. n - 1
         /\ Seen(c, n) = 1 .. n
<1> DEFINE m == Len(c.endpoints)
<1>1. m \in Nat /\ DOMAIN c.endpoints = 1 .. m /\ n \in 1 .. m
  BY Pieces DEF Rounds
<1> HIDE DEF m
<1> QED
  BY <1>1, Pieces DEF Seen

LEMMA RoundOfRule ==
  ASSUME NEW c, TypedConfig(c), NEW n \in 1 .. Rounds(c), ~ (n <= Len(c.endpoints))
  PROVE  /\ n - Len(c.endpoints) \in DOMAIN c.rules
         /\ Seen(c, n - 1) = DOMAIN c.endpoints
         /\ Seen(c, n) = DOMAIN c.endpoints
<1> DEFINE m == Len(c.endpoints)
<1>1. /\ m \in Nat /\ Len(c.rules) \in Nat /\ n \in 1 .. m + Len(c.rules)
      /\ DOMAIN c.endpoints = 1 .. m /\ DOMAIN c.rules = 1 .. Len(c.rules)
  BY Pieces DEF Rounds
<1>2. \A x, y \in Nat : \A z \in 1 .. x + y : ~ (z <= x) => z - x \in 1 .. y
  OBVIOUS
<1>3. ~ (n <= m) /\ n \in Int
  BY <1>1
<1>4. n - m \in DOMAIN c.rules
  <2> HIDE DEF m
  <2> QED
    BY <1>1, <1>2, <1>3
<1>5. \A i \in DOMAIN c.endpoints : i <= n - 1 /\ i <= n
  <2> HIDE DEF m
  <2> QED
    BY <1>1, <1>3
<1> QED
  BY <1>4, <1>5 DEF Seen

\* A round of the sandbox.
LEMMA SandboxRoundSimulated ==
  ASSUME NEW c, TypedConfig(c), KeysKnown(c), NEW project \in Projects,
         NEW b, NEW n \in 1 .. Rounds(c), Simulated(c, project, b, n - 1)
  PROVE  Simulated(c, project, SandboxRound(b, project, c, n), n)
<1> DEFINE d == SandboxRound(b, project, c, n)
<1>1. /\ b.fresh \in Nat /\ b.fresh # NoId /\ Sound(b.repo, b.fresh) /\ project \in Projects
      /\ \A key \in DOMAIN b.ids : EndpointExists(b.repo, project, b.ids[key])
      /\ \A i \in DOMAIN b.repo.endpoints : b.repo.endpoints[i].id # NoId
      /\ \A i \in DOMAIN b.repo.responses : b.repo.responses[i].id # NoId
      /\ DOMAIN b.repo.endpoints = Seen(c, n - 1)
      /\ \A i \in Seen(c, n - 1) :
           /\ b.repo.endpoints[i].project_id = project
           /\ b.repo.endpoints[i].method = c.endpoints[i].endpoint.method
           /\ b.repo.endpoints[i].path = c.endpoints[i].endpoint.path
      /\ DOMAIN b.ids = {c.endpoints[i].key : i \in Seen(c, n - 1)}
  BY DEF Simulated
<1>2. /\ b.repo.endpoints \in Seq(Endpoint) /\ b.repo.responses \in Seq(Response)
  BY <1>1 DEF Sound, RepositoryType
<1>3. CASE n <= Len(c.endpoints)
  <2> DEFINE g == c.endpoints[n]
             endpoint == [id |-> b.fresh, project_id |-> project, path |-> g.endpoint.path,
                          method |-> g.endpoint.method, is_active |-> g.endpoint.is_active]
             response == [id |-> b.fresh + 1, endpoint_id |-> b.fresh,
                          status_code |-> g.endpoint.status_code, is_default |-> TRUE,
                          echo |-> g.endpoint.echo]
             t == CreateEndpoint(b.repo, project, g.endpoint, b.fresh, b.fresh + 1)
  <2>1. /\ g.endpoint \in EndpointCreateRequest /\ Seen(c, n - 1) = 1 .. n - 1 /\ Seen(c, n) = 1 .. n
    BY <1>3, RoundOfEndpoint
  <2>2. d = Build(t, b.fresh + 2, WithId(b.ids, g.key, b.fresh))
    BY <1>3 DEF SandboxRound, AddEndpoint
  <2>3. d.repo = t /\ d.fresh = b.fresh + 2 /\ d.ids = WithId(b.ids, g.key, b.fresh)
    <3> HIDE DEF d, t
    <3> QED
      BY <2>2 DEF Build
  <2> HIDE DEF d
  <2>4. Extends(t.endpoints, b.repo.endpoints, endpoint)
    BY <1>2, AppendExtends DEF CreateEndpoint
  <2>5. Extends(t.responses, b.repo.responses, response)
    BY <1>2, AppendExtends DEF CreateEndpoint
  <2>6. /\ endpoint.id = b.fresh /\ endpoint.project_id = project
        /\ endpoint.method = g.endpoint.method /\ endpoint.path = g.endpoint.path
        /\ response.id = b.fresh + 1
    OBVIOUS
  <2>7. Sound(t, b.fresh + 2)
    BY <1>1, <2>1, CreateEndpointSound
  <2>8. KeepsEndpoints(b.repo, t) /\ EndpointExists(t, project, b.fresh)
    BY <1>1, EndpointCreated
  <2> HIDE DEF endpoint, response, t
  <2>9. Len(b.repo.endpoints) = n - 1
    <3>1. /\ 1 .. Len(b.repo.endpoints) = 1 .. n - 1 /\ Len(b.repo.endpoints) \in Nat
          /\ n - 1 \in Nat
      BY <1>1, <1>2, <2>1, LenProperties
    <3> QED
      BY <3>1, EqualIntervals
  <2>10. DOMAIN t.endpoints = Seen(c, n)
    <3>1. \A i : i \in 1 .. n <=> i \in 1 .. n - 1 \/ i = n
      OBVIOUS
    <3>2. (n - 1) + 1 = n
      OBVIOUS
    <3> QED
      BY <1>1, <2>1, <2>4, <2>9, <3>1, <3>2 DEF Extends
  <2>11. \A i \in Seen(c, n) :
           /\ t.endpoints[i].project_id = project
           /\ t.endpoints[i].method = c.endpoints[i].endpoint.method
           /\ t.endpoints[i].path = c.endpoints[i].endpoint.path
           /\ t.endpoints[i].id # NoId
    <3>1. \A i : i \in 1 .. n => i \in 1 .. n - 1 \/ i = (n - 1) + 1
      OBVIOUS
    <3>2. (n - 1) + 1 = n
      OBVIOUS
    <3> QED
      BY <1>1, <2>1, <2>4, <2>6, <2>9, <3>1, <3>2 DEF Extends
  <2>12. \A i \in DOMAIN t.responses : t.responses[i].id # NoId
    <3>1. b.fresh + 1 # NoId
      BY <1>1 DEF NoId
    <3> QED
      BY <1>1, <2>5, <2>6, <3>1 DEF Extends
  <2>13. DOMAIN d.ids = {c.endpoints[i].key : i \in Seen(c, n)}
    <3>1. \A i : i \in 1 .. n <=> i \in 1 .. n - 1 \/ i = n
      OBVIOUS
    <3>2. DOMAIN d.ids = DOMAIN b.ids \cup {g.key}
      BY <2>3 DEF WithId
    <3>3. \A key : key \in DOMAIN b.ids <=> \E i \in 1 .. n - 1 : key = c.endpoints[i].key
      BY <1>1, <2>1
    <3>4. \A key : key \in DOMAIN d.ids <=> \E i \in 1 .. n : key = c.endpoints[i].key
      BY <3>1, <3>2, <3>3
    <3> QED
      BY <2>1, <3>4
  <2>14. \A key \in DOMAIN d.ids : EndpointExists(t, project, d.ids[key])
    BY <1>1, <2>3, <2>8, KeepsFound DEF WithId
  <2>15. b.fresh + 2 \in Nat \ {NoId}
    BY <1>1 DEF NoId
  <2>16. Simulated(c, project, d, n)
    BY <2>3, <2>7, <2>10, <2>11, <2>12, <2>13, <2>14, <2>15 DEF Simulated
  <2> QED
    BY <2>16 DEF d
<1>4. CASE ~ (n <= Len(c.endpoints))
  <2> DEFINE g == c.rules[n - Len(c.endpoints)]
             id == b.ids[g.endpoint_key]
             response == [id |-> b.fresh, endpoint_id |-> id, status_code |-> g.rule.status_code,
                          is_default |-> FALSE, echo |-> g.rule.echo]
             t == CreateRule(b.repo, id, g.rule, b.fresh)
  <2>1. /\ n - Len(c.endpoints) \in DOMAIN c.rules
        /\ Seen(c, n - 1) = DOMAIN c.endpoints /\ Seen(c, n) = DOMAIN c.endpoints
    BY <1>4, RoundOfRule
  <2>2. g.rule \in RuleCreateRequest /\ g.endpoint_key \in DOMAIN b.ids
    BY <1>1, <2>1, Pieces DEF KeysKnown, EndpointKeys
  <2>3. d = Build(t, b.fresh + 1, b.ids)
    BY <1>4 DEF SandboxRound, AddRule
  <2>4. d.repo = t /\ d.fresh = b.fresh + 1 /\ d.ids = b.ids
    <3> HIDE DEF d, t
    <3> QED
      BY <2>3 DEF Build
  <2> HIDE DEF d, g
  <2>5. Sound(t, b.fresh + 1)
    BY <1>1, <2>2, CreateRuleSound
  <2>6. t.endpoints = b.repo.endpoints
    BY DEF CreateRule
  <2>7. Extends(t.responses, b.repo.responses, response) /\ response.id = b.fresh
    BY <1>2, AppendExtends DEF CreateRule
  <2> HIDE DEF t, response
  <2>8. \A i \in DOMAIN t.responses : t.responses[i].id # NoId
    BY <1>1, <2>7 DEF Extends
  <2>9. \A key \in DOMAIN d.ids : EndpointExists(t, project, d.ids[key])
    BY <1>1, <2>4, <2>6 DEF EndpointExists
  <2>10. b.fresh + 1 \in Nat \ {NoId}
    BY <1>1 DEF NoId
  <2>11. Simulated(c, project, d, n)
    BY <1>1, <2>1, <2>4, <2>5, <2>6, <2>8, <2>9, <2>10 DEF Simulated
  <2> QED
    BY <2>11 DEF d
<1> QED
  BY <1>3, <1>4
================================================================================
