-------------------------- MODULE CalibrationProof --------------------------
(***************************************************************************)
(* Theorems about Calibration, for any number of agents, deliberations,    *)
(* outcomes and times: the two ways of picking the outcome that counts     *)
(* agree, a stable sort by time changes neither, and with it the hash and  *)
(* the sample, less its times, are two readings of the same thing.         *)
(***************************************************************************)
EXTENDS Calibration, FiniteSetTheorems, TLAPS

(* Orders. *)

\* R orders S strictly and totally.
Orders(R, S) ==
    /\ \A x \in S : <<x, x>> \notin R
    /\ \A x, y \in S : x = y \/ <<x, y>> \in R \/ <<y, x>> \in R
    /\ \A x, y, z \in S : <<x, y>> \in R /\ <<y, z>> \in R => <<x, z>> \in R

\* What comes before x in S.
Ahead(R, S, x) == {y \in S : <<y, x>> \in R}

\* The further on an element, the more there are before it.
LEMMA AheadGrows ==
    ASSUME NEW R, NEW S, IsFiniteSet(S), Orders(R, S), NEW x \in S
    PROVE  /\ IsFiniteSet(Ahead(R, S, x))
           /\ Cardinality(Ahead(R, S, x)) \in Nat
           /\ Cardinality(Ahead(R, S, x)) < Cardinality(S)
           /\ \A y \in S : <<x, y>> \in R =>
                 Cardinality(Ahead(R, S, x)) < Cardinality(Ahead(R, S, y))
<1>1. ASSUME NEW y \in S
      PROVE  /\ IsFiniteSet(Ahead(R, S, y))
             /\ Cardinality(Ahead(R, S, y)) \in Nat
             /\ Cardinality(Ahead(R, S, y)) < Cardinality(S)
  <2>1. Ahead(R, S, y) \subseteq S /\ Ahead(R, S, y) # S
    BY DEF Ahead, Orders
  <2>2. /\ IsFiniteSet(Ahead(R, S, y))
        /\ Cardinality(Ahead(R, S, y)) <= Cardinality(S)
        /\ Cardinality(Ahead(R, S, y)) # Cardinality(S)
    BY <2>1, FS_Subset
  <2> QED
    BY <2>2, FS_CardinalityType
<1>2. ASSUME NEW y \in S, <<x, y>> \in R
      PROVE  Cardinality(Ahead(R, S, x)) < Cardinality(Ahead(R, S, y))
  <2>1. Ahead(R, S, x) \subseteq Ahead(R, S, y) /\ x \in Ahead(R, S, y) /\ x \notin Ahead(R, S, x)
    BY <1>2 DEF Ahead, Orders
  <2>2. /\ Cardinality(Ahead(R, S, x)) <= Cardinality(Ahead(R, S, y))
        /\ Cardinality(Ahead(R, S, x)) # Cardinality(Ahead(R, S, y))
    BY <1>1, <2>1, FS_Subset
  <2> QED
    BY <1>1, <2>2
<1> QED
  BY <1>1, <1>2

\* The list of a finite set in the order R.
IsListed(p, R, S) ==
    /\ p \in [1 .. Cardinality(S) -> S]
    /\ \A k, l \in 1 .. Cardinality(S) : k < l => <<p[k], p[l]>> \in R
    /\ \A x \in S : \E k \in 1 .. Cardinality(S) : p[k] = x

\* There is one, in which the number of elements before an element is its place.
LEMMA ListExists ==
    ASSUME NEW R, NEW S, IsFiniteSet(S), Orders(R, S)
    PROVE  \E p : IsListed(p, R, S)
<1> DEFINE n == Cardinality(S)
           N == 1 .. n
           Counts == 0 .. n - 1
           rank == [x \in S |-> Cardinality(Ahead(R, S, x))]
<1>1. n \in Nat
  BY FS_CardinalityType
<1>2. IsFiniteSet(Counts) /\ Cardinality(Counts) = n
  <2>1. 0 \in Int /\ n - 1 \in Int
    BY <1>1
  <2>2. IsFiniteSet(Counts) /\ Cardinality(Counts) = IF 0 > n - 1 THEN 0 ELSE (n - 1) - 0 + 1
    BY <2>1, FS_Interval
  <2> QED
    BY <1>1, <2>2
<1>3. /\ rank \in [S -> Counts]
      /\ \A x, y \in S : <<x, y>> \in R => rank[x] < rank[y]
  <2>1. \A x \in S : Cardinality(Ahead(R, S, x)) \in Nat /\ Cardinality(Ahead(R, S, x)) < n
    BY AheadGrows
  <2>2. \A x \in S : Cardinality(Ahead(R, S, x)) \in Counts
    BY <1>1, <2>1
  <2>3. \A x, y \in S : <<x, y>> \in R =>
           Cardinality(Ahead(R, S, x)) < Cardinality(Ahead(R, S, y))
    BY AheadGrows
  <2> QED
    BY <2>2, <2>3
<1>4. Counts \subseteq Nat /\ \A k \in N : k \in Nat /\ k - 1 \in Counts
  BY <1>1
<1>5. \A c \in Counts : c + 1 \in N /\ c + 1 - 1 = c
  BY <1>1
<1> HIDE DEF rank, Counts, N, n
<1>6. rank \in Injection(S, Counts)
  <2>1. \A x, y \in S : rank[x] = rank[y] => x = y
    <3> SUFFICES ASSUME NEW x \in S, NEW y \in S, x # y PROVE rank[x] # rank[y]
      OBVIOUS
    <3>1. rank[x] < rank[y] \/ rank[y] < rank[x]
      BY <1>3 DEF Orders
    <3>2. rank[x] \in Nat /\ rank[y] \in Nat
      BY <1>3, <1>4
    <3> QED
      BY <3>1, <3>2
  <2> QED
    BY <1>3, <2>1 DEF Injection, IsInjective
<1>7. rank \in Surjection(S, Counts)
  BY <1>2, <1>6, FS_Injection DEF n
<1> DEFINE p == [k \in N |-> CHOOSE x \in S : rank[x] = k - 1]
<1>8. \A k \in N : p[k] \in S /\ rank[p[k]] = k - 1
  <2> SUFFICES ASSUME NEW k \in N PROVE p[k] \in S /\ rank[p[k]] = k - 1
    OBVIOUS
  <2>1. \E x \in S : rank[x] = k - 1
    BY <1>4, <1>7 DEF Surjection
  <2> QED
    BY <2>1
<1>9. p \in [N -> S]
  BY <1>8
<1> HIDE DEF p
<1>10. \A k, l \in N : k < l => <<p[k], p[l]>> \in R
  <2> SUFFICES ASSUME NEW k \in N, NEW l \in N, k < l PROVE <<p[k], p[l]>> \in R
    OBVIOUS
  <2>1. rank[p[k]] < rank[p[l]] /\ rank[p[k]] \in Nat /\ rank[p[l]] \in Nat
    BY <1>3, <1>4, <1>8
  <2>2. p[k] \in S /\ p[l] \in S /\ p[k] # p[l]
    BY <1>8, <2>1
  <2>3. <<p[l], p[k]>> \notin R
    <3>1. <<p[l], p[k]>> \in R => rank[p[l]] < rank[p[k]]
      BY <1>3, <2>2
    <3> QED
      BY <2>1, <3>1
  <2> QED
    BY <2>2, <2>3 DEF Orders
<1>11. \A x \in S : \E k \in N : p[k] = x
  <2> SUFFICES ASSUME NEW x \in S PROVE \E k \in N : p[k] = x
    OBVIOUS
  <2>1. PICK k \in N : rank[x] = k - 1
    <3>1. PICK c \in Counts : rank[x] = c
      BY <1>3
    <3>2. c + 1 \in N /\ c \in Nat
      BY <1>4, <1>5
    <3>3. rank[x] = c + 1 - 1
      BY <3>1, <3>2
    <3> QED
      BY <3>2, <3>3
  <2>2. p[k] \in S /\ rank[p[k]] = rank[x]
    BY <1>8, <2>1
  <2>3. p[k] = x
    BY <1>6, <2>2 DEF Injection, IsInjective
  <2> QED
    BY <2>1, <2>3
<1> QED
  BY <1>9, <1>10, <1>11 DEF IsListed, N, n

\* A finite set has a first element.
IsFirst(R, S, x) == x \in S /\ \A y \in S : y # x => <<x, y>> \in R

LEMMA FirstExists ==
    ASSUME NEW R, NEW S, IsFiniteSet(S), Orders(R, S), S # {}
    PROVE  \E x : IsFirst(R, S, x)
<1>1. PICK p : IsListed(p, R, S)
  BY ListExists
<1> DEFINE N == 1 .. Cardinality(S)
<1>2. 1 \in N /\ \A k \in N : k = 1 \/ 1 < k
  <2>1. Cardinality(S) \in Nat /\ Cardinality(S) # 0
    BY FS_CardinalityType, FS_EmptySet
  <2> QED
    BY <2>1
<1>3. /\ p \in [N -> S]
      /\ \A k, l \in N : k < l => <<p[k], p[l]>> \in R
      /\ \A x \in S : \E k \in N : p[k] = x
  BY <1>1 DEF IsListed
<1> HIDE DEF N
<1> QED
  BY <1>2, <1>3 DEF IsFirst
-----------------------------------------------------------------------------
(* The latest outcome. *)

LEMMA OutcomesHaveTimes ==
    ASSUME NEW s \in Seq(Outcome)
    PROVE  /\ Len(s) \in Nat /\ DOMAIN s = 1 .. Len(s)
           /\ \A i \in 1 .. Len(s) : i \in Nat /\ s[i] \in Outcome /\ s[i].timestamp \in Nat
<1>1. \A e \in Outcome : e.timestamp \in Nat
  BY CalibrationAssumption DEF Outcome
<1>2. Len(s) \in Nat /\ DOMAIN s = 1 .. Len(s) /\ \A i \in 1 .. Len(s) : s[i] \in Outcome
  OBVIOUS
<1> QED
  BY <1>1, <1>2

\* The first of the latest ones at some positions.
IsLatest(s, at, k) ==
    \A j \in at : /\ s[j].timestamp <= s[k].timestamp
                  /\ j < k => s[j].timestamp # s[k].timestamp

\* There is one where there are entries at all, and it is what max() returns.
LEMMA LatestExists ==
    ASSUME NEW s \in Seq(Outcome), NEW at, at \subseteq 1 .. Len(s), IsFiniteSet(at)
    PROVE  /\ \A k \in at : IsLatest(s, at, k) => LatestAt(s, at) = {s[k]}
           /\ at # {} => \E k \in at : IsLatest(s, at, k)
           /\ at = {} => LatestAt(s, at) = {}
<1>1. \A k \in at : k \in Nat /\ s[k].timestamp \in Nat
  BY OutcomesHaveTimes
<1>2. LatestAt(s, at) = {s[k] : k \in {l \in at : IsLatest(s, at, l)}}
  BY DEF LatestAt, IsLatest
<1>3. ASSUME NEW k \in at, IsLatest(s, at, k)
      PROVE  LatestAt(s, at) = {s[k]}
  <2>1. \A l \in at : IsLatest(s, at, l) => l = k
    <3> SUFFICES ASSUME NEW l \in at, IsLatest(s, at, l) PROVE l = k
      OBVIOUS
    <3>1. s[k].timestamp <= s[l].timestamp /\ s[l].timestamp <= s[k].timestamp
      BY <1>3 DEF IsLatest
    <3>2. s[k].timestamp = s[l].timestamp
      BY <1>1, <3>1
    <3>3. ~(k < l) /\ ~(l < k)
      BY <1>3, <3>2 DEF IsLatest
    <3> QED
      BY <1>1, <3>3
  <2> QED
    BY <1>2, <1>3, <2>1
<1>4. ASSUME at # {}
      PROVE  \E k \in at : IsLatest(s, at, k)
  <2> DEFINE Beats(k, l) == \/ s[k].timestamp > s[l].timestamp
                            \/ s[k].timestamp = s[l].timestamp /\ k < l
  <2>1. PICK R : \A k, l \in at : <<k, l>> \in R <=> Beats(k, l)
    <3>1. \A k, l \in at : <<k, l>> \in {z \in at \X at : Beats(z[1], z[2])} <=> Beats(k, l)
      OBVIOUS
    <3> QED
      BY <3>1
  <2>2. Orders(R, at)
    <3>1. /\ \A k \in at : ~Beats(k, k)
          /\ \A k, l \in at : k = l \/ Beats(k, l) \/ Beats(l, k)
          /\ \A j, k, l \in at : Beats(j, k) /\ Beats(k, l) => Beats(j, l)
      BY <1>1
    <3> HIDE DEF Beats
    <3> QED
      BY <2>1, <3>1 DEF Orders
  <2>3. PICK k : IsFirst(R, at, k)
    BY <1>4, <2>2, FirstExists
  <2>4. k \in at /\ \A j \in at : j # k => Beats(k, j)
    BY <2>1, <2>3 DEF IsFirst
  <2>5. IsLatest(s, at, k)
    BY <1>1, <2>4 DEF IsLatest
  <2> QED
    BY <2>4, <2>5
<1> QED
  BY <1>2, <1>3, <1>4

\* What one more row at the end does to it.
LEMMA LatestGrows ==
    ASSUME NEW s \in Seq(Outcome), NEW at, at \subseteq 1 .. Len(s), IsFiniteSet(at),
           NEW m \in at, \A j \in at : j <= m
    PROVE  LatestAt(s, at) =
              IF Later(s[m], LatestAt(s, at \ {m})) THEN {s[m]} ELSE LatestAt(s, at \ {m})
<1> DEFINE rest == at \ {m}
<1>1. /\ \A k \in at : k \in Nat /\ s[k].timestamp \in Nat
      /\ IsFiniteSet(rest) /\ rest \subseteq 1 .. Len(s)
      /\ m \notin rest /\ rest \subseteq at /\ \A j \in at : j # m => j \in rest
  BY OutcomesHaveTimes, FS_Subset
<1> HIDE DEF rest
<1>2. CASE rest = {}
  <2>1. LatestAt(s, rest) = {}
    BY <1>1, <1>2, LatestExists
  <2>2. IsLatest(s, at, m)
    BY <1>1, <1>2 DEF IsLatest
  <2> QED
    BY <2>1, <2>2, LatestExists DEF Later, rest
<1>3. CASE rest # {}
  <2>1. PICK k \in rest : IsLatest(s, rest, k)
    BY <1>1, <1>3, LatestExists
  <2>2. LatestAt(s, rest) = {s[k]}
    BY <1>1, <2>1, LatestExists
  <2>3. CASE s[m].timestamp > s[k].timestamp
    <3>1. \A j \in rest : s[j].timestamp < s[m].timestamp
      BY <1>1, <2>1, <2>3 DEF IsLatest
    <3>2. IsLatest(s, at, m)
      BY <1>1, <3>1 DEF IsLatest
    <3>3. LatestAt(s, at) = {s[m]}
      <4>1. k \in at
        BY <1>1
      <4> QED
        BY <3>2, <4>1, LatestExists
    <3> QED
      BY <2>2, <2>3, <3>3 DEF Later, rest
  <2>4. CASE ~(s[m].timestamp > s[k].timestamp)
    <3>1. s[m].timestamp <= s[k].timestamp /\ ~(m < k)
      BY <1>1, <2>4
    <3>2. IsLatest(s, at, k)
      BY <1>1, <2>1, <3>1 DEF IsLatest
    <3>3. LatestAt(s, at) = {s[k]}
      <4>1. k \in at
        BY <1>1
      <4> QED
        BY <3>2, <4>1, LatestExists
    <3> QED
      BY <2>2, <2>4, <3>3 DEF Later, rest
  <2> QED
    BY <2>3, <2>4
<1> QED
  BY <1>2, <1>3 DEF rest

\* The greatest place in a list.
LEMMA MaxOfPlaces ==
    ASSUME NEW n \in Nat, NEW at, at \subseteq 1 .. n, at # {}
    PROVE  IsFiniteSet(at) /\ Max(at) \in at /\ \A j \in at : j <= Max(at)
<1>1. IsFiniteSet(at)
  <2>1. 1 \in Int /\ n \in Int
    OBVIOUS
  <2> QED
    BY <2>1, FS_Interval, FS_Subset
<1>2. \A k \in at : k \in Nat
  OBVIOUS
<1>3. PICK R : \A k, l \in at : <<k, l>> \in R <=> l < k
  <2>1. \A k, l \in at : <<k, l>> \in {z \in at \X at : z[2] < z[1]} <=> l < k
    OBVIOUS
  <2> QED
    BY <2>1
<1>4. Orders(R, at)
  BY <1>2, <1>3 DEF Orders
<1>5. PICK k : IsFirst(R, at, k)
  BY <1>1, <1>4, FirstExists
<1>6. k \in at /\ \A j \in at : k >= j
  <2>1. k \in at /\ \A j \in at : j # k => j < k
    BY <1>3, <1>5 DEF IsFirst
  <2> QED
    BY <1>2, <2>1
<1>7. Max(at) \in at /\ \A j \in at : Max(at) >= j
  BY <1>6, Zenon DEF Max
<1> QED
  BY <1>1, <1>2, <1>7

\* The scan of the rows (sqlite.py) and max() over the list (jsonl.py) find the
\* same outcome: row for row, what the scan has kept is the latest so far.
LEMMA ScanFindsLatest ==
    ASSUME NEW s \in Seq(Outcome)
    PROVE  Scanned(s) = Latest(s)
<1> DEFINE D == 1 .. Len(s)
           Pick(e, o) == IF Later(e, o) THEN {e} ELSE o
           Def(h) == [T \in SUBSET D |->
                        IF T = {} THEN {} ELSE Pick(s[Max(T)], h[T \ {Max(T)}])]
           h0 == CHOOSE h : h = Def(h)
           latest == [T \in SUBSET D |-> LatestAt(s, T)]
<1>1. Len(s) \in Nat /\ DOMAIN s = D
  BY OutcomesHaveTimes
<1>2. Scanned(s) = h0[D]
  <2> DEFINE Def2(E) == CHOOSE h : h = [T \in SUBSET E |->
                        IF T = {} THEN {} ELSE Pick(s[Max(T)], h[T \ {Max(T)}])]
  <2>1. Scanned(s) = Def2(DOMAIN s)[DOMAIN s]
    BY Zenon DEF Scanned, FoldLeft, MapThenFoldSet
  <2> QED
    BY <1>1, <2>1
<1>3. /\ LatestAt(s, {}) = {}
      /\ \A T \in SUBSET D : T # {} =>
            /\ Max(T) \in T
            /\ LatestAt(s, T) = Pick(s[Max(T)], LatestAt(s, T \ {Max(T)}))
  <2>1. LatestAt(s, {}) = {}
    BY LatestExists, FS_EmptySet
  <2>2. ASSUME NEW T \in SUBSET D, T # {}
        PROVE  /\ Max(T) \in T
               /\ LatestAt(s, T) = Pick(s[Max(T)], LatestAt(s, T \ {Max(T)}))
    <3>1. IsFiniteSet(T) /\ Max(T) \in T /\ \A j \in T : j <= Max(T)
      BY <1>1, <2>2, MaxOfPlaces
    <3> QED
      BY <3>1, LatestGrows
  <2> QED
    BY <2>1, <2>2
<1> HIDE DEF Pick
<1>4. \E h : h = Def(h)
  <2>1. \A T \in SUBSET D : latest[T] = Def(latest)[T]
    <3> SUFFICES ASSUME NEW T \in SUBSET D PROVE latest[T] = Def(latest)[T]
      OBVIOUS
    <3>1. CASE T = {}
      BY <1>3, <3>1
    <3>2. CASE T # {}
      <4>1. T \ {Max(T)} \in SUBSET D
        OBVIOUS
      <4>2. latest[T \ {Max(T)}] = LatestAt(s, T \ {Max(T)})
        BY <4>1
      <4> QED
        BY <1>3, <3>2, <4>2
    <3> QED
      BY <3>1, <3>2
  <2>2. latest = Def(latest)
    BY <2>1
  <2> QED
    BY <2>2
<1>5. h0 = Def(h0)
  <2> HIDE DEF Def
  <2> QED
    BY <1>4
<1> HIDE DEF h0
<1>6. \A T \in SUBSET D : h0[T] = IF T = {} THEN {} ELSE Pick(s[Max(T)], h0[T \ {Max(T)}])
  <2>1. \A T \in SUBSET D : h0[T] = Def(h0)[T]
    BY <1>5
  <2>2. \A T \in SUBSET D :
           Def(h0)[T] = IF T = {} THEN {} ELSE Pick(s[Max(T)], h0[T \ {Max(T)}])
    OBVIOUS
  <2> HIDE DEF Def
  <2> QED
    BY <2>1, <2>2
<1>7. \A T \in SUBSET D : h0[T] = LatestAt(s, T)
  <2> DEFINE Wrong == {T \in SUBSET D : h0[T] # LatestAt(s, T)}
  <2> SUFFICES ASSUME Wrong # {} PROVE FALSE
    OBVIOUS
  <2>1. Wrong \subseteq FiniteSubsetsOf(D)
    <3>1. 1 \in Int /\ Len(s) \in Int
      BY <1>1
    <3>2. IsFiniteSet(D)
      BY <3>1, FS_Interval
    <3> QED
      BY <3>2, FS_Subset DEF FiniteSubsetsOf
  <2>2. PICK T \in Wrong : \A U \in Wrong : ~(<<U, T>> \in StrictSubsetOrdering(D))
    <3> HIDE DEF Wrong
    <3>1. IsWellFoundedOn(StrictSubsetOrdering(D), FiniteSubsetsOf(D))
      BY FS_StrictSubsetOrderingWellFounded
    <3> QED
      BY <2>1, <3>1, WFMin
  <2>3. T \in SUBSET D /\ T # {} /\ h0[T] # LatestAt(s, T)
    BY <1>3, <1>6
  <2>4. T \ {Max(T)} \in SUBSET D /\ <<T \ {Max(T)}, T>> \in StrictSubsetOrdering(D)
    BY <1>3, <2>3 DEF StrictSubsetOrdering
  <2>5. h0[T \ {Max(T)}] = LatestAt(s, T \ {Max(T)})
    BY <2>2, <2>4
  <2> QED
    BY <1>3, <1>6, <2>3, <2>5
<1> QED
  BY <1>2, <1>7 DEF Latest
-----------------------------------------------------------------------------
(* Sorting. *)

\* Sorting by time leaves the latest outcome what it was: those of equal times
\* keep their order.
LEMMA SortKeepsLatest ==
    ASSUME NEW s \in Seq(Outcome)
    PROVE  Sorted(s) \in Seq(Outcome) /\ Latest(Sorted(s)) = Latest(s)
<1> DEFINE N == 1 .. Len(s)
           Before(i, j) == \/ s[i].timestamp < s[j].timestamp
                           \/ s[i].timestamp = s[j].timestamp /\ i < j
           order == CHOOSE q \in [N -> N] : \A k, l \in N : k < l => Before(q[k], q[l])
           t == Sorted(s)
<1>1. /\ Len(s) \in Nat /\ IsFiniteSet(N) /\ Cardinality(N) = Len(s)
      /\ \A i \in N : i \in Nat /\ s[i] \in Outcome /\ s[i].timestamp \in Nat
  <2>1. Len(s) \in Nat /\ \A i \in N : i \in Nat /\ s[i] \in Outcome /\ s[i].timestamp \in Nat
    BY OutcomesHaveTimes
  <2>2. 1 \in Int /\ Len(s) \in Int
    BY <2>1
  <2>3. IsFiniteSet(N) /\ Cardinality(N) = IF 1 > Len(s) THEN 0 ELSE Len(s) - 1 + 1
    BY <2>2, FS_Interval
  <2> QED
    BY <2>1, <2>3
<1>2. t = [k \in N |-> s[order[k]]]
  <2> DEFINE q(M) == CHOOSE r \in [M -> N] : \A k, l \in M : k < l => Before(r[k], r[l])
  <2>1. t = [k \in 1 .. Cardinality(N) |-> s[q(1 .. Cardinality(N))[k]]]
    BY Zenon DEF Sorted, Arranged
  <2> QED
    BY <1>1, <2>1
<1>3. \E q \in [N -> N] : \A k, l \in N : k < l => Before(q[k], q[l])
  <2>1. PICK R : \A i, j \in N : <<i, j>> \in R <=> Before(i, j)
    <3>1. \A i, j \in N : <<i, j>> \in {z \in N \X N : Before(z[1], z[2])} <=> Before(i, j)
      OBVIOUS
    <3> QED
      BY <3>1
  <2>2. Orders(R, N)
    <3>1. /\ \A i \in N : ~Before(i, i)
          /\ \A i, j \in N : i = j \/ Before(i, j) \/ Before(j, i)
          /\ \A i, j, k \in N : Before(i, j) /\ Before(j, k) => Before(i, k)
      BY <1>1
    <3> HIDE DEF Before
    <3> QED
      BY <2>1, <3>1 DEF Orders
  <2>3. PICK q : IsListed(q, R, N)
    BY <1>1, <2>2, ListExists
  <2> HIDE DEF Before
  <2>4. q \in [N -> N] /\ \A k, l \in N : k < l => <<q[k], q[l]>> \in R
    BY <1>1, <2>3 DEF IsListed
  <2>5. \A k, l \in N : k < l => Before(q[k], q[l])
    BY <2>1, <2>4
  <2> QED
    BY <2>4, <2>5
<1>4. order \in [N -> N] /\ \A k, l \in N : k < l => Before(order[k], order[l])
  <2> HIDE DEF Before
  <2> QED
    BY <1>3
<1> HIDE DEF order, t
<1>5. /\ t \in Seq(Outcome) /\ Len(t) = Len(s)
      /\ \A k \in N : order[k] \in N /\ t[k] = s[order[k]] /\ t[k].timestamp \in Nat
  <2>1. t \in [1 .. Len(s) -> Outcome] /\ \A k \in N : order[k] \in N /\ t[k] = s[order[k]]
    BY <1>1, <1>2, <1>4
  <2> QED
    BY <1>1, <2>1
<1>6. \A i \in N : \E k \in N : order[k] = i
  <2>1. \A k, l \in N : order[k] = order[l] => k = l
    <3> SUFFICES ASSUME NEW k \in N, NEW l \in N, k < l PROVE order[k] # order[l]
      BY <1>1
    <3>1. Before(order[k], order[l]) /\ order[k] \in N
      BY <1>4
    <3> QED
      BY <1>1, <3>1
  <2>2. order \in Injection(N, N)
    BY <1>4, <2>1 DEF Injection, IsInjective
  <2>3. order \in Surjection(N, N)
    BY <1>1, <2>2, FS_Injection
  <2> QED
    BY <2>3 DEF Surjection
<1>7. CASE N = {}
  <2>1. LatestAt(s, N) = {} /\ LatestAt(t, N) = {}
    BY <1>1, <1>5, <1>7, LatestExists
  <2> QED
    BY <1>5, <2>1 DEF Latest, t
<1>8. CASE N # {}
  <2>1. PICK k \in N : IsLatest(t, N, k)
    BY <1>1, <1>5, <1>8, LatestExists
  <2>2. LatestAt(t, N) = {t[k]}
    <3>1. t \in Seq(Outcome) /\ N \subseteq 1 .. Len(t) /\ IsFiniteSet(N)
      BY <1>1, <1>5
    <3> HIDE DEF N
    <3> QED
      BY <2>1, <3>1, LatestExists
  <2>3. order[k] \in N /\ t[k] = s[order[k]]
    BY <1>5
  <2>4. IsLatest(s, N, order[k])
    <3> SUFFICES ASSUME NEW j \in N
                 PROVE  /\ s[j].timestamp <= s[order[k]].timestamp
                        /\ j < order[k] => s[j].timestamp # s[order[k]].timestamp
      BY DEF IsLatest
    <3>1. PICK l \in N : order[l] = j
      BY <1>6
    <3>2. t[l] = s[j] /\ t[l].timestamp \in Nat /\ t[k].timestamp \in Nat
      BY <1>5, <3>1
    <3>3. t[l].timestamp <= t[k].timestamp /\ (l < k => t[l].timestamp # t[k].timestamp)
      BY <2>1 DEF IsLatest
    <3>4. ASSUME t[l].timestamp = t[k].timestamp PROVE ~(j < order[k])
      <4>1. l = k \/ k < l
        BY <1>1, <3>3, <3>4
      <4>2. k < l => Before(order[k], order[l])
        BY <1>4
      <4>3. k < l => order[k] < j
        BY <1>1, <2>3, <3>1, <3>2, <3>4, <4>2
      <4> QED
        BY <1>1, <2>3, <3>1, <4>1, <4>3
    <3> QED
      BY <2>3, <3>2, <3>3, <3>4
  <2>5. LatestAt(s, N) = {s[order[k]]}
    BY <1>1, <2>3, <2>4, LatestExists
  <2> QED
    BY <1>5, <2>2, <2>3, <2>5 DEF Latest, t
<1> QED
  BY <1>5, <1>7, <1>8 DEF t

\* What one store finds is what the other finds, for the value (get_calibration,
\* jsonl.py:69-109, sqlite.py:111-157) and for the hash (snapshot.py:155-185), before and
\* after a restart.
THEOREM StoresAgree ==
    ASSUME NEW s \in Seq(Outcome), NEW b
    PROVE  /\ Scored(b, s) = Latest(s)
           /\ Hashed(Stored(b, s)) = Latest(s)
           /\ Scored(b, Sorted(s)) = Latest(s)
           /\ Hashed(Stored(b, Sorted(s))) = Latest(s)
<1>1. Sorted(s) \in Seq(Outcome) /\ Latest(Sorted(s)) = Latest(s)
  BY SortKeepsLatest
<1>2. Latest(Sorted(Sorted(s))) = Latest(s) /\ Sorted(Sorted(s)) \in Seq(Outcome)
  BY <1>1, SortKeepsLatest
<1>3. Scanned(Sorted(s)) = Latest(s) /\ Scanned(Sorted(Sorted(s))) = Latest(s)
  BY <1>1, <1>2, ScanFindsLatest
<1> QED
  BY <1>1, <1>2, <1>3 DEF Scored, Stored, Hashed
-----------------------------------------------------------------------------
(* The invariant. *)

\* The part of a hash that is about the agent's scored proposals.
FromHash(hash) ==
    [p \in {q \in DOMAIN hash : q.agent = Self /\ hash[q].success # {}} |-> hash[p]]

\* The types of the variables.
TypeInv ==
    /\ backend \in {"jsonl", "sqlite"}
    /\ emitted \subseteq Proposal /\ copied \subseteq Proposal
    /\ reports \in [Deliberations -> Seq(Outcome)]

\* What was kept has the agent's part of its hash for its sample without times.
KeptInv == kept # None => Rounded(kept.sample) = FromHash(kept.hash)

IInv == TypeInv /\ KeptInv

\* The two readings of a snapshot, in terms of the latest outcomes.
Told(outcomes, p) == Latest(outcomes[p.deliberation])

ScoredFor(outcomes, domain) == {p \in Held(domain) : p.agent = Self /\ Told(outcomes, p) # {}}

SampleRead(outcomes, domain) ==
    [p \in ScoredFor(outcomes, domain) |->
        [times |-> Entries(p), outcome |-> Told(outcomes, p)]]

HashRead(outcomes, domain) ==
    [p \in Held(domain) |->
        [times |-> Entries(p), success |-> Shown(SuccessIn(Told(outcomes, p)))]]

LEMMA Readings ==
    ASSUME TypeInv, NEW b, NEW outcomes \in [Deliberations -> Seq(Outcome)], NEW domain
    PROVE  /\ Sample(b, outcomes, Self, domain) = SampleRead(outcomes, domain)
           /\ JournalHash(b, outcomes, domain) = HashRead(outcomes, domain)
<1>1. \A p \in Held(domain) : outcomes[p.deliberation] \in Seq(Outcome)
  BY DEF TypeInv, Held, Proposal
<1>2. \A p \in Held(domain) :
         /\ Scored(b, outcomes[p.deliberation]) = Told(outcomes, p)
         /\ Hashed(Stored(b, outcomes[p.deliberation])) = Told(outcomes, p)
  BY <1>1, StoresAgree DEF Told
<1> QED
  BY <1>2 DEF Sample, JournalHash, SampleRead, HashRead, ScoredFor

\* To four decimals and without times, the sample can be read off the hash of the
\* same snapshot.
LEMMA SampleIsInHash ==
    ASSUME TypeInv, NEW domain
    PROVE  LET now == Snapshot(backend, reports, domain)
           IN  Rounded(now.sample) = FromHash(now.hash)
<1> DEFINE sample == SampleRead(reports, domain)
           hash == HashRead(reports, domain)
           A == ScoredFor(reports, domain)
           Line(p) == [times |-> Entries(p), success |-> Shown(SuccessIn(Told(reports, p)))]
<1>1. /\ Snapshot(backend, reports, domain).sample = sample
      /\ Snapshot(backend, reports, domain).hash = hash
  <2>1. reports \in [Deliberations -> Seq(Outcome)]
    BY DEF TypeInv
  <2> QED
    BY <2>1, Readings DEF Snapshot
<1>2. ASSUME NEW p
      PROVE  Line(p).success # {} <=> Told(reports, p) # {}
  <2>1. SuccessIn(Told(reports, p)) = {} <=> Told(reports, p) = {}
    BY DEF SuccessIn
  <2>2. Shown(SuccessIn(Told(reports, p))) = {} <=> SuccessIn(Told(reports, p)) = {}
    BY DEF Shown
  <2> QED
    BY <2>1, <2>2
<1>3. Rounded(sample) = [p \in A |-> Line(p)]
  <2>1. DOMAIN sample = A
    BY DEF SampleRead
  <2>2. \A p \in A : [times |-> sample[p].times,
                      success |-> Shown(SuccessIn(sample[p].outcome))] = Line(p)
    BY DEF SampleRead
  <2> HIDE DEF sample, A, Line
  <2> QED
    BY <2>1, <2>2 DEF Rounded
<1>4. FromHash(hash) = [p \in A |-> Line(p)]
  <2>1. DOMAIN hash = Held(domain) /\ \A p \in Held(domain) : hash[p] = Line(p)
    BY DEF HashRead
  <2>2. \A p : p \in A <=> p \in Held(domain) /\ p.agent = Self /\ Told(reports, p) # {}
    BY DEF ScoredFor
  <2> HIDE DEF hash, A, Line
  <2>3. {p \in DOMAIN hash : p.agent = Self /\ hash[p].success # {}} = A
    BY <1>2, <2>1, <2>2
  <2>4. \A p \in A : hash[p] = Line(p)
    BY <2>1, <2>2
  <2> QED
    BY <2>3, <2>4 DEF FromHash
<1> QED
  BY <1>1, <1>3, <1>4

LEMMA InvInit == Init => IInv
  BY DEF Init, IInv, TypeInv, KeptInv

\* Journals get proposals and outcomes of the right kind, also by a sort.
LEMMA TypeNext == TypeInv /\ [Next]_vars => TypeInv'
<1> SUFFICES ASSUME TypeInv, [Next]_vars PROVE TypeInv'
  OBVIOUS
<1> USE DEF TypeInv, journal
<1>1. ASSUME NEW d \in Deliberations, NEW domain \in Domains, Propose(d, domain) PROVE TypeInv'
  <2>1. [deliberation |-> d, agent |-> Self, domain |-> domain] \in Proposal
    BY DEF Proposal, Agents
  <2> QED
    BY <1>1, <2>1 DEF Propose
<1>2. ASSUME NEW d \in Deliberations, NEW answered \in SUBSET Agents, Persist(d, answered)
      PROVE  TypeInv'
  <2>1. \A a \in Agents : InRun(d, a) \in Proposal
    BY CalibrationAssumption DEF InRun, Proposal
  <2> QED
    BY <1>2, <2>1 DEF Persist
<1>3. ASSUME NEW d \in Deliberations, NEW o \in Outcome, RecordOutcome(d, o) PROVE TypeInv'
  <2>1. Append(reports[d], o) \in Seq(Outcome)
    OBVIOUS
  <2> QED
    BY <1>3, <2>1 DEF RecordOutcome
<1>4. CASE Restart
  <2>1. \A d \in Deliberations : Sorted(reports[d]) \in Seq(Outcome)
    BY SortKeepsLatest
  <2> QED
    BY <1>4, <2>1 DEF Restart
<1>5. ASSUME NEW domain \in Domains, Publish(domain) PROVE TypeInv'
  BY <1>5 DEF Publish
<1>6. CASE UNCHANGED vars
  BY <1>6 DEF vars
<1> QED
  BY <1>1, <1>2, <1>3, <1>4, <1>5, <1>6 DEF Next

\* A snapshot is kept as it was published.
LEMMA KeptNext == IInv /\ [Next]_vars => KeptInv'
<1> SUFFICES ASSUME IInv, [Next]_vars PROVE KeptInv'
  OBVIOUS
<1>1. CASE kept' = kept
  BY <1>1 DEF IInv, KeptInv
<1>2. ASSUME NEW domain \in Domains, Publish(domain) PROVE KeptInv'
  <2>1. kept' = Snapshot(backend, reports, domain)
    BY <1>2 DEF Publish
  <2> QED
    BY <2>1, SampleIsInHash DEF IInv, KeptInv
<1> QED
  BY <1>1, <1>2 DEF Next, Propose, Persist, RecordOutcome, Restart, vars
-----------------------------------------------------------------------------
\* The invariant from which the others follow: the types, and that a snapshot that was
\* kept has in its hash the proposals of its sample, as often, and the successes they are
\* scored against, to four decimals (snapshot.py:106-185).
THEOREM CalibrationInvariance == Spec => []IInv
<1>1. IInv /\ [Next]_vars => IInv'
  BY TypeNext, KeptNext DEF IInv
<1> QED
  BY <1>1, InvInit, PTL DEF Spec

\* An unchanged hash means the same proposals scored against the same successes to four
\* decimals, whatever was proposed, reported, corrected or restarted in between; of the
\* times of the outcomes it says nothing.
THEOREM HashStandsForScores == Spec => []HashFixesScores
<1>1. IInv => HashFixesScores
  <2> SUFFICES ASSUME IInv, kept # None,
                      Snapshot(backend, reports, kept.domain).hash = kept.hash
               PROVE  Rounded(Snapshot(backend, reports, kept.domain).sample)
                         = Rounded(kept.sample)
    BY DEF HashFixesScores
  <2>1. Rounded(kept.sample) = FromHash(kept.hash)
    BY DEF IInv, KeptInv
  <2> QED
    BY <2>1, SampleIsInHash DEF IInv
<1> QED
  BY <1>1, CalibrationInvariance, PTL

\* A peer that replays the journal it is served, in either store, gets the same
\* hash and the same sample with its times.
THEOREM ReplaysAgree == Spec => []ReplayAgrees
<1>1. IInv => ReplayAgrees
  <2> DEFINE served == [d \in Deliberations |-> Sorted(reports[d])]
  <2> SUFFICES ASSUME IInv, NEW domain \in Domains, NEW b \in {"jsonl", "sqlite"}
               PROVE  Snapshot(b, served, domain) = Snapshot(backend, reports, domain)
    BY DEF ReplayAgrees
  <2>1. /\ reports \in [Deliberations -> Seq(Outcome)]
        /\ \A d \in Deliberations : Sorted(reports[d]) \in Seq(Outcome)
                                    /\ Latest(Sorted(reports[d])) = Latest(reports[d])
    BY SortKeepsLatest DEF IInv, TypeInv
  <2>2. /\ served \in [Deliberations -> Seq(Outcome)]
        /\ \A d \in Deliberations : Latest(served[d]) = Latest(reports[d])
    BY <2>1
  <2> HIDE DEF served
  <2>3. \A p \in Held(domain) : Told(served, p) = Told(reports, p)
    BY <2>2 DEF IInv, TypeInv, Held, Proposal, Told
  <2>4. /\ Sample(b, served, Self, domain) = Sample(backend, reports, Self, domain)
        /\ JournalHash(b, served, domain) = JournalHash(backend, reports, domain)
    <3>1. ScoredFor(served, domain) = ScoredFor(reports, domain)
      BY <2>3 DEF ScoredFor
    <3>2. \A p \in ScoredFor(reports, domain) : Told(served, p) = Told(reports, p)
      BY <2>3 DEF ScoredFor
    <3>3. /\ SampleRead(served, domain) = SampleRead(reports, domain)
          /\ HashRead(served, domain) = HashRead(reports, domain)
      BY <2>3, <3>1, <3>2 DEF SampleRead, HashRead
    <3> QED
      BY <2>1, <2>2, <3>3, Readings DEF IInv
  <2> QED
    BY <2>4 DEF Snapshot
<1> QED
  BY <1>1, CalibrationInvariance, PTL
=============================================================================
