--------------------------- MODULE PostDebateProofs ---------------------------
(***************************************************************************)
(* Proofs about PostDebate: any issue tree, evidence, answers of the LLM   *)
(* and figures.  What the engines do with lists comes first, then each     *)
(* engine's result, then the invariants.                                   *)
(***************************************************************************)
EXTENDS PostDebate, FiniteSetTheorems, TLAPS

----------------------------------------------------------------------------
(* Lists *)

\* Induction over a number: the least one of which something holds.
LEMMA LeastNumber ==
    ASSUME NEW S \in SUBSET Nat, S # {}
    PROVE  \E x \in S : \A y \in S : x <= y
<1> DEFINE R == {ss \in Nat \X Nat : ss[1] < ss[2]}
<1>1. IsWellFoundedOn(R, Nat)
  BY NatLessThanWellFounded DEF OpToRel
<1> HIDE DEF R
<1>2. PICK x \in S : \A y \in S : ~ (<<y, x>> \in R)
  BY <1>1, WFMin
<1>3. \A y \in S : ~ (y < x)
  BY <1>2 DEF R
<1> QED BY <1>3

\* The least of some numbers is one of them.
LEMMA MinIsIn ==
    ASSUME NEW S \in SUBSET Nat, S # {}
    PROVE  Min(S) \in S
BY LeastNumber DEF Min

StrictOrder(S, before) ==
    /\ \A x \in S : <<x, x>> \notin before
    /\ \A x, y \in S : x # y => <<x, y>> \in before \/ <<y, x>> \in before
    /\ \A x, y, z \in S : <<x, y>> \in before /\ <<y, z>> \in before => <<x, z>> \in before

\* Arranged has every member of the set once, in the order of the relation: the number
\* of members before x determines x, and takes every value below the size of the set.
LEMMA ArrangedInOrder ==
    ASSUME NEW S, IsFiniteSet(S), NEW before, StrictOrder(S, before)
    PROVE  LET r == Arranged(S, before)
               N == Cardinality(S)
           IN  /\ N \in Nat
               /\ r \in [1..N -> S]
               /\ \A x \in S : \E n \in 1..N : r[n] = x
               /\ \A m, n \in 1..N : <<r[m], r[n]>> \in before <=> m < n
<1> DEFINE r == Arranged(S, before)
           N == Cardinality(S)
           Below(x) == {y \in S : <<y, x>> \in before}
           Nth(n) == CHOOSE x \in S : Cardinality(Below(x)) = n - 1
           rank == [x \in S |-> Cardinality(Below(x)) + 1]
<1>1. N \in Nat
  BY FS_CardinalityType
<1>2. ASSUME NEW x \in S
      PROVE  IsFiniteSet(Below(x)) /\ Cardinality(Below(x)) \in Nat /\ Cardinality(Below(x)) < N
  <2>1. Below(x) \in SUBSET S /\ Below(x) # S
    BY DEF StrictOrder
  <2>2. IsFiniteSet(Below(x)) /\ Cardinality(Below(x)) <= N /\ Cardinality(Below(x)) # N
    BY <2>1, FS_Subset
  <2>3. Cardinality(Below(x)) \in Nat
    BY <2>2, FS_CardinalityType
  <2> QED BY <1>1, <2>2, <2>3
<1>3. ASSUME NEW x \in S, NEW y \in S, <<x, y>> \in before
      PROVE  Cardinality(Below(x)) < Cardinality(Below(y))
  <2>1. Below(x) \in SUBSET Below(y) /\ Below(x) # Below(y)
    BY <1>3 DEF StrictOrder
  <2>2. Cardinality(Below(x)) <= Cardinality(Below(y)) /\ Cardinality(Below(y)) # Cardinality(Below(x))
    BY <1>2, <2>1, FS_Subset
  <2>3. Cardinality(Below(x)) \in Nat /\ Cardinality(Below(y)) \in Nat
    BY <1>2
  <2> HIDE DEF Below
  <2> QED BY <2>2, <2>3
<1>4. \A x, y \in S : Cardinality(Below(x)) = Cardinality(Below(y)) => x = y
  <2> SUFFICES ASSUME NEW x \in S, NEW y \in S, x # y
               PROVE  Cardinality(Below(x)) # Cardinality(Below(y))
    OBVIOUS
  <2>1. <<x, y>> \in before \/ <<y, x>> \in before
    BY DEF StrictOrder
  <2>2. Cardinality(Below(x)) \in Nat /\ Cardinality(Below(y)) \in Nat
    BY <1>2
  <2>3. Cardinality(Below(x)) < Cardinality(Below(y)) \/ Cardinality(Below(y)) < Cardinality(Below(x))
    BY <1>3, <2>1
  <2> HIDE DEF Below
  <2> QED BY <2>2, <2>3
<1>5. rank \in Surjection(S, 1..N)
  <2>1. \A x \in S : rank[x] = Cardinality(Below(x)) + 1 /\ rank[x] \in 1..N
    <3> SUFFICES ASSUME NEW x \in S PROVE Cardinality(Below(x)) + 1 \in 1..N
      OBVIOUS
    <3> HIDE DEF Below, N
    <3> QED BY <1>1, <1>2
  <2>2. rank \in Injection(S, 1..N)
    <3>1. \A x, y \in S : rank[x] = rank[y] => x = y
      <4> SUFFICES ASSUME NEW x \in S, NEW y \in S, rank[x] = rank[y] PROVE x = y
        OBVIOUS
      <4>1. Cardinality(Below(x)) \in Nat /\ Cardinality(Below(y)) \in Nat
        BY <1>2
      <4>2. Cardinality(Below(x)) + 1 = Cardinality(Below(y)) + 1
        BY <2>1
      <4>3. Cardinality(Below(x)) = Cardinality(Below(y))
        <5> HIDE DEF Below
        <5> QED BY <4>1, <4>2
      <4> QED BY <1>4, <4>3
    <3>2. rank \in [S -> 1..N]
      BY <2>1
    <3> HIDE DEF rank
    <3> QED BY <3>1, <3>2 DEF Injection, IsInjective
  <2>3. IsFiniteSet(1..N) /\ Cardinality(1..N) = N
    BY <1>1, FS_Interval
  <2> HIDE DEF rank, N
  <2>4. Cardinality(S) = Cardinality(1..N) <=> rank \in Surjection(S, 1..N)
    BY <2>2, <2>3, FS_Injection
  <2> QED BY <2>3, <2>4 DEF N
<1>6. ASSUME NEW n \in 1..N PROVE r[n] \in S /\ Cardinality(Below(r[n])) = n - 1
  <2>1. PICK x \in S : rank[x] = n
    BY <1>5 DEF Surjection
  <2>2. Cardinality(Below(x)) \in Nat /\ Cardinality(Below(x)) + 1 = n
    BY <1>2, <2>1
  <2>3. Cardinality(Below(x)) = n - 1
    <3> HIDE DEF Below
    <3> QED BY <2>2
  <2>4. r[n] = CHOOSE y \in S : Cardinality(Below(y)) = n - 1
    BY DEF Arranged
  <2> HIDE DEF r, Below
  <2> QED BY <2>3, <2>4
<1>7. r \in [1..N -> S]
  <2>1. r = [n \in 1..N |-> Nth(n)]
    BY DEF Arranged
  <2> HIDE DEF r, Nth, N
  <2>2. \A n \in 1..N : r[n] \in S
    BY <1>6
  <2> QED BY <2>1, <2>2
<1>8. ASSUME NEW x \in S PROVE \E n \in 1..N : r[n] = x
  <2>1. Cardinality(Below(x)) \in Nat /\ Cardinality(Below(x)) < N
    BY <1>2
  <2> DEFINE n == Cardinality(Below(x)) + 1
  <2>2. n \in 1..N /\ n - 1 = Cardinality(Below(x))
    <3> HIDE DEF Below, N
    <3> QED BY <1>1, <2>1
  <2>3. r[n] \in S /\ Cardinality(Below(r[n])) = Cardinality(Below(x))
    <3> HIDE DEF n, Below, r, N
    <3> QED BY <1>6, <2>2
  <2>4. r[n] = x
    <3> HIDE DEF n, r
    <3> QED BY <1>4, <2>3
  <2> HIDE DEF r, N, n
  <2> QED BY <2>2, <2>4
<1>9. ASSUME NEW m \in 1..N, NEW n \in 1..N PROVE <<r[m], r[n]>> \in before <=> m < n
  <2> HIDE DEF r, Below, N
  <2>1. r[m] \in S /\ r[n] \in S /\ Cardinality(Below(r[m])) = m - 1 /\ Cardinality(Below(r[n])) = n - 1
    BY <1>6
  <2>2. <<r[m], r[n]>> \in before => m < n
    <3> SUFFICES ASSUME <<r[m], r[n]>> \in before PROVE m < n
      OBVIOUS
    <3>1. Cardinality(Below(r[m])) < Cardinality(Below(r[n]))
      BY <1>3, <2>1 DEF Below
    <3> QED BY <1>1, <2>1, <3>1
  <2>3. <<r[n], r[m]>> \in before => n < m
    <3> SUFFICES ASSUME <<r[n], r[m]>> \in before PROVE n < m
      OBVIOUS
    <3>1. Cardinality(Below(r[n])) < Cardinality(Below(r[m]))
      BY <1>3, <2>1 DEF Below
    <3> QED BY <1>1, <2>1, <3>1
  <2>4. m < n => r[m] # r[n]
    BY <1>1, <2>1
  <2>5. ~ (m < n /\ n < m)
    BY <1>1
  <2> QED BY <2>1, <2>2, <2>3, <2>4, <2>5 DEF StrictOrder
<1> HIDE DEF r, N
<1> QED BY <1>1, <1>7, <1>8, <1>9 DEF r, N

\* Ascending has the numbers of a finite set in their order.
LEMMA AscendingInOrder ==
    ASSUME NEW k \in Nat, NEW P \in SUBSET (1..k)
    PROVE  LET r == Ascending(P)
               N == Cardinality(P)
           IN  /\ N \in Nat
               /\ r \in [1..N -> P]
               /\ \A x \in P : \E n \in 1..N : r[n] = x
               /\ \A m, n \in 1..N : r[m] < r[n] <=> m < n
<1> DEFINE before == {s \in P \X P : s[1] < s[2]}
           r == Arranged(P, before)
           N == Cardinality(P)
<1>1. IsFiniteSet(P)
  <2>1. IsFiniteSet(1..k)
    BY FS_Interval
  <2> QED BY <2>1, FS_Subset
<1>2. \A x, y \in P : <<x, y>> \in before <=> x < y
  OBVIOUS
<1>3. StrictOrder(P, before)
  <2> HIDE DEF before
  <2> QED BY <1>2 DEF StrictOrder
<1>4. /\ N \in Nat /\ r \in [1..N -> P]
      /\ \A x \in P : \E n \in 1..N : r[n] = x
      /\ \A m, n \in 1..N : <<r[m], r[n]>> \in before <=> m < n
  <2> HIDE DEF before
  <2> QED BY <1>1, <1>3, ArrangedInOrder
<1>5. \A m, n \in 1..N : r[m] < r[n] <=> m < n
  <2> SUFFICES ASSUME NEW m \in 1..N, NEW n \in 1..N PROVE r[m] < r[n] <=> m < n
    OBVIOUS
  <2>1. r[m] \in P /\ r[n] \in P /\ (<<r[m], r[n]>> \in before <=> m < n)
    <3> HIDE DEF r, N
    <3> QED BY <1>4
  <2> HIDE DEF r, before
  <2> QED BY <1>2, <2>1
<1>6. Ascending(P) = r
  BY DEF Ascending
<1> HIDE DEF r, N
<1> QED BY <1>4, <1>5, <1>6 DEF N

\* At keeps exactly what s has at the places, in the order of the places.
LEMMA AtKeeps ==
    ASSUME NEW X, NEW s \in Seq(X), NEW P \in SUBSET (DOMAIN s)
    PROVE  LET a == At(s, P)
           IN  /\ a \in Seq({s[p] : p \in P})
               /\ \A p \in P : \E n \in DOMAIN a : a[n] = s[p]
               /\ \A m, n \in DOMAIN a : m < n => \E p, q \in P : p < q /\ a[m] = s[p] /\ a[n] = s[q]
<1> DEFINE r == Ascending(P)
           N == Cardinality(P)
           a == At(s, P)
<1>1. DOMAIN s = 1..Len(s) /\ Len(s) \in Nat
  OBVIOUS
<1>2. /\ N \in Nat /\ r \in [1..N -> P]
      /\ \A x \in P : \E n \in 1..N : r[n] = x
      /\ \A m, n \in 1..N : r[m] < r[n] <=> m < n
  BY <1>1, AscendingInOrder
<1>3. a = [n \in 1..N |-> s[r[n]]]
  <2>1. a = [n \in DOMAIN r |-> s[r[n]]]
    BY DEF At
  <2> HIDE DEF r, N, a
  <2> QED BY <1>2, <2>1
<1> HIDE DEF r, N, a
<1>4. DOMAIN a = 1..N /\ \A n \in 1..N : r[n] \in P /\ a[n] = s[r[n]]
  BY <1>2, <1>3
<1>5. a \in Seq({s[p] : p \in P})
  <2>1. a \in [1..N -> {s[p] : p \in P}]
    BY <1>3, <1>4
  <2> QED BY <1>2, <2>1
<1>6. \A p \in P : \E n \in DOMAIN a : a[n] = s[p]
  BY <1>2, <1>4
<1>7. \A m, n \in DOMAIN a : m < n => \E p, q \in P : p < q /\ a[m] = s[p] /\ a[n] = s[q]
  BY <1>2, <1>4
<1> QED BY <1>5, <1>6, <1>7 DEF a

\* In particular nothing that is kept of a list leaves its type, ...
LEMMA AtTyped ==
    ASSUME NEW X, NEW s \in Seq(X), NEW P \in SUBSET (DOMAIN s), NEW T,
           \A p \in P : s[p] \in T
    PROVE  At(s, P) \in Seq(T) /\ DOMAIN At(s, P) = 1..Len(At(s, P)) /\ Len(At(s, P)) \in Nat
<1> DEFINE a == At(s, P)
<1>1. a \in Seq({s[p] : p \in P})
  BY AtKeeps
<1>2. {s[p] : p \in P} \subseteq T
  OBVIOUS
<1> HIDE DEF a
<1>3. a \in Seq(T)
  <2>1. Len(a) \in Nat /\ DOMAIN a = 1..Len(a) /\ \A n \in 1..Len(a) : a[n] \in {s[p] : p \in P}
    BY <1>1
  <2>2. a = [n \in 1..Len(a) |-> a[n]]
    BY <1>1
  <2> QED BY <1>2, <2>1, <2>2
<1> QED BY <1>3 DEF a

\* ... and if it has no repetitions then what is kept has none.
LEMMA AtInjective ==
    ASSUME NEW X, NEW s \in Seq(X), NEW P \in SUBSET (DOMAIN s),
           \A p, q \in P : s[p] = s[q] => p = q
    PROVE  IsInjective(At(s, P))
<1> DEFINE a == At(s, P)
<1>1. a \in Seq({s[p] : p \in P})
      /\ \A m, n \in DOMAIN a : m < n => \E p, q \in P : p < q /\ a[m] = s[p] /\ a[n] = s[q]
  BY AtKeeps
<1>2. P \subseteq Nat /\ DOMAIN a \subseteq Nat
  <2> HIDE DEF a
  <2> QED BY <1>1
<1> HIDE DEF a
<1>3. \A m, n \in DOMAIN a : m < n => a[m] # a[n]
  <2> SUFFICES ASSUME NEW m \in DOMAIN a, NEW n \in DOMAIN a, m < n PROVE a[m] # a[n]
    OBVIOUS
  <2>1. PICK p \in P, q \in P : p < q /\ a[m] = s[p] /\ a[n] = s[q]
    BY <1>1
  <2>2. p # q
    BY <1>2, <2>1
  <2> QED BY <2>1, <2>2
<1>4. \A m, n \in DOMAIN a : m # n => m < n \/ n < m
  BY <1>2
<1> QED BY <1>3, <1>4 DEF IsInjective, a

\* The members of s, N of them, come in t from these places: each from one, in the
\* order of key and place.
ComesFrom(t, s, N, key, place) ==
    /\ place \in [1..N -> 1..N]
    /\ t = [n \in 1..N |-> s[place[n]]]
    /\ \A k \in 1..N : \E n \in 1..N : place[n] = k
    /\ \A m, n \in 1..N : m < n <=> \/ key[place[m]] < key[place[n]]
                                    \/ key[place[m]] = key[place[n]] /\ place[m] < place[n]

\* A sorted list is the list in another order, and that order is by key and place.
LEMMA SortArranges ==
    ASSUME NEW X, NEW s \in Seq(X), NEW key, \A n \in DOMAIN s : key[n] \in Int
    PROVE  \E place : ComesFrom(StableSort(s, key), s, Len(s), key, place)
<1> DEFINE N == Len(s)
           D == DOMAIN s
           before == Earlier(s, key)
           r == Arranged(D, before)
<1>1. D = 1..N /\ N \in Nat
  OBVIOUS
<1>2. IsFiniteSet(D) /\ Cardinality(D) = N
  <2> HIDE DEF N, D
  <2>1. IsFiniteSet(1..N) /\ Cardinality(1..N) = N
    BY <1>1, FS_Interval
  <2> QED BY <1>1, <2>1
<1>3. \A m, n \in D : <<m, n>> \in before <=> key[m] < key[n] \/ (key[m] = key[n] /\ m < n)
  BY DEF Earlier
<1>4. StrictOrder(D, before)
  <2> HIDE DEF before
  <2>1. \A n \in D : n \in Int /\ key[n] \in Int
    BY <1>1
  <2> HIDE DEF D
  <2>2. \A x \in D : <<x, x>> \notin before
    BY <1>3, <2>1
  <2>3. \A x, y \in D : x # y => <<x, y>> \in before \/ <<y, x>> \in before
    BY <1>3, <2>1
  <2>4. \A x, y, z \in D : <<x, y>> \in before /\ <<y, z>> \in before => <<x, z>> \in before
    BY <1>3, <2>1
  <2> QED BY <2>2, <2>3, <2>4 DEF StrictOrder
<1>5. /\ r \in [1..N -> D]
      /\ \A x \in D : \E n \in 1..N : r[n] = x
      /\ \A m, n \in 1..N : <<r[m], r[n]>> \in before <=> m < n
  <2> HIDE DEF before, N, D
  <2> QED BY <1>2, <1>4, ArrangedInOrder
<1>6. StableSort(s, key) = [n \in 1..N |-> s[r[n]]]
  <2>1. StableSort(s, key) = [n \in DOMAIN r |-> s[r[n]]]
    BY DEF StableSort
  <2> HIDE DEF r, N
  <2> QED BY <1>5, <2>1
<1>7. \A m, n \in 1..N : m < n <=> \/ key[r[m]] < key[r[n]]
                                   \/ key[r[m]] = key[r[n]] /\ r[m] < r[n]
  <2> HIDE DEF r, N, D, before
  <2> QED BY <1>3, <1>5
<1> HIDE DEF r, N, D, before
<1>8. r \in [1..N -> 1..N] /\ \A k \in 1..N : \E n \in 1..N : r[n] = k
  BY <1>1, <1>5
<1>9. ComesFrom(StableSort(s, key), s, N, key, r)
  BY <1>6, <1>7, <1>8 DEF ComesFrom
<1> QED BY <1>9 DEF N

\* The same members, as often as before.
LEMMA SortKeeps ==
    ASSUME NEW X, NEW s \in Seq(X), NEW key, \A n \in DOMAIN s : key[n] \in Int
    PROVE  LET t == StableSort(s, key)
           IN  /\ t \in Seq(X) /\ Len(t) = Len(s) /\ DOMAIN t = 1..Len(s)
               /\ Range(t) = Range(s)
               /\ IsInjective(s) => IsInjective(t)
<1> DEFINE N == Len(s)
           t == StableSort(s, key)
<1>1. N \in Nat /\ DOMAIN s = 1..N /\ \A n \in 1..N : s[n] \in X
  OBVIOUS
<1>0. PICK place : ComesFrom(t, s, N, key, place)
  BY SortArranges
<1> HIDE DEF t, N
<1>2. /\ place \in [1..N -> 1..N] /\ t = [n \in 1..N |-> s[place[n]]]
      /\ \A k \in 1..N : \E n \in 1..N : place[n] = k
      /\ \A m, n \in 1..N : m < n <=> \/ key[place[m]] < key[place[n]]
                                      \/ key[place[m]] = key[place[n]] /\ place[m] < place[n]
  BY <1>0 DEF ComesFrom
<1>3. t \in Seq(X) /\ Len(t) = N /\ DOMAIN t = 1..N
  <2>1. t \in [1..N -> X]
    BY <1>1, <1>2
  <2> QED BY <1>1, <2>1
<1>4. Range(t) = Range(s)
  BY <1>1, <1>2 DEF Range
<1>5. ASSUME NEW m \in 1..N, NEW n \in 1..N, place[m] = place[n] PROVE m = n
  <2>1. place[n] \in Int /\ key[place[n]] \in Int
    BY <1>1, <1>2
  <2>2. /\ m < n <=> \/ key[place[m]] < key[place[n]]
                     \/ key[place[m]] = key[place[n]] /\ place[m] < place[n]
        /\ n < m <=> \/ key[place[n]] < key[place[m]]
                     \/ key[place[n]] = key[place[m]] /\ place[n] < place[m]
    BY <1>2
  <2> DEFINE p == place[n]
             k == key[p]
  <2>3. (m < n <=> k < k \/ (k = k /\ p < p)) /\ (n < m <=> k < k \/ (k = k /\ p < p))
    BY <1>5, <2>2
  <2>4. p \in Int /\ k \in Int
    BY <2>1
  <2> HIDE DEF p, k
  <2>5. ~ (m < n) /\ ~ (n < m)
    BY <2>3, <2>4
  <2> QED BY <1>1, <2>5
<1>6. IsInjective(s) => IsInjective(t)
  BY <1>1, <1>2, <1>3, <1>5 DEF IsInjective
<1> QED BY <1>3, <1>4, <1>6 DEF t, N

\* The beginning of a list.
LEMMA FirstKeeps ==
    ASSUME NEW X, NEW s \in Seq(X), NEW k \in Nat
    PROVE  LET f == FirstOf(s, k)
           IN  /\ f \in Seq(X) /\ Len(f) <= k /\ Len(f) <= Len(s)
               /\ \A n \in 1..Len(f) : f[n] = s[n]
               /\ k > 0 /\ s # <<>> => f # <<>>
<1> DEFINE m == Min({k, Len(s)})
<1>1. m \in {k, Len(s)} /\ m <= k /\ m <= Len(s)
  <2>1. \E x \in {k, Len(s)} : \A y \in {k, Len(s)} : x <= y
    OBVIOUS
  <2> QED BY <2>1 DEF Min
<1> HIDE DEF m
<1>2. SubSeq(s, 1, m) \in Seq(X) /\ Len(SubSeq(s, 1, m)) = m
      /\ \A n \in 1..m : SubSeq(s, 1, m)[n] = s[n]
  BY <1>1
<1>3. FirstOf(s, k) = SubSeq(s, 1, m)
  BY DEF FirstOf, m
<1> QED BY <1>1, <1>2, <1>3

----------------------------------------------------------------------------
(* IssueRanking *)

\* The tree has every issue once, and in a fixed order.
LEMMA TreeOrderIsAll ==
    TreeOrder \in Seq(Issues) /\ Len(TreeOrder) = NIssues /\ Range(TreeOrder) = Issues
        /\ IsInjective(TreeOrder)
BY AnalysisAssumption DEF AnalysisAssumption, TreeOrder, Issues, Range, IsInjective

\* The judgements that the rules get to see.
IsJudged(judged) == DOMAIN judged \subseteq Issues /\ \A i \in DOMAIN judged : judged[i] \in Judgements

\* A tree in which no issue is missing or twice.
IsRanked(r) ==
    /\ r.order \in Seq(Issues) /\ Range(r.order) = Issues /\ IsInjective(r.order)
    /\ Len(r.order) = NIssues

\* Only issues are judged, however their ids were found, and by judgements of the LLM.
LEMMA MatchedJudged ==
    ASSUME NEW evaluations \in Seq(Evaluation), NEW judged \in Matched(evaluations)
    PROVE  IsJudged(judged)
<1> DEFINE places == IF KnownIn(evaluations) # {} THEN Exactly(evaluations) ELSE Fuzzily(evaluations)
<1>1. PICK at \in places : judged = [i \in DOMAIN at |-> evaluations[at[i]].judgement]
  BY DEF Matched
<1>2. DOMAIN at \subseteq Issues /\ \A i \in DOMAIN at : at[i] \in DOMAIN evaluations
  <2>1. CASE at \in Exactly(evaluations)
    BY <2>1 DEF Exactly, KnownIn
  <2>2. CASE at \in Fuzzily(evaluations)
    <3>1. PICK S \in SUBSET Issues : at \in [S -> DOMAIN evaluations]
      BY <2>2 DEF Fuzzily
    <3> QED BY <3>1
  <2> QED BY <1>1, <2>1, <2>2
<1>3. \A n \in DOMAIN evaluations : evaluations[n].judgement \in Judgements
  <2>1. \A n \in DOMAIN evaluations : evaluations[n] \in Evaluation
    OBVIOUS
  <2> QED BY <2>1 DEF Evaluation
<1> HIDE DEF places
<1> QED BY <1>1, <1>2, <1>3 DEF IsJudged

\* Without a single answer every issue is still in the tree, ...
LEMMA UnrankedIsRanked == IsRanked(Unranked)
BY TreeOrderIsAll DEF IsRanked, Unranked

\* The score of a judged issue is a number, whatever the gates do to it.
LEMMA KeyIsNumber ==
    ASSUME NEW i \in Issues, NEW j \in Judgement
    PROVE  RankKey(Enriched(i, j)) \in Int /\ RankKey(Unjudged) \in Int
<1> DEFINE impact == Impact(j)
<1>1. Bonus(impact) \in Nat
  BY DEF Bonus
<1>2. j.base + Bonus(impact) \in Nat
  BY <1>1 DEF Judgement
<1>3. ASSUME NEW score \in Nat PROVE Gated(i, score) \in Int
  BY DEF Gated
<1>4. Gated(i, j.base + Bonus(impact)) \in Int
  BY <1>2, <1>3
<1>5. \A x : ImpactOrder(x) \in Int
  BY DEF ImpactOrder
<1>6. Enriched(i, j).score = Gated(i, j.base + Bonus(impact)) /\ Unjudged.score = 0
  BY DEF Enriched, Unjudged
<1> HIDE DEF impact
<1> QED BY <1>4, <1>5, <1>6 DEF RankKey

\* ... and sorting by any judgements neither drops nor repeats one.
LEMMA RankedIsRanked ==
    ASSUME NEW judged, IsJudged(judged)
    PROVE  IsRanked(Ranked(judged))
<1> DEFINE issue == [i \in Issues |->
                       IF i \in DOMAIN judged THEN Enriched(i, judged[i]) ELSE Unjudged]
           key == [i \in Issues |-> RankKey(issue[i])]
<1>1. \A i \in Issues : key[i] \in Int
  <2> SUFFICES ASSUME NEW i \in Issues PROVE RankKey(issue[i]) \in Int
    OBVIOUS
  <2>1. i \in DOMAIN judged => judged[i] \in Judgement
    BY RankingAssumption DEF RankingAssumption, IsJudged
  <2>2. issue[i] = Unjudged \/ (i \in DOMAIN judged /\ issue[i] = Enriched(i, judged[i]))
    OBVIOUS
  <2>3. RankKey(Unjudged) \in Int
    BY DEF RankKey, Unjudged, ImpactOrder
  <2> HIDE DEF issue
  <2> QED BY <2>1, <2>2, <2>3, KeyIsNumber
<1>2. DOMAIN TreeOrder = Issues
  BY DEF TreeOrder
<1>3. Ranked(judged).order = StableSort(TreeOrder, key)
  BY DEF Ranked
<1> HIDE DEF key
<1> QED BY <1>1, <1>2, <1>3, TreeOrderIsAll, SortKeeps DEF IsRanked

----------------------------------------------------------------------------
(* AmountCheck *)

Conflict == {"delta", "disputed", "ratio"}

\* The same item a number of times.
LEMMA ConstantTyped ==
    ASSUME NEW T, NEW x \in T, NEW k \in Nat
    PROVE  [n \in 1..k |-> x] \in Seq(T)
<1> DEFINE s == [n \in 1..k |-> x]
<1>1. s \in [1..k -> T]
  OBVIOUS
<1> HIDE DEF s
<1> QED BY <1>1

\* The report of any figures has a list of conflicts.
LEMMA ConflictsTyped ==
    ASSUME NEW f \in Financials
    PROVE  Report(f).conflicts \in Seq(Conflict)
<1> DEFINE table == [n \in DOMAIN f.claims |-> Entry(f, f.claims[n])]
           wrong == {n \in DOMAIN table : table[n].known /\ Delta(table[n]) # 0}
<1>1. f.claims \in Seq([type : ClaimType, amount : Nat]) /\ f.disputed \in Nat
  BY AmountAssumption DEF AmountAssumption, FinancialInput
<1>2. Len(f.claims) \in Nat /\ DOMAIN f.claims = 1..Len(f.claims)
  BY <1>1
<1>3. wrong \in SUBSET (1..Len(f.claims))
  BY <1>2
<1> HIDE DEF wrong
<1>4. Cardinality(wrong) \in Nat
  <2>1. IsFiniteSet(1..Len(f.claims))
    BY <1>2, FS_Interval
  <2> QED BY <1>3, <2>1, FS_Subset, FS_CardinalityType
<1> DEFINE deltas == [n \in 1..Cardinality(wrong) |-> "delta"]
           disputes == [n \in 1..f.disputed |-> "disputed"]
           last == IF DeliveryRatioNormal(f) THEN <<>> ELSE <<"ratio">>
<1>5. deltas \in Seq(Conflict) /\ disputes \in Seq(Conflict)
  <2>1. "delta" \in Conflict /\ "disputed" \in Conflict
    BY DEF Conflict
  <2> QED BY <1>1, <1>4, <2>1, ConstantTyped
<1>6. last \in Seq(Conflict)
  <2>1. "ratio" \in Conflict
    BY DEF Conflict
  <2>2. <<"ratio">> \in Seq(Conflict) /\ <<>> \in Seq(Conflict)
    BY <2>1
  <2> QED BY <2>2
<1>7. Report(f).conflicts = deltas \o disputes \o last
  BY DEF Report, Conflicts, wrong
<1> HIDE DEF deltas, disputes, last
<1> QED BY <1>5, <1>6, <1>7


----------------------------------------------------------------------------
(* DecisionPaths *)

\* Whatever a call returns is a list.
LEMMA AnswersAreLists ==
    ASSUME NEW Items, NEW items \in Answers(Items)
    PROVE  items \in Seq(Items) /\ DOMAIN items = 1..Len(items) /\ Len(items) \in Nat
<1>1. PICK n \in 0..MaxItems : items \in [1..n -> Items]
  BY DEF Answers
<1>2. n \in Nat
  BY AnalysisAssumption DEF AnalysisAssumption
<1> QED BY <1>1, <1>2

\* A list that is made item by item.
LEMMA MappedTyped ==
    ASSUME NEW X, NEW s \in Seq(X), NEW T, NEW f, DOMAIN f = DOMAIN s, \A n \in DOMAIN s : f[n] \in T,
           f = [n \in DOMAIN s |-> f[n]]
    PROVE  f \in Seq(T) /\ Len(f) = Len(s) /\ DOMAIN f = 1..Len(f)
<1>1. Len(s) \in Nat /\ DOMAIN s = 1..Len(s)
  OBVIOUS
<1>2. f \in [1..Len(s) -> T]
  BY <1>1
<1> QED BY <1>1, <1>2

\* The rules filter the issues and the evidence of a path, what is derived too.
LEMMA PathTyped ==
    ASSUME NEW p \in PathItem
    PROVE  Path(p) \in DecisionPath
<1>1. p.id \in Nat \ {0} /\ p.favours \in {"plaintiff", "defendant", "neutral"}
      /\ p.mentions \subseteq Issues /\ p.fallback \in Nat
  BY DEF PathItem
<1>2. Trigger(p) \subseteq Issues
  BY <1>1 DEF Trigger
<1>3. Key(p) \subseteq Admitted /\ Counter(p) \subseteq Admitted
  BY DEF Key, Counter
<1> QED BY <1>1, <1>2, <1>3 DEF Path, DecisionPath

\* The paths that the rules keep.
LEMMA PathsTyped ==
    ASSUME NEW items \in Answers(PathItems)
    PROVE  Paths(items) \in Seq(DecisionPath)
<1> DEFINE first == FirstOf(items, MaxPaths)
           P == {n \in DOMAIN first : first[n].whole}
           kept == At(first, P)
           paths == [n \in DOMAIN kept |-> Path(kept[n])]
<1>1. items \in Seq(PathItem)
  <2>1. items \in Seq(PathItems) /\ PathItems \subseteq PathItem
    BY AnswersAreLists, PathsAssumption DEF PathsAssumption
  <2> QED BY <2>1
<1>2. first \in Seq(PathItem)
  <2>1. MaxPaths \in Nat
    BY PathsAssumption DEF PathsAssumption
  <2> QED BY <1>1, <2>1, FirstKeeps
<1> HIDE DEF first
<1>3. P \in SUBSET (DOMAIN first) /\ \A p \in P : first[p] \in PathItem
  BY <1>2
<1> HIDE DEF P
<1>4. kept \in Seq(PathItem)
  BY <1>2, <1>3, AtTyped
<1> HIDE DEF kept
<1>5. \A n \in DOMAIN kept : paths[n] \in DecisionPath
  <2> SUFFICES ASSUME NEW n \in DOMAIN kept PROVE Path(kept[n]) \in DecisionPath
    OBVIOUS
  <2>1. kept[n] \in PathItem
    BY <1>4
  <2> QED BY <2>1, PathTyped
<1>6. DOMAIN paths = DOMAIN kept /\ paths = [n \in DOMAIN kept |-> paths[n]]
  OBVIOUS
<1>7. Paths(items) = paths
  BY DEF Paths, kept, P, first
<1> HIDE DEF paths
<1> QED BY <1>4, <1>5, <1>6, <1>7, MappedTyped

\* The ranking has the same paths, so what it is asked for is one of them.
IdsOf(paths) == {paths[n].id : n \in DOMAIN paths}

\* The ranking lists the paths themselves.
LEMMA RankingTyped ==
    ASSUME NEW paths \in Seq(DecisionPath)
    PROVE  LET ranking == PathRanking(paths)
           IN  /\ ranking \in Seq(DecisionPath) /\ Len(ranking) = Len(paths)
               /\ \A n \in DOMAIN ranking : ranking[n].id \in IdsOf(paths)
<1> DEFINE key == [n \in DOMAIN paths |->
                     10000 * PartyOrder(paths[n]) - 100 * Cardinality(paths[n].key) + paths[n].id]
<1>1. ASSUME NEW n \in DOMAIN paths PROVE key[n] \in Int
  <2>1. paths[n] \in DecisionPath
    OBVIOUS
  <2>2. paths[n].key \in SUBSET Evidence /\ paths[n].id \in Nat
    BY <2>1, AnalysisAssumption DEF DecisionPath, AnalysisAssumption
  <2>3. Cardinality(paths[n].key) \in Nat
    BY <2>2, AnalysisAssumption, FS_Subset, FS_CardinalityType DEF AnalysisAssumption
  <2>4. PartyOrder(paths[n]) \in Int
    BY DEF PartyOrder
  <2> QED BY <2>2, <2>3, <2>4
<1>2. PathRanking(paths) = StableSort(paths, key)
  BY DEF PathRanking
<1> HIDE DEF key
<1> DEFINE ranking == PathRanking(paths)
<1>3. /\ ranking \in Seq(DecisionPath) /\ Len(ranking) = Len(paths)
      /\ DOMAIN ranking = 1..Len(paths) /\ Range(ranking) = Range(paths)
  BY <1>1, <1>2, SortKeeps
<1> HIDE DEF ranking
<1>4. \A n \in DOMAIN ranking : ranking[n].id \in IdsOf(paths)
  BY <1>3 DEF Range, IdsOf
<1> QED BY <1>3, <1>4 DEF ranking

\* The most likely path and the best one of a party are paths, or there is none.
LEMMA LikelyIsPath ==
    ASSUME NEW paths \in Seq(DecisionPath)
    PROVE  /\ MostLikely(paths) \in IdsOf(paths) \cup {NoPath}
           /\ \A party : BestPath(paths, party) \in IdsOf(paths) \cup {NoPath}
<1> DEFINE ranking == PathRanking(paths)
<1>1. /\ ranking \in Seq(DecisionPath) /\ Len(ranking) = Len(paths)
      /\ \A n \in DOMAIN ranking : ranking[n].id \in IdsOf(paths)
  BY RankingTyped
<1> HIDE DEF ranking
<1>2. MostLikely(paths) \in IdsOf(paths) \cup {NoPath}
  <2>1. paths # <<>> => 1 \in DOMAIN ranking
    BY <1>1
  <2>2. MostLikely(paths) = IF paths = <<>> THEN NoPath ELSE ranking[1].id
    BY DEF MostLikely, ranking
  <2> QED BY <1>1, <2>1, <2>2
<1>3. ASSUME NEW party PROVE BestPath(paths, party) \in IdsOf(paths) \cup {NoPath}
  <2> DEFINE own == {n \in DOMAIN ranking : ranking[n].favours = party}
  <2>1. own # {} => Min(own) \in DOMAIN ranking
    <3>1. own \in SUBSET Nat
      BY <1>1
    <3>2. own # {} => Min(own) \in own
      BY <3>1, MinIsIn
    <3> QED BY <3>2
  <2>2. BestPath(paths, party) = IF own = {} THEN NoPath ELSE ranking[Min(own)].id
    BY DEF BestPath, ranking
  <2> HIDE DEF own
  <2> QED BY <1>1, <2>1, <2>2
<1> QED BY <1>2, <1>3

\* Every conflict has a condition: one that the LLM has named, or its own.
LEMMA ConditionsTyped ==
    ASSUME NEW conflicts \in Seq(Conflict)
    PROVE  LET blocking == ProcessedConditions(ConditionItems, conflicts)
           IN  /\ blocking \in Seq(BlockingCondition)
               /\ DOMAIN conflicts \subseteq {blocking[n].automatic : n \in DOMAIN blocking}
<1> DEFINE items == ConditionItems
           P == {n \in DOMAIN items : items[n].proper}
           kept == At(items, P)
           taken == {kept[n].automatic : n \in DOMAIN kept}
           left == DOMAIN conflicts \ taken
           open == Ascending(left)
           named == [n \in DOMAIN kept |->
                       [automatic |-> kept[n].automatic, issues |-> kept[n].issues \cap Issues,
                        evidence |-> kept[n].evidence \cap Admitted]]
           own == [n \in DOMAIN open |-> [automatic |-> open[n], issues |-> {}, evidence |-> {}]]
           blocking == ProcessedConditions(ConditionItems, conflicts)
<1>1. items \in Seq(ConditionItem) /\ P \in SUBSET (DOMAIN items)
  BY PathsAssumption DEF PathsAssumption
<1>2. \A p \in P : items[p] \in ConditionItem
  BY <1>1
<1> HIDE DEF P, items
<1>3. kept \in Seq(ConditionItem)
  BY <1>1, <1>2, AtTyped
<1> HIDE DEF kept
<1>4. named \in Seq(BlockingCondition) /\ Len(named) = Len(kept) /\ DOMAIN named = DOMAIN kept
  <2>1. \A n \in DOMAIN kept : named[n] \in BlockingCondition
    <3> SUFFICES ASSUME NEW n \in DOMAIN kept PROVE named[n] \in BlockingCondition
      OBVIOUS
    <3>1. kept[n] \in ConditionItem
      BY <1>3
    <3>2. kept[n].automatic \in Nat
      BY <3>1 DEF ConditionItem
    <3> QED BY <3>2 DEF BlockingCondition
  <2>2. DOMAIN named = DOMAIN kept /\ named = [n \in DOMAIN kept |-> named[n]]
    OBVIOUS
  <2> HIDE DEF named
  <2> QED BY <1>3, <2>1, <2>2, MappedTyped
<1>5. \A n \in DOMAIN kept : named[n].automatic = kept[n].automatic
  OBVIOUS
<1> DEFINE k == Len(conflicts)
           N == Cardinality(left)
<1>6. k \in Nat /\ DOMAIN conflicts = 1..k /\ left \in SUBSET (1..k) /\ left \subseteq Nat
  OBVIOUS
<1> HIDE DEF left, k
<1>7. N \in Nat /\ open \in [1..N -> left] /\ \A x \in left : \E n \in 1..N : open[n] = x
  BY <1>6, AscendingInOrder
<1> HIDE DEF open, N
<1>8. own \in Seq(BlockingCondition) /\ DOMAIN own = 1..N /\ Len(own) = N
  <2>1. \A n \in 1..N : own[n] \in BlockingCondition
    <3> SUFFICES ASSUME NEW n \in 1..N PROVE own[n] \in BlockingCondition
      OBVIOUS
    <3>1. open[n] \in left /\ n \in DOMAIN open
      BY <1>7
    <3>2. open[n] \in Nat
      BY <1>6, <3>1
    <3> QED BY <3>1, <3>2 DEF BlockingCondition
  <2>2. DOMAIN own = 1..N
    BY <1>7
  <2>3. own = [n \in 1..N |-> own[n]]
    BY <1>7
  <2> HIDE DEF own
  <2>4. own \in [1..N -> BlockingCondition]
    BY <2>1, <2>3
  <2> QED BY <1>7, <2>4
<1>9. \A n \in 1..N : own[n].automatic = open[n]
  BY <1>7
<1>10. blocking = named \o own
  BY DEF ProcessedConditions, own, named, open, left, taken, kept, P, items
<1> HIDE DEF named, own, blocking
<1>11. blocking \in Seq(BlockingCondition)
  BY <1>4, <1>8, <1>10
<1>12. ASSUME NEW d \in DOMAIN conflicts
       PROVE  \E n \in DOMAIN blocking : blocking[n].automatic = d
  <2>1. CASE d \in taken
    <3>1. PICK n \in DOMAIN kept : kept[n].automatic = d
      BY <2>1
    <3>2. n \in DOMAIN blocking /\ blocking[n] = named[n]
      BY <1>4, <1>8, <1>10
    <3> QED BY <1>5, <3>1, <3>2
  <2>2. CASE d \notin taken
    <3>1. d \in left
      BY <2>2 DEF left
    <3>2. PICK n \in 1..N : open[n] = d
      BY <1>7, <3>1
    <3>3. Len(named) + n \in DOMAIN blocking /\ blocking[Len(named) + n] = own[n]
      BY <1>4, <1>7, <1>8, <1>10
    <3> QED BY <1>9, <3>2, <3>3
  <2> QED BY <2>1, <2>2
<1> QED BY <1>11, <1>12 DEF blocking

\* The tree that the engine returns.
LEMMA TreeTyped ==
    ASSUME NEW items \in Answers(PathItems), NEW conflicts \in Seq(Conflict)
    PROVE  LET t == Tree(items, conflicts)
           IN  /\ IsDecisionPathTree(t) /\ ~t.failed
               /\ DOMAIN conflicts \subseteq {t.blocking[n].automatic : n \in DOMAIN t.blocking}
<1> DEFINE paths == Paths(items)
           t == Tree(items, conflicts)
<1>1. paths \in Seq(DecisionPath)
  BY PathsTyped
<1>2. /\ t.paths = paths /\ t.likely = MostLikely(paths) /\ ~t.failed
      /\ t.blocking = ProcessedConditions(ConditionItems, conflicts)
      /\ t.best.plaintiff = BestPath(paths, "plaintiff")
      /\ t.best.defendant = BestPath(paths, "defendant")
  BY DEF Tree
<1> HIDE DEF paths, t
<1>3. {t.likely, t.best.plaintiff, t.best.defendant} \subseteq IdsOf(t.paths) \cup {NoPath}
  BY <1>1, <1>2, LikelyIsPath
<1>4. /\ t.blocking \in Seq(BlockingCondition)
      /\ DOMAIN conflicts \subseteq {t.blocking[n].automatic : n \in DOMAIN t.blocking}
  BY <1>2, ConditionsTyped
<1>5. IsDecisionPathTree(t)
  BY <1>1, <1>2, <1>3, <1>4 DEF IsDecisionPathTree, IdsOf
<1> QED BY <1>2, <1>4, <1>5 DEF t

\* A failed call leaves an empty tree, which refers to nothing.
LEMMA EmptyTreeTyped == IsDecisionPathTree(EmptyTree)
<1>1. <<>> \in Seq(DecisionPath) /\ <<>> \in Seq(BlockingCondition)
  OBVIOUS
<1> QED BY <1>1 DEF IsDecisionPathTree, EmptyTree

\* The attacks: sound ones, each id once, and not more than the engine wants.
AttackKept == [id : Nat \ {0}, issue : Issues, evidence : (SUBSET Evidence) \ {{}}, whole : BOOLEAN]

\* What the rules keep of the attacks that a call returns.
LEMMA ChainTyped ==
    ASSUME NEW items \in Answers(AttackItems)
    PROVE  LET c == Chain(items)
           IN  IsAttackChain(c) /\ c.attacks \in Seq(AttackKept) /\ ~c.failed
<1> DEFINE sound == {n \in DOMAIN items : /\ items[n].whole /\ items[n].issue \in Issues
                                          /\ Attack(items[n]).evidence # {}}
           P == {n \in sound : \A m \in sound : m < n => items[m].id # items[n].id}
           all == At(items, P)
           kept == FirstOf(all, MaxAttacks)
           attacks == [n \in DOMAIN kept |-> Attack(kept[n])]
           c == Chain(items)
           Good == {x \in AttackItem : x.issue \in Issues /\ Attack(x).evidence # {}}
<1>1. items \in Seq(AttackItem) /\ MaxAttacks \in Nat
  <2>1. items \in Seq(AttackItems) /\ AttackItems \subseteq AttackItem
    BY AnswersAreLists, PathsAssumption DEF PathsAssumption
  <2> QED BY <2>1, PathsAssumption DEF PathsAssumption
<1>2. P \in SUBSET (DOMAIN items) /\ \A p \in P : items[p] \in Good
  BY <1>1
<1>3. \A p, q \in P : p < q => items[p].id # items[q].id
  OBVIOUS
<1> HIDE DEF P, Good, sound
<1>4. all \in Seq(Good)
      /\ \A m, n \in DOMAIN all : m < n => \E p, q \in P : p < q /\ all[m] = items[p] /\ all[n] = items[q]
  BY <1>1, <1>2, AtTyped, AtKeeps
<1> HIDE DEF all
<1>5. \A m, n \in DOMAIN all : m < n => all[m].id # all[n].id
  <2> SUFFICES ASSUME NEW m \in DOMAIN all, NEW n \in DOMAIN all, m < n PROVE all[m].id # all[n].id
    OBVIOUS
  <2>1. PICK p \in P, q \in P : p < q /\ all[m] = items[p] /\ all[n] = items[q]
    BY <1>4
  <2> QED BY <1>3, <2>1
<1>6. kept \in Seq(Good) /\ Len(kept) <= MaxAttacks /\ Len(kept) <= Len(all)
      /\ \A n \in 1..Len(kept) : kept[n] = all[n]
  BY <1>1, <1>4, FirstKeeps
<1> HIDE DEF kept
<1>7. ASSUME NEW m \in DOMAIN kept, NEW n \in DOMAIN kept, kept[m].id = kept[n].id PROVE m = n
  <2>1. m \in DOMAIN all /\ n \in DOMAIN all /\ all[m].id = all[n].id /\ m \in Nat /\ n \in Nat
    BY <1>4, <1>6, <1>7
  <2> QED BY <1>5, <2>1
<1>8. ASSUME NEW n \in DOMAIN kept PROVE Attack(kept[n]) \in AttackKept /\ Attack(kept[n]).id = kept[n].id
  <2>1. kept[n] \in AttackItem /\ kept[n].issue \in Issues /\ Attack(kept[n]).evidence # {}
    BY <1>6 DEF Good
  <2> QED BY <2>1 DEF Attack, AttackItem, AttackKept
<1>9. attacks \in Seq(AttackKept) /\ Len(attacks) = Len(kept) /\ DOMAIN attacks = DOMAIN kept
      /\ \A n \in DOMAIN kept : attacks[n].id = kept[n].id /\ attacks[n] \in AttackKept
  <2>1. DOMAIN attacks = DOMAIN kept /\ attacks = [n \in DOMAIN kept |-> attacks[n]]
    OBVIOUS
  <2>2. \A n \in DOMAIN kept : attacks[n].id = kept[n].id /\ attacks[n] \in AttackKept
    BY <1>8
  <2> HIDE DEF attacks
  <2> QED BY <1>6, <2>1, <2>2, MappedTyped
<1>10. c.attacks = attacks /\ c.failed = FALSE
  BY DEF Chain, Attacks, kept, all, P, sound
<1> HIDE DEF attacks, c
<1>11. IsAttackChain(c)
  <2>1. Len(c.attacks) <= MaxAttacks
    BY <1>6, <1>9, <1>10
  <2>2. ASSUME NEW n \in DOMAIN c.attacks
        PROVE  [id |-> c.attacks[n].id, issue |-> c.attacks[n].issue,
                evidence |-> c.attacks[n].evidence] \in AttackNode
    BY <1>9, <1>10, <2>2 DEF AttackKept, AttackNode
  <2>3. \A m, n \in DOMAIN c.attacks : c.attacks[m].id = c.attacks[n].id => m = n
    BY <1>7, <1>9, <1>10
  <2> QED BY <2>1, <2>2, <2>3 DEF IsAttackChain
<1> QED BY <1>9, <1>10, <1>11 DEF c

\* A failed call leaves no attacks.
LEMMA EmptyChainTyped == IsAttackChain(EmptyChain) /\ EmptyChain.attacks \in Seq(AttackKept)
<1>1. EmptyChain.attacks = <<>>
  BY DEF EmptyChain
<1>2. MaxAttacks \in Nat
  BY PathsAssumption DEF PathsAssumption
<1> QED BY <1>1, <1>2 DEF IsAttackChain


----------------------------------------------------------------------------
(* ActionAdvice *)

\* A function on a finite set has finitely many values.
LEMMA ImageFinite ==
    ASSUME NEW S, IsFiniteSet(S), NEW f, f = [x \in S |-> f[x]]
    PROVE  IsFiniteSet({f[x] : x \in S})
<1> DEFINE T == {f[x] : x \in S}
<1>1. f \in [S -> T] /\ \A t \in T : \E x \in S : f[x] = t
  OBVIOUS
<1>2. f \in Surjection(S, T)
  BY <1>1 DEF Surjection
<1> HIDE DEF T
<1>3. IsFiniteSet(T)
  BY <1>2, FS_Surjection
<1> QED BY <1>3 DEF T

\* The issues that an action is advised for.
LEMMA AdvisedTyped ==
    ASSUME NEW r, IsRanked(r), NEW action
    PROVE  Advised(r, action) \in Seq(Issues)
<1> DEFINE P == {n \in DOMAIN r.order : r.issue[r.order[n]].action = action}
<1>1. r.order \in Seq(Issues) /\ P \in SUBSET (DOMAIN r.order)
  BY DEF IsRanked
<1>2. \A p \in P : r.order[p] \in Issues
  BY <1>1
<1>3. Advised(r, action) = At(r.order, P)
  BY DEF Advised
<1> HIDE DEF P
<1> QED BY <1>1, <1>2, <1>3, AtTyped

\* The claims of a list of issues: two loops, one in the other.
LEMMA PerClaimTyped ==
    ASSUME NEW issues \in Seq(Issues)
    PROVE  PerClaim(issues) \in Seq(Suggestion)
<1> DEFINE D == DOMAIN issues
           row == [n \in D |-> {n} \X (DOMAIN ClaimsOf[issues[n]])]
           places == UNION {row[n] : n \in D}
           before == Nested(places)
           order == Arranged(places, before)
           N == Cardinality(places)
           claims == [n \in DOMAIN order |->
                        <<issues[order[n][1]], ClaimsOf[issues[order[n][1]]][order[n][2]]>>]
<1>1. ASSUME NEW n \in D
      PROVE  /\ issues[n] \in Issues
             /\ ClaimsOf[issues[n]] \in Seq(STRING)
             /\ Len(ClaimsOf[issues[n]]) \in Nat
             /\ DOMAIN ClaimsOf[issues[n]] = 1..Len(ClaimsOf[issues[n]])
  <2>1. issues[n] \in Issues
    OBVIOUS
  <2>2. ClaimsOf[issues[n]] \in Seq(STRING)
    BY <2>1, AnalysisAssumption DEF AnalysisAssumption
  <2> QED BY <2>1, <2>2
<1>2. D \in SUBSET Nat /\ IsFiniteSet(D)
  <2>1. Len(issues) \in Nat /\ D = 1..Len(issues)
    OBVIOUS
  <2>2. IsFiniteSet(1..Len(issues))
    BY <2>1, FS_Interval
  <2> QED BY <2>1, <2>2
<1>3. \A p \in places : /\ p = <<p[1], p[2]>> /\ p[1] \in D /\ p[1] \in Nat /\ p[2] \in Nat
                        /\ p[2] \in DOMAIN ClaimsOf[issues[p[1]]]
  <2> SUFFICES ASSUME NEW n \in D, NEW p \in row[n]
               PROVE  /\ p = <<p[1], p[2]>> /\ p[1] \in D /\ p[1] \in Nat /\ p[2] \in Nat
                      /\ p[2] \in DOMAIN ClaimsOf[issues[p[1]]]
    OBVIOUS
  <2>1. p \in {n} \X (DOMAIN ClaimsOf[issues[n]])
    OBVIOUS
  <2>2. p = <<p[1], p[2]>> /\ p[1] = n /\ p[2] \in DOMAIN ClaimsOf[issues[n]]
    BY <2>1
  <2> QED BY <1>1, <1>2, <2>2
<1>4. IsFiniteSet(places)
  <2>1. \A n \in D : IsFiniteSet(row[n])
    <3> SUFFICES ASSUME NEW n \in D PROVE IsFiniteSet({n} \X (DOMAIN ClaimsOf[issues[n]]))
      OBVIOUS
    <3>1. IsFiniteSet(1..Len(ClaimsOf[issues[n]]))
      BY <1>1, FS_Interval
    <3>2. IsFiniteSet(DOMAIN ClaimsOf[issues[n]]) /\ IsFiniteSet({n})
      BY <1>1, <3>1, FS_Singleton
    <3> QED BY <3>2, FS_Product
  <2>2. row = [n \in D |-> row[n]]
    OBVIOUS
  <2> HIDE DEF row
  <2>3. IsFiniteSet({row[n] : n \in D})
    BY <1>2, <2>2, ImageFinite
  <2>4. \A T \in {row[n] : n \in D} : IsFiniteSet(T)
    BY <2>1
  <2> QED BY <2>3, <2>4, FS_UNION
<1>5. \A x, y \in places :
         <<x, y>> \in before <=> x[1] < y[1] \/ (x[1] = y[1] /\ x[2] < y[2])
  BY DEF Nested
<1> HIDE DEF row
<1>6. StrictOrder(places, before)
  <2> HIDE DEF places, before
  <2>1. \A x \in places : <<x, x>> \notin before
    BY <1>3, <1>5
  <2>2. ASSUME NEW x \in places, NEW y \in places, x # y
        PROVE  <<x, y>> \in before \/ <<y, x>> \in before
    <3>1. x[1] \in Nat /\ x[2] \in Nat /\ y[1] \in Nat /\ y[2] \in Nat
      BY <1>3
    <3>2. x = <<x[1], x[2]>> /\ y = <<y[1], y[2]>>
      BY <1>3
    <3>3. x[1] # y[1] \/ x[2] # y[2]
      BY <2>2, <3>2
    <3> QED BY <1>5, <3>1, <3>3
  <2>3. \A x, y, z \in places : <<x, y>> \in before /\ <<y, z>> \in before => <<x, z>> \in before
    <3>1. \A x \in places : x[1] \in Nat /\ x[2] \in Nat
      BY <1>3
    <3> QED BY <1>5, <3>1
  <2> QED BY <2>1, <2>2, <2>3 DEF StrictOrder
<1>7. N \in Nat /\ order \in [1..N -> places]
  <2> HIDE DEF places, before
  <2> QED BY <1>4, <1>6, ArrangedInOrder
<1> HIDE DEF places, before, order, N
<1>8. \A n \in 1..N : claims[n] \in Suggestion
  <2> SUFFICES ASSUME NEW n \in 1..N PROVE claims[n] \in Suggestion
    OBVIOUS
  <2> DEFINE p == order[n]
  <2>1. p \in places /\ n \in DOMAIN order
    BY <1>7
  <2> DEFINE i == issues[p[1]]
  <2>2. i \in Issues /\ p[2] \in DOMAIN ClaimsOf[i]
    BY <1>1, <1>3, <2>1
  <2>3. claims[n] = <<i, ClaimsOf[i][p[2]]>>
    BY <2>1
  <2> HIDE DEF claims, i, p
  <2>4. ClaimsOf[i][p[2]] \in Range(ClaimsOf[i])
    BY <2>2 DEF Range
  <2>5. claims[n] \in {i} \X Range(ClaimsOf[i])
    BY <2>3, <2>4
  <2> QED BY <2>2, <2>5 DEF Suggestion
<1>9. claims \in Seq(Suggestion)
  <2>1. claims = [n \in 1..N |-> claims[n]]
    BY <1>7
  <2> HIDE DEF claims
  <2>2. claims \in [1..N -> Suggestion]
    BY <1>8, <2>1
  <2> QED BY <1>7, <2>2
<1>10. PerClaim(issues) = claims
  BY DEF PerClaim, claims, order, before, places, row
<1> QED BY <1>9, <1>10

\* The claims to amend, each with its issue's evidence.
LEMMA AmendmentsTyped ==
    ASSUME NEW issues \in Seq(Issues)
    PROVE  Amendments(issues) \in Seq(Amendment)
<1> DEFINE claims == PerClaim(issues)
           list == [n \in DOMAIN claims |->
                      <<claims[n][1], claims[n][2], EvidenceFor[claims[n][1]]>>]
<1>1. claims \in Seq(Suggestion)
  BY PerClaimTyped
<1>2. Amendments(issues) = list
  BY DEF Amendments
<1> HIDE DEF claims
<1>3. ASSUME NEW n \in DOMAIN claims PROVE list[n] \in Amendment
  <2>1. claims[n] \in Suggestion
    BY <1>1
  <2>2. PICK i \in Issues : claims[n] \in {i} \X Range(ClaimsOf[i])
    BY <2>1 DEF Suggestion
  <2>3. claims[n][1] = i /\ claims[n][2] \in Range(ClaimsOf[i])
    BY <2>2
  <2>4. list[n] = <<i, claims[n][2], EvidenceFor[i]>>
    BY <2>3
  <2> HIDE DEF list
  <2>5. list[n] \in {i} \X Range(ClaimsOf[i]) \X {EvidenceFor[i]}
    BY <2>3, <2>4
  <2> QED BY <2>5 DEF Amendment
<1>4. DOMAIN list = DOMAIN claims /\ list = [n \in DOMAIN claims |-> list[n]]
  OBVIOUS
<1> HIDE DEF list
<1> QED BY <1>1, <1>2, <1>3, <1>4, MappedTyped

\* The issues that the category adds are issues of the tree.
LEMMA InjectedTyped ==
    ASSUME NEW r, IsRanked(r), NEW existing
    PROVE  Injected(r, existing) \in Seq(Issues)
<1> DEFINE P == {n \in DOMAIN r.order : r.order[n] \in Keyworded \ Range(existing)}
           all == At(r.order, P)
<1>1. r.order \in Seq(Issues) /\ P \in SUBSET (DOMAIN r.order)
  BY DEF IsRanked
<1>2. \A p \in P : r.order[p] \in Issues
  BY <1>1
<1>3. Injected(r, existing) \in {<<>>, FirstOf(all, 3)}
  BY DEF Injected
<1> HIDE DEF P
<1>4. all \in Seq(Issues)
  BY <1>1, <1>2, AtTyped
<1> HIDE DEF all
<1>5. FirstOf(all, 3) \in Seq(Issues)
  BY <1>4, FirstKeeps
<1>6. <<>> \in Seq(Issues)
  OBVIOUS
<1> QED BY <1>3, <1>5, <1>6

\* The gaps: those that exist, each id once, and one at least if anything is missing.
LEMMA GapsTyped ==
    /\ GapDescriptors \in Seq(Range(GapIds)) /\ IsInjective(GapDescriptors)
    /\ Missing # <<>> \/ Focus # <<>> => GapDescriptors # <<>>
<1> DEFINE A == [n \in DOMAIN Missing |-> <<"missing">> \o Missing[n]]
           B == [n \in DOMAIN Focus |-> <<"xexam">> \o Focus[n]]
           U == Range(A) \cup Range(B)
           P == {n \in DOMAIN GapIds : \A m \in DOMAIN GapIds : m < n => GapIds[m] # GapIds[n]}
<1>1. /\ Len(Missing) \in Nat /\ DOMAIN Missing = 1..Len(Missing)
      /\ Len(Focus) \in Nat /\ DOMAIN Focus = 1..Len(Focus)
      /\ (Missing # <<>> => Len(Missing) > 0) /\ (Focus # <<>> => Len(Focus) > 0)
  BY AdviceAssumption DEF AdviceAssumption
<1>2. /\ DOMAIN A = 1..Len(Missing) /\ A = [n \in 1..Len(Missing) |-> A[n]]
      /\ DOMAIN B = 1..Len(Focus) /\ B = [n \in 1..Len(Focus) |-> B[n]]
  BY <1>1
<1>3. GapIds = A \o B
  BY DEF GapIds
<1> HIDE DEF A, B
<1>4. /\ A \in Seq(U) /\ Len(A) = Len(Missing)
      /\ B \in Seq(U) /\ Len(B) = Len(Focus)
  <2>1. \A n \in DOMAIN A : A[n] \in U
    BY DEF Range
  <2>2. \A n \in DOMAIN B : B[n] \in U
    BY DEF Range
  <2> HIDE DEF U
  <2>3. A \in [1..Len(Missing) -> U] /\ B \in [1..Len(Focus) -> U]
    BY <1>2, <2>1, <2>2
  <2> QED BY <1>1, <2>3
<1> HIDE DEF U
<1>5. /\ GapIds \in Seq(U) /\ Len(GapIds) = Len(Missing) + Len(Focus)
      /\ DOMAIN GapIds = 1..Len(GapIds)
  <2>1. A \o B \in Seq(U) /\ Len(A \o B) = Len(A) + Len(B)
    BY <1>4
  <2> HIDE DEF GapIds
  <2> QED BY <1>3, <1>4, <2>1
<1> DEFINE T == Range(GapIds)
<1>6. P \in SUBSET (DOMAIN GapIds) /\ \A p \in P : GapIds[p] \in T
  BY DEF Range
<1>7. \A p, q \in P : GapIds[p] = GapIds[q] => p = q
  <2>1. \A p, q \in P : p < q => GapIds[p] # GapIds[q]
    OBVIOUS
  <2>2. P \subseteq Nat
    BY <1>5, <1>6
  <2> HIDE DEF P
  <2> QED BY <2>1, <2>2
<1>8. GapDescriptors = At(GapIds, P)
  BY DEF GapDescriptors
<1>9. Len(GapIds) > 0 => 1 \in P
  BY <1>1, <1>4, <1>5
<1> HIDE DEF P, T
<1>10. At(GapIds, P) \in Seq(T)
  BY <1>5, <1>6, AtTyped
<1>11. IsInjective(At(GapIds, P))
  BY <1>5, <1>6, <1>7, AtInjective
<1>12. ASSUME Missing # <<>> \/ Focus # <<>> PROVE At(GapIds, P) # <<>>
  <2>1. 1 \in P
    BY <1>1, <1>4, <1>5, <1>9, <1>12
  <2>2. \E n \in DOMAIN At(GapIds, P) : At(GapIds, P)[n] = GapIds[1]
    BY <1>5, <1>6, <2>1, AtKeeps
  <2> QED BY <2>2
<1> QED BY <1>8, <1>10, <1>11, <1>12 DEF T

\* What the recommender returns has its type: but for the evidence of an amendment it
\* refers to nothing that is not there.
LEMMA AdviceTyped ==
    ASSUME NEW r, IsRanked(r), NEW t, NEW s \in [headline : Claim, plan : Claim]
    PROVE  /\ IsRecommendation(Advice(r, t, s), t)
           /\ Advice(r, t, s).supply = GapDescriptors
<1> DEFINE a == Advice(r, t, s)
           existing == Advised(r, "explain_in_trial")
<1>1. /\ a.amend = Amendments(Advised(r, "amend_claim"))
      /\ a.abandon = PerClaim(Advised(r, "abandon"))
      /\ a.explain = existing \o Injected(r, existing)
      /\ a.supply = GapDescriptors
      /\ a.paths = [i \in Issues |-> PathsOn(i, t)]
      /\ a.strategy = Aligned(s, t)
  BY DEF Advice, Explained, RankedGaps
<1> HIDE DEF a
<1>2. a.amend \in Seq(Amendment) /\ a.abandon \in Seq(Suggestion)
  BY <1>1, AdvisedTyped, PerClaimTyped, AmendmentsTyped
<1>3. a.explain \in Seq(Issues)
  <2>1. existing \in Seq(Issues) /\ Injected(r, existing) \in Seq(Issues)
    BY AdvisedTyped, InjectedTyped
  <2> HIDE DEF existing
  <2> QED BY <1>1, <2>1
<1>4. a.supply \in Seq(Range(GapIds)) /\ IsInjective(a.supply)
  BY <1>1, GapsTyped
<1>5. a.paths \in [Issues -> SUBSET {t.paths[n].id : n \in DOMAIN t.paths}]
  BY <1>1 DEF PathsOn
<1>6. a.strategy \in [headline : Claim, plan : Claim]
  BY <1>1 DEF Aligned, Claim
<1> QED BY <1>1, <1>2, <1>3, <1>4, <1>5, <1>6 DEF IsRecommendation, a

\* What stands in before there is advice refers to nothing.
LEMMA NoAdviceTyped ==
    ASSUME NEW t
    PROVE  IsRecommendation(NoAdvice, t)
<1>1. \A S : <<>> \in Seq(S)
  OBVIOUS
<1>2. IsInjective(<<>>)
  BY DEF IsInjective
<1>3. [i \in Issues |-> {}] \in [Issues -> SUBSET {t.paths[n].id : n \in DOMAIN t.paths}]
  OBVIOUS
<1>4. [headline |-> "none", plan |-> "none"] \in [headline : Claim, plan : Claim]
  BY DEF Claim
<1> QED BY <1>1, <1>2, <1>3, <1>4 DEF IsRecommendation, NoAdvice

----------------------------------------------------------------------------
(* PostDebate: assessments and defence *)

\* The greatest of some numbers up to k is one of them.
LEMMA MaxIsIn ==
    ASSUME NEW k \in Nat, NEW S \in SUBSET (1..k), S # {}
    PROVE  Max(S) \in S
<1> DEFINE R == {m \in 0..k : k - m \in S}
<1>1. R \in SUBSET Nat /\ R # {}
  <2>1. PICK x \in S : TRUE
    OBVIOUS
  <2>2. k - x \in R
    BY <2>1
  <2>3. \A m \in R : m \in Nat
    OBVIOUS
  <2> QED BY <2>2, <2>3
<1>2. PICK m \in R : \A n \in R : m <= n
  <2> HIDE DEF R
  <2> QED BY <1>1, LeastNumber
<1>3. k - m \in S /\ \A y \in S : k - m >= y
  <2>1. \A y \in S : k - y \in R
    OBVIOUS
  <2>2. \A y \in S : y \in 1..k /\ m <= k - y
    BY <1>2, <2>1
  <2>3. m \in Nat /\ k - m \in S
    OBVIOUS
  <2> HIDE DEF R
  <2> QED BY <2>2, <2>3
<1> QED BY <1>3 DEF Max

\* Only evidence of the index gets a score, and a low one has been challenged.
IsAssessment(a) ==
    /\ DOMAIN a \subseteq Evidence
    /\ \A e \in DOMAIN a : a[e].score < 5 => a[e].challenged

\* The rules accept scores on known evidence only.
LEMMA AssessedTyped ==
    ASSUME NEW items \in Answers(AssessmentItems)
    PROVE  IsAssessment(Assessed(items))
<1> DEFINE P == {n \in DOMAIN items : Acceptable(items[n])}
           kept == At(items, P)
           of(e) == {n \in DOMAIN kept : kept[n].evidence = e}
           E == {kept[n].evidence : n \in DOMAIN kept}
           a == [e \in E |->
                   [score |-> kept[Max(of(e))].score, challenged |-> kept[Max(of(e))].challenged]]
           Good == {x \in AssessmentItem : Acceptable(x)}
<1>1. items \in Seq(AssessmentItem)
  <2>1. items \in Seq(AssessmentItems) /\ AssessmentItems \subseteq AssessmentItem
    BY AnswersAreLists, PostDebateAssumption DEF PostDebateAssumption
  <2> QED BY <2>1
<1>2. P \in SUBSET (DOMAIN items) /\ \A p \in P : items[p] \in Good
  BY <1>1
<1> HIDE DEF P
<1>3. kept \in Seq(Good) /\ DOMAIN kept = 1..Len(kept) /\ Len(kept) \in Nat
  BY <1>1, <1>2, AtTyped
<1>4. Assessed(items) = a
  BY DEF Assessed, a, E, of, kept, P
<1> HIDE DEF kept
<1>5. \A n \in DOMAIN kept : Acceptable(kept[n])
  BY <1>3
<1>6. ASSUME NEW e \in E PROVE Max(of(e)) \in DOMAIN kept
  <2>1. of(e) \in SUBSET (1..Len(kept)) /\ of(e) # {}
    BY <1>3
  <2>2. Max(of(e)) \in of(e)
    <3> HIDE DEF of
    <3> QED BY <1>3, <2>1, MaxIsIn
  <2> QED BY <2>2
<1>7. E \subseteq Evidence
  BY <1>5 DEF Acceptable
<1>8. ASSUME NEW e \in E, a[e].score < 5 PROVE a[e].challenged
  <2> DEFINE x == kept[Max(of(e))]
  <2>1. Acceptable(x)
    BY <1>5, <1>6
  <2>2. a[e].score = x.score /\ a[e].challenged = x.challenged
    OBVIOUS
  <2> HIDE DEF x, a
  <2> QED BY <1>8, <2>1, <2>2 DEF Acceptable
<1>9. DOMAIN a = E
  OBVIOUS
<1> HIDE DEF a, E
<1> QED BY <1>4, <1>7, <1>8, <1>9 DEF IsAssessment

\* Every issue has a point of its own or is said to be unevaluated.
Answered(d) == Issues \subseteq d.unevaluated \cup {d.points[n].issue : n \in DOMAIN d.points}

\* The points that are kept are numbered, and with the unevaluated issues they are all.
LEMMA DefenceTyped ==
    ASSUME NEW items \in Answers(DefenceItems)
    PROVE  IsDefenceChain(Defence(items)) /\ Answered(Defence(items))
<1> DEFINE P == {n \in DOMAIN items : items[n].issue \in Issues /\ items[n].whole}
           kept == At(items, P)
           points == [n \in DOMAIN kept |->
                        [issue |-> kept[n].issue, evidence |-> kept[n].evidence \cap Evidence,
                         priority |-> Max({1, kept[n].priority})]]
           key == [n \in DOMAIN points |-> points[n].priority]
           sorted == StableSort(points, key)
           new == [n \in DOMAIN sorted |-> [sorted[n] EXCEPT !.priority = n]]
           d == Defence(items)
           Good == {x \in DefenceItem : x.issue \in Issues}
<1>1. items \in Seq(DefenceItem)
  <2>1. items \in Seq(DefenceItems) /\ DefenceItems \subseteq DefenceItem
    BY AnswersAreLists, PostDebateAssumption DEF PostDebateAssumption
  <2> QED BY <2>1
<1>2. P \in SUBSET (DOMAIN items) /\ \A p \in P : items[p] \in Good
  BY <1>1
<1>3. d.points = new /\ d.unevaluated = Unevaluated(items)
  BY DEF Defence, DefensePoints, new, sorted, key, points, kept, P
<1> HIDE DEF d
<1>4. kept \in Seq(Good) /\ \A p \in P : \E n \in DOMAIN kept : kept[n] = items[p]
  <2> HIDE DEF P, Good
  <2> QED BY <1>1, <1>2, AtTyped, AtKeeps
<1>5. \A i \in Issues : i \notin Unevaluated(items) => \E p \in P : items[p].issue = i
  BY <1>1 DEF Unevaluated, Range
<1> HIDE DEF kept, P
<1>6. ASSUME NEW n \in DOMAIN kept
      PROVE  points[n] \in DefensePoint /\ points[n].issue = kept[n].issue /\ key[n] \in Int
  <2>1. kept[n] \in DefenceItem /\ kept[n].issue \in Issues
    BY <1>4
  <2>2. kept[n].priority \in Int
    BY <2>1 DEF DefenceItem
  <2>3. Max({1, kept[n].priority}) \in Nat \ {0}
    <3> DEFINE p == kept[n].priority
    <3> HIDE DEF p
    <3>1. p \in Int
      BY <2>2 DEF p
    <3>2. \E x \in {1, p} : \A y \in {1, p} : x >= y
      BY <3>1
    <3>3. Max({1, p}) \in {1, p} /\ Max({1, p}) >= 1
      BY <3>2 DEF Max
    <3>4. Max({1, p}) \in Nat \ {0}
      BY <3>1, <3>3
    <3> QED BY <3>4 DEF p
  <2> QED BY <2>1, <2>3 DEF DefensePoint
<1>7. DOMAIN points = DOMAIN kept /\ points = [n \in DOMAIN kept |-> points[n]] /\ DOMAIN key = DOMAIN points
  OBVIOUS
<1> HIDE DEF points, key
<1>8. points \in Seq(DefensePoint) /\ DOMAIN points = DOMAIN kept
  BY <1>4, <1>6, <1>7, MappedTyped
<1>9. sorted \in Seq(DefensePoint) /\ Range(sorted) = Range(points) /\ DOMAIN sorted = 1..Len(points)
      /\ Len(sorted) = Len(points)
  <2>1. \A n \in DOMAIN points : key[n] \in Int
    BY <1>6, <1>7
  <2> QED BY <1>8, <2>1, SortKeeps
<1> HIDE DEF sorted
<1>10. /\ new \in Seq(DefensePoint) /\ DOMAIN new = DOMAIN sorted
       /\ \A n \in DOMAIN sorted : new[n].priority = n /\ new[n].issue = sorted[n].issue
  <2>1. ASSUME NEW n \in DOMAIN sorted
        PROVE  new[n] \in DefensePoint /\ new[n].priority = n /\ new[n].issue = sorted[n].issue
    <3>1. sorted[n] \in DefensePoint /\ n \in Nat \ {0}
      BY <1>8, <1>9
    <3> QED BY <3>1 DEF DefensePoint
  <2>2. DOMAIN new = DOMAIN sorted /\ new = [n \in DOMAIN sorted |-> new[n]]
    OBVIOUS
  <2> HIDE DEF new
  <2> QED BY <1>9, <2>1, <2>2, MappedTyped
<1> HIDE DEF new
<1>11. d.unevaluated \subseteq Issues
  BY <1>3 DEF Unevaluated
<1>12. ASSUME NEW i \in Issues, i \notin d.unevaluated
       PROVE  \E n \in DOMAIN d.points : d.points[n].issue = i
  <2>1. PICK n \in DOMAIN kept : kept[n].issue = i
    BY <1>3, <1>4, <1>5, <1>12
  <2>2. points[n] \in Range(points) /\ points[n].issue = i
    BY <1>6, <1>7, <2>1 DEF Range
  <2>3. PICK m \in DOMAIN sorted : sorted[m] = points[n]
    BY <1>9, <2>2 DEF Range
  <2> QED BY <1>3, <1>10, <2>2, <2>3
<1>13. IsDefenceChain(d)
  BY <1>3, <1>10, <1>11 DEF IsDefenceChain
<1>14. Answered(d)
  BY <1>12 DEF Answered
<1> QED BY <1>13, <1>14 DEF d

\* A failed call answers no issue, and says so.
LEMMA NoDefenceTyped ==
    IsDefenceChain(NoDefence) /\ IsDefenceChain(FailedDefence) /\ Answered(FailedDefence)
<1>1. <<>> \in Seq(DefensePoint)
  OBVIOUS
<1> QED BY <1>1 DEF IsDefenceChain, NoDefence, FailedDefence, Answered

----------------------------------------------------------------------------
(* ExecutiveSummary *)

\* Lists, one of them not empty, one after the other.
LEMMA JoinedNotEmpty ==
    ASSUME NEW X, NEW w \in Seq(X), NEW x \in Seq(X), NEW y \in Seq(X), NEW z \in Seq(X), x # <<>>
    PROVE  w \o x \o y \o z \in Seq(X) /\ w \o x \o y \o z # <<>>
<1>1. w \o x \in Seq(X) /\ Len(w \o x) > 0
  OBVIOUS
<1> DEFINE b == w \o x
<1> HIDE DEF b
<1>2. b \in Seq(X) /\ Len(b) > 0
  BY <1>1 DEF b
<1>3. b \o y \in Seq(X) /\ Len(b \o y) > 0
  BY <1>2
<1> DEFINE e == b \o y
<1> HIDE DEF e
<1>4. e \in Seq(X) /\ Len(e) > 0
  BY <1>3 DEF e
<1>5. e \o z \in Seq(X) /\ e \o z # <<>>
  BY <1>4
<1> QED BY <1>5 DEF e, b

\* The lines of the summary point to attacks of the chain, to an issue of high
\* impact, and to something to do if anything is missing.
LinesResolve(s, r, c) ==
    /\ Range(s.attacks) \subseteq {c.attacks[n].id : n \in DOMAIN c.attacks}
    /\ s.risk # NoIssue => r.issue[s.risk].impact = "high"
    /\ Missing # <<>> \/ Focus # <<>> => s.next # <<>>

\* The lines of the summary resolve against what it is made of.
LEMMA SummaryTyped ==
    ASSUME NEW report, NEW r, IsRanked(r), NEW t, NEW c, c.attacks \in Seq(AttackKept),
           NEW a, IsRecommendation(a, t), a.supply = GapDescriptors, NEW d
    PROVE  LinesResolve(Summary(report, r, t, c, a, d), r, c)
<1> DEFINE s == Summary(report, r, t, c, a, d)
<1>1. /\ s.attacks = OptimalAttacks(c) /\ s.risk = PrimaryRisk(r)
      /\ s.next = NextBestAction(Actions(a), CriticalGaps(a))
  BY DEF Summary
<1> HIDE DEF s
<1>2. Range(OptimalAttacks(c)) \subseteq {c.attacks[n].id : n \in DOMAIN c.attacks}
  <2> DEFINE T == {c.attacks[n].id : n \in DOMAIN c.attacks}
             ids == [n \in DOMAIN c.attacks |-> c.attacks[n].id]
             f == FirstOf(ids, 3)
  <2>1. \A n \in DOMAIN c.attacks : ids[n] \in T
    OBVIOUS
  <2>2. DOMAIN ids = DOMAIN c.attacks /\ ids = [n \in DOMAIN c.attacks |-> ids[n]]
    OBVIOUS
  <2>3. OptimalAttacks(c) = f
    BY DEF OptimalAttacks
  <2> HIDE DEF T, ids
  <2>4. ids \in Seq(T)
    BY <2>1, <2>2, MappedTyped
  <2>5. f \in Seq(T)
    BY <2>4, FirstKeeps
  <2> HIDE DEF f
  <2>6. Range(f) \subseteq T
    BY <2>5 DEF Range
  <2> QED BY <2>3, <2>6 DEF T
<1>3. PrimaryRisk(r) # NoIssue => r.issue[PrimaryRisk(r)].impact = "high"
  <2> SUFFICES ASSUME PrimaryRisk(r) # NoIssue PROVE r.issue[PrimaryRisk(r)].impact = "high"
    OBVIOUS
  <2>1. HighIssues(r) # {} /\ PrimaryRisk(r) = r.order[Min(HighIssues(r))]
    BY DEF PrimaryRisk
  <2>2. DOMAIN r.order \subseteq Nat
    BY DEF IsRanked
  <2>3. HighIssues(r) \in SUBSET Nat
    BY <2>2 DEF HighIssues
  <2>4. Min(HighIssues(r)) \in HighIssues(r)
    BY <2>1, <2>3, MinIsIn
  <2> QED BY <2>1, <2>4 DEF HighIssues
<1>4. ASSUME Missing # <<>> \/ Focus # <<>> PROVE NextBestAction(Actions(a), CriticalGaps(a)) # <<>>
  <2> DEFINE X == Amendment \cup Suggestion \cup Range(GapIds) \cup Issues
             all == a.abandon \o a.supply \o a.amend \o a.explain
  <2>1. /\ a.abandon \in Seq(X) /\ a.supply \in Seq(X) /\ a.amend \in Seq(X) /\ a.explain \in Seq(X)
    BY DEF IsRecommendation
  <2>2. a.supply # <<>>
    BY <1>4, GapsTyped
  <2>3. Actions(a) = FirstOf(all, 3)
    BY DEF Actions
  <2> HIDE DEF X
  <2>4. all \in Seq(X) /\ all # <<>>
    BY <2>1, <2>2, JoinedNotEmpty
  <2> HIDE DEF all
  <2>5. Actions(a) \in Seq(X) /\ Actions(a) # <<>>
    BY <2>3, <2>4, FirstKeeps
  <2>6. FirstOf(Actions(a), 1) # <<>>
    BY <2>5, FirstKeeps
  <2> QED BY <2>5, <2>6 DEF NextBestAction
<1> QED BY <1>1, <1>2, <1>3, <1>4 DEF s, LinesResolve

----------------------------------------------------------------------------
(* HearingPlan *)

\* Two lists without a common member, one after the other.
LEMMA JoinedApart ==
    ASSUME NEW X, NEW s \in Seq(X), NEW t \in Seq(X), IsInjective(s), IsInjective(t),
           Range(s) \cap Range(t) = {}
    PROVE  /\ s \o t \in Seq(X) /\ IsInjective(s \o t)
           /\ Range(s \o t) = Range(s) \cup Range(t)
           /\ \A n \in DOMAIN s : n \in DOMAIN (s \o t) /\ (s \o t)[n] = s[n]
<1> DEFINE j == s \o t
           a == Len(s)
           b == Len(t)
<1>1. a \in Nat /\ b \in Nat /\ DOMAIN s = 1..a /\ DOMAIN t = 1..b
  OBVIOUS
<1>2. j \in Seq(X) /\ Len(j) = a + b /\ DOMAIN j = 1..(a + b)
  OBVIOUS
<1>3. \A n \in 1..a : j[n] = s[n]
  OBVIOUS
<1>4. \A n \in 1..b : j[a + n] = t[n]
  OBVIOUS
<1> HIDE DEF j, a, b
<1>5. \A n \in DOMAIN j : n \in 1..a \/ \E k \in 1..b : n = a + k
  <2> SUFFICES ASSUME NEW n \in DOMAIN j, n \notin 1..a PROVE \E k \in 1..b : n = a + k
    OBVIOUS
  <2>1. n - a \in 1..b /\ n = a + (n - a)
    BY <1>1, <1>2
  <2> QED BY <2>1
<1>6. \A n \in 1..a : n \in DOMAIN j
  BY <1>1, <1>2
<1>7. \A n \in 1..b : a + n \in DOMAIN j
  BY <1>1, <1>2
<1>8. Range(j) = Range(s) \cup Range(t)
  <2>1. ASSUME NEW n \in DOMAIN j PROVE j[n] \in Range(s) \cup Range(t)
    <3>1. CASE n \in 1..a
      BY <1>1, <1>3, <3>1 DEF Range
    <3>2. CASE \E k \in 1..b : n = a + k
      BY <1>1, <1>4, <3>2 DEF Range
    <3> QED BY <1>5, <3>1, <3>2
  <2>2. \A n \in DOMAIN s : s[n] \in Range(j)
    BY <1>1, <1>3, <1>6 DEF Range
  <2>3. \A n \in DOMAIN t : t[n] \in Range(j)
    <3> SUFFICES ASSUME NEW n \in DOMAIN t PROVE t[n] \in Range(j)
      OBVIOUS
    <3>1. a + n \in DOMAIN j /\ j[a + n] = t[n]
      BY <1>1, <1>4, <1>7
    <3> QED BY <3>1 DEF Range
  <2> QED BY <2>1, <2>2, <2>3 DEF Range
<1>9. ASSUME NEW m \in DOMAIN j, NEW n \in DOMAIN j, j[m] = j[n] PROVE m = n
  <2>1. CASE m \in 1..a /\ n \in 1..a
    BY <1>1, <1>3, <1>9, <2>1 DEF IsInjective
  <2>2. CASE m \notin 1..a /\ n \notin 1..a
    <3>1. PICK k \in 1..b, l \in 1..b : m = a + k /\ n = a + l
      BY <1>5, <2>2
    <3> QED BY <1>1, <1>4, <1>9, <3>1 DEF IsInjective
  <2>3. CASE m \in 1..a /\ n \notin 1..a
    <3>1. PICK l \in 1..b : n = a + l
      BY <1>5, <2>3
    <3>2. j[m] \in Range(s) /\ j[n] \in Range(t)
      BY <1>1, <1>3, <1>4, <2>3, <3>1 DEF Range
    <3> QED BY <1>9, <3>2
  <2>4. CASE m \notin 1..a /\ n \in 1..a
    <3>1. PICK k \in 1..b : m = a + k
      BY <1>5, <2>4
    <3>2. j[n] \in Range(s) /\ j[m] \in Range(t)
      BY <1>1, <1>3, <1>4, <2>4, <3>1 DEF Range
    <3> QED BY <1>9, <3>2
  <2> QED BY <2>1, <2>2, <2>3, <2>4
<1>10. IsInjective(j)
  BY <1>9 DEF IsInjective
<1> QED BY <1>1, <1>2, <1>3, <1>6, <1>8, <1>10 DEF j

\* The members of a set of issues in their order, and what At has of a list without
\* repetitions.
LEMMA AscendingIssues ==
    ASSUME NEW P \in SUBSET Issues
    PROVE  Ascending(P) \in Seq(Issues) /\ Range(Ascending(P)) = P /\ IsInjective(Ascending(P))
<1> DEFINE r == Ascending(P)
           N == Cardinality(P)
<1>1. NIssues \in Nat /\ P \in SUBSET (1..NIssues)
  BY AnalysisAssumption DEF AnalysisAssumption, Issues
<1>2. /\ N \in Nat /\ r \in [1..N -> P]
      /\ \A x \in P : \E n \in 1..N : r[n] = x
      /\ \A m, n \in 1..N : r[m] < r[n] <=> m < n
  BY <1>1, AscendingInOrder
<1>3. P \subseteq Nat
  BY <1>1
<1> HIDE DEF r, N
<1>4. r \in Seq(Issues)
  <2>1. r \in [1..N -> Issues]
    BY <1>2
  <2> QED BY <1>2, <2>1
<1>5. Range(r) = P
  BY <1>2 DEF Range
<1>6. ASSUME NEW m \in 1..N, NEW n \in 1..N, r[m] = r[n] PROVE m = n
  <2>1. r[m] \in Nat /\ r[n] \in Nat
    BY <1>2, <1>3
  <2>2. ~ (m < n) /\ ~ (n < m)
    BY <1>2, <1>6, <2>1
  <2> QED BY <1>2, <2>2
<1>7. IsInjective(r)
  BY <1>2, <1>6 DEF IsInjective
<1> QED BY <1>4, <1>5, <1>7 DEF r

\* What At has of a list without repetitions.
LEMMA AtPart ==
    ASSUME NEW X, NEW s \in Seq(X), IsInjective(s), NEW P \in SUBSET (DOMAIN s)
    PROVE  /\ At(s, P) \in Seq(X) /\ IsInjective(At(s, P))
           /\ Range(At(s, P)) = {s[p] : p \in P}
<1> DEFINE a == At(s, P)
<1>1. \A p, q \in P : s[p] = s[q] => p = q
  BY DEF IsInjective
<1>2. \A p \in P : s[p] \in X
  OBVIOUS
<1>3. a \in Seq({s[p] : p \in P}) /\ \A p \in P : \E n \in DOMAIN a : a[n] = s[p]
  BY AtKeeps
<1>4. a \in Seq(X)
  BY <1>2, AtTyped
<1>5. IsInjective(a)
  BY <1>1, AtInjective
<1> HIDE DEF a
<1>6. Range(a) = {s[p] : p \in P}
  BY <1>3 DEF Range
<1> QED BY <1>4, <1>5, <1>6 DEF a

\* A list is its first member and the others.
LEMMA HeadAndTail ==
    ASSUME NEW X, NEW s \in Seq(X), s # <<>>, IsInjective(s)
    PROVE  /\ Head(s) \in X /\ Tail(s) \in Seq(X) /\ IsInjective(Tail(s))
           /\ Head(s) \notin Range(Tail(s))
           /\ Range(s) = {Head(s)} \cup Range(Tail(s))
<1> DEFINE t == Tail(s)
           N == Len(s)
<1>1. N \in Nat /\ N > 0 /\ DOMAIN s = 1..N /\ Head(s) = s[1] /\ Head(s) \in X
  OBVIOUS
<1>2. t \in Seq(X) /\ Len(t) = N - 1 /\ DOMAIN t = 1..(N - 1)
  OBVIOUS
<1>3. \A n \in 1..(N - 1) : t[n] = s[n + 1]
  OBVIOUS
<1> HIDE DEF t, N
<1>4. \A n \in DOMAIN t : n + 1 \in DOMAIN s /\ n + 1 # 1 /\ t[n] = s[n + 1]
  BY <1>1, <1>2, <1>3
<1>5. \A n \in DOMAIN s : n = 1 \/ \E m \in DOMAIN t : n = m + 1
  <2> SUFFICES ASSUME NEW n \in DOMAIN s, n # 1 PROVE \E m \in DOMAIN t : n = m + 1
    OBVIOUS
  <2>1. n - 1 \in DOMAIN t /\ n = (n - 1) + 1
    BY <1>1, <1>2
  <2> QED BY <2>1
<1>6. Head(s) \notin Range(t)
  BY <1>1, <1>4 DEF Range, IsInjective
<1>7. Range(s) = {Head(s)} \cup Range(t)
  BY <1>1, <1>4, <1>5 DEF Range
<1>8. ASSUME NEW m \in DOMAIN t, NEW n \in DOMAIN t, t[m] = t[n] PROVE m = n
  <2>1. m + 1 = n + 1
    BY <1>4, <1>8 DEF IsInjective
  <2> QED BY <1>1, <1>2, <2>1
<1>9. IsInjective(t)
  BY <1>8 DEF IsInjective
<1> QED BY <1>1, <1>2, <1>6, <1>7, <1>9 DEF t

\* A list with one more member.
LEMMA Appended ==
    ASSUME NEW X, NEW s \in Seq(X), NEW x \in X, IsInjective(s)
    PROVE  LET a == Append(s, x)
           IN  /\ a \in Seq(X) /\ Len(a) = Len(s) + 1 /\ DOMAIN a = 1..(Len(s) + 1)
               /\ \A k \in DOMAIN s : k \in DOMAIN a /\ a[k] = s[k]
               /\ a[Len(s) + 1] = x /\ Range(a) = Range(s) \cup {x}
               /\ x \notin Range(s) => IsInjective(a)
<1> DEFINE a == Append(s, x)
           N == Len(s)
<1>1. N \in Nat /\ DOMAIN s = 1..N /\ a \in Seq(X) /\ Len(a) = N + 1 /\ DOMAIN a = 1..(N + 1)
  OBVIOUS
<1>2. (\A k \in 1..N : a[k] = s[k]) /\ a[N + 1] = x
  OBVIOUS
<1> HIDE DEF a, N
<1>3. \A k \in DOMAIN s : k \in DOMAIN a /\ a[k] = s[k]
  BY <1>1, <1>2
<1>4. N + 1 \in DOMAIN a /\ \A k \in DOMAIN a : k \in DOMAIN s \/ k = N + 1
  BY <1>1
<1>5. Range(a) = Range(s) \cup {x}
  BY <1>2, <1>3, <1>4 DEF Range
<1>6. x \notin Range(s) => IsInjective(a)
  BY <1>2, <1>3, <1>4 DEF Range, IsInjective
<1> QED BY <1>1, <1>2, <1>3, <1>5, <1>6 DEF a, N

\* The lists of issues that are sorted: every issue once.
IsOrder(nodes) ==
    /\ nodes \in Seq(Issues) /\ Range(nodes) = Issues /\ IsInjective(nodes) /\ Len(nodes) = NIssues

\* Kahn's algorithm at any step: what is done and what is ready are different issues, they
\* are those whose dependencies are done, and what is done came after its dependencies.
KahnSound(s) ==
    /\ s.queue \in Seq(Issues) /\ s.done \in Seq(Issues)
    /\ IsInjective(s.queue) /\ IsInjective(s.done)
    /\ Range(s.done) \cap Range(s.queue) = {}
    /\ \A i \in Issues : i \in Range(s.done) \cup Range(s.queue) <=> DependsOn[i] \subseteq Range(s.done)
    /\ \A k \in DOMAIN s.done : \A i \in DependsOn[s.done[k]] : \E m \in DOMAIN s.done : m < k /\ s.done[m] = i

\* At first the issues that depend on nothing are ready.
LEMMA KahnStarts == KahnSound(KahnStart)
<1> DEFINE free == {i \in Issues : DependsOn[i] = {}}
<1>1. /\ KahnStart.queue = Ascending(free) /\ KahnStart.done = <<>>
  BY DEF KahnStart
<1>2. /\ Ascending(free) \in Seq(Issues) /\ Range(Ascending(free)) = free
      /\ IsInjective(Ascending(free))
  BY AscendingIssues
<1>3. <<>> \in Seq(Issues) /\ IsInjective(<<>>) /\ Range(<<>>) = {} /\ DOMAIN <<>> = {}
  BY DEF IsInjective, Range
<1>4. \A i \in Issues : i \in free <=> DependsOn[i] \subseteq {}
  OBVIOUS
<1> HIDE DEF free
<1> QED BY <1>1, <1>2, <1>3, <1>4 DEF KahnSound

\* A turn takes the first that is ready and adds those that it was the last to hold up.
LEMMA KahnSteps ==
    ASSUME NEW nodes, IsOrder(nodes), NEW s, KahnSound(s)
    PROVE  /\ KahnSound(KahnStep(nodes, s))
           /\ s.queue # <<>> => Len(KahnStep(nodes, s).done) = Len(s.done) + 1
           /\ s.queue = <<>> => KahnStep(nodes, s) = s
<1>1. CASE s.queue = <<>>
  BY <1>1 DEF KahnStep
<1>2. CASE s.queue # <<>>
  <2> DEFINE x == Head(s.queue)
             tail == Tail(s.queue)
             done == Append(s.done, x)
             ready == {n \in DOMAIN nodes : /\ x \in DependsOn[nodes[n]]
                                            /\ DependsOn[nodes[n]] \subseteq Range(done)}
             more == At(nodes, ready)
             t == KahnStep(nodes, s)
             R == {nodes[n] : n \in ready}
  <2>1. t.queue = tail \o more /\ t.done = done
    BY <1>2 DEF KahnStep
  <2>2. /\ s.queue \in Seq(Issues) /\ s.done \in Seq(Issues)
        /\ IsInjective(s.queue) /\ IsInjective(s.done)
        /\ Range(s.done) \cap Range(s.queue) = {}
        /\ \A i \in Issues : i \in Range(s.done) \cup Range(s.queue) <=> DependsOn[i] \subseteq Range(s.done)
        /\ \A k \in DOMAIN s.done :
              \A i \in DependsOn[s.done[k]] : \E m \in DOMAIN s.done : m < k /\ s.done[m] = i
    BY DEF KahnSound
  <2>3. /\ x \in Issues /\ tail \in Seq(Issues) /\ IsInjective(tail) /\ x \notin Range(tail)
        /\ Range(s.queue) = {x} \cup Range(tail)
    BY <1>2, <2>2, HeadAndTail
  <2>4. /\ done \in Seq(Issues) /\ Len(done) = Len(s.done) + 1 /\ DOMAIN done = 1..(Len(s.done) + 1)
        /\ \A k \in DOMAIN s.done : k \in DOMAIN done /\ done[k] = s.done[k]
        /\ done[Len(s.done) + 1] = x /\ Range(done) = Range(s.done) \cup {x}
        /\ (x \notin Range(s.done) => IsInjective(done))
    BY <2>2, <2>3, Appended
  <2> HIDE DEF x, tail, done, t
  <2>5. x \notin Range(s.done)
    BY <2>2, <2>3
  <2>6. R = {i \in Issues : x \in DependsOn[i] /\ DependsOn[i] \subseteq Range(done)}
    BY DEF IsOrder, Range
  <2>7. ready \in SUBSET (DOMAIN nodes) /\ nodes \in Seq(Issues) /\ IsInjective(nodes)
    BY DEF IsOrder
  <2> HIDE DEF ready
  <2>8. more \in Seq(Issues) /\ IsInjective(more) /\ Range(more) = R
    BY <2>7, AtPart
  <2> HIDE DEF more, R
  <2>9. R \cap (Range(s.done) \cup Range(s.queue)) = {}
    BY <2>2, <2>5, <2>6
  <2>10. /\ tail \o more \in Seq(Issues) /\ IsInjective(tail \o more)
         /\ Range(tail \o more) = Range(tail) \cup R
    <3>1. Range(tail) \cap Range(more) = {}
      BY <2>3, <2>8, <2>9
    <3> QED BY <2>3, <2>8, <3>1, JoinedApart
  <2>11. Range(t.done) \cap Range(t.queue) = {}
    BY <2>1, <2>2, <2>3, <2>4, <2>9, <2>10
  <2>12. \A i \in Issues : i \in Range(t.done) \cup Range(t.queue) <=> DependsOn[i] \subseteq Range(t.done)
    <3> SUFFICES ASSUME NEW i \in Issues
                 PROVE  i \in Range(t.done) \cup Range(t.queue) <=> DependsOn[i] \subseteq Range(t.done)
      OBVIOUS
    <3>1. Range(t.done) \cup Range(t.queue) = Range(s.done) \cup Range(s.queue) \cup R
      BY <2>1, <2>3, <2>4, <2>10
    <3>2. i \in Range(s.done) \cup Range(s.queue) <=> DependsOn[i] \subseteq Range(s.done)
      BY <2>2
    <3>3. i \in R <=> x \in DependsOn[i] /\ DependsOn[i] \subseteq Range(s.done) \cup {x}
      BY <2>4, <2>6
    <3>4. Range(t.done) = Range(s.done) \cup {x}
      BY <2>1, <2>4
    <3> QED BY <3>1, <3>2, <3>3, <3>4
  <2>13. ASSUME NEW k \in DOMAIN t.done, NEW i \in DependsOn[t.done[k]]
         PROVE  \E m \in DOMAIN t.done : m < k /\ t.done[m] = i
    <3>1. CASE k \in DOMAIN s.done
      <4>1. i \in DependsOn[s.done[k]]
        BY <2>1, <2>4, <2>13, <3>1
      <4>2. PICK m \in DOMAIN s.done : m < k /\ s.done[m] = i
        BY <2>2, <3>1, <4>1
      <4> QED BY <2>1, <2>4, <4>2
    <3>2. CASE k \notin DOMAIN s.done
      <4>1. Len(s.done) \in Nat /\ DOMAIN s.done = 1..Len(s.done)
        BY <2>2
      <4>2. k = Len(s.done) + 1
        BY <2>1, <2>4, <3>2, <4>1
      <4>3. i \in DependsOn[x]
        BY <2>1, <2>4, <2>13, <4>2
      <4>4. DependsOn[x] \subseteq Range(s.done)
        BY <2>2, <2>3
      <4>5. PICK m \in DOMAIN s.done : s.done[m] = i
        BY <4>3, <4>4 DEF Range
      <4>6. m < k
        BY <4>1, <4>2
      <4> QED BY <2>1, <2>4, <4>5, <4>6
    <3> QED BY <3>1, <3>2
  <2>14. KahnSound(t)
    BY <2>1, <2>4, <2>5, <2>10, <2>11, <2>12, <2>13 DEF KahnSound
  <2> QED BY <1>2, <2>1, <2>4, <2>14 DEF t
<1> QED BY <1>1, <1>2

\* The states of the loop, one for each turn.
Turns(nodes, N, f) ==
    f = [n \in 0..N |-> IF n = 0 THEN KahnStart ELSE KahnStep(nodes, f[n - 1])]

\* The loop has a state after any number of turns.
LEMMA TurnsExist ==
    ASSUME NEW nodes, NEW N \in Nat
    PROVE  \E f : Turns(nodes, N, f)
<1> DEFINE Without == {m \in Nat : ~ \E f : Turns(nodes, m, f)}
<1> SUFFICES ASSUME Without # {} PROVE FALSE
  OBVIOUS
<1>1. PICK m \in Without : \A k \in Without : m <= k
  <2>1. Without \in SUBSET Nat
    OBVIOUS
  <2> HIDE DEF Without
  <2> QED BY <2>1, LeastNumber
<1>2. m \in Nat /\ ~ \E f : Turns(nodes, m, f)
  OBVIOUS
<1>3. CASE m = 0
  <2> DEFINE f == [n \in 0..0 |-> KahnStart]
  <2>1. f = [n \in 0..0 |-> IF n = 0 THEN KahnStart ELSE KahnStep(nodes, f[n - 1])]
    OBVIOUS
  <2>2. Turns(nodes, 0, f)
    BY <2>1 DEF Turns
  <2> QED BY <1>2, <1>3, <2>2
<1>4. CASE m > 0
  <2>1. m - 1 \in Nat /\ m - 1 < m
    BY <1>2, <1>4
  <2>2. PICK g : Turns(nodes, m - 1, g)
    BY <1>1, <1>2, <2>1
  <2> DEFINE f == [n \in 0..m |-> IF n = m THEN KahnStep(nodes, g[m - 1]) ELSE g[n]]
  <2>3. \A n \in 0..(m - 1) : g[n] = IF n = 0 THEN KahnStart ELSE KahnStep(nodes, g[n - 1])
    BY <2>2 DEF Turns
  <2>4. \A n \in 0..m : f[n] = IF n = 0 THEN KahnStart ELSE KahnStep(nodes, f[n - 1])
    <3> SUFFICES ASSUME NEW n \in 0..m
                 PROVE  f[n] = IF n = 0 THEN KahnStart ELSE KahnStep(nodes, f[n - 1])
      OBVIOUS
    <3>1. CASE n = 0
      BY <1>2, <1>4, <2>3, <3>1
    <3>2. CASE n > 0 /\ n < m
      <4>1. n \in 0..(m - 1) /\ n - 1 \in 0..m /\ n - 1 # m /\ n # 0 /\ n # m
        BY <1>2, <3>2
      <4>2. f[n] = g[n] /\ f[n - 1] = g[n - 1]
        BY <4>1
      <4> HIDE DEF f
      <4> QED BY <2>3, <4>1, <4>2
    <3>3. CASE n = m
      <4>1. n - 1 \in 0..m /\ n - 1 # m /\ n # 0
        BY <1>2, <1>4, <3>3
      <4>2. f[n] = KahnStep(nodes, g[m - 1]) /\ f[n - 1] = g[m - 1]
        BY <3>3, <4>1
      <4> HIDE DEF f
      <4> QED BY <4>1, <4>2
    <3> QED BY <1>2, <3>1, <3>2, <3>3
  <2>5. f = [n \in 0..m |-> f[n]]
    OBVIOUS
  <2> HIDE DEF f
  <2>6. f = [n \in 0..m |-> IF n = 0 THEN KahnStart ELSE KahnStep(nodes, f[n - 1])]
    BY <2>4, <2>5
  <2>7. Turns(nodes, m, f)
    BY <2>6 DEF Turns
  <2> QED BY <1>2, <2>7
<1> QED BY <1>2, <1>3, <1>4

\* After as many turns as there are issues the queue is empty.
LEMMA TurnsSound ==
    ASSUME NEW nodes, IsOrder(nodes), NEW f, Turns(nodes, NIssues, f)
    PROVE  KahnSound(f[NIssues]) /\ f[NIssues].queue = <<>>
<1>1. NIssues \in Nat
  BY AnalysisAssumption DEF AnalysisAssumption
<1>2. f[0] = KahnStart /\ \A n \in 0..NIssues : n > 0 => f[n] = KahnStep(nodes, f[n - 1])
  <2>1. \A n \in 0..NIssues : f[n] = IF n = 0 THEN KahnStart ELSE KahnStep(nodes, f[n - 1])
    BY DEF Turns
  <2> QED BY <1>1, <2>1
<1> DEFINE Good(n) == KahnSound(f[n]) /\ (f[n].queue # <<>> => Len(f[n].done) = n)
           Wrong == {n \in 0..NIssues : ~ Good(n)}
<1>3. Wrong = {}
  <2> SUFFICES ASSUME Wrong # {} PROVE FALSE
    OBVIOUS
  <2>1. Wrong \in SUBSET Nat
    BY <1>1
  <2>2. PICK n \in Wrong : \A k \in Wrong : n <= k
    <3> HIDE DEF Wrong
    <3> QED BY <2>1, LeastNumber
  <2>3. n \in 0..NIssues /\ ~ Good(n)
    OBVIOUS
  <2>4. CASE n = 0
    <3>1. KahnStart.done = <<>>
      BY DEF KahnStart
    <3> QED BY <1>2, <2>3, <2>4, <3>1, KahnStarts
  <2>5. CASE n > 0
    <3>1. n - 1 \in 0..NIssues /\ n - 1 < n /\ n - 1 \in Nat
      BY <1>1, <2>3, <2>5
    <3>2. n - 1 \notin Wrong
      <4> HIDE DEF Wrong
      <4> QED BY <1>1, <2>2, <2>3, <3>1
    <3>3. Good(n - 1)
      BY <3>1, <3>2
    <3> DEFINE s == f[n - 1]
    <3>4. KahnSound(s) /\ (s.queue # <<>> => Len(s.done) = n - 1) /\ f[n] = KahnStep(nodes, s)
      BY <1>2, <2>3, <2>5, <3>3
    <3> HIDE DEF s
    <3>5. KahnSound(f[n])
      BY <3>4, KahnSteps
    <3>6. ASSUME f[n].queue # <<>> PROVE Len(f[n].done) = n
      <4>1. s.queue # <<>>
        BY <3>4, <3>6, KahnSteps
      <4>2. Len(f[n].done) = (n - 1) + 1
        BY <3>4, <4>1, KahnSteps
      <4> QED BY <2>3, <4>2
    <3> QED BY <2>3, <3>5, <3>6
  <2> QED BY <1>1, <2>3, <2>4, <2>5
<1>4. NIssues \in 0..NIssues
  BY <1>1
<1>5. Good(NIssues)
  BY <1>3, <1>4
<1> DEFINE s == f[NIssues]
<1>6. KahnSound(s) /\ (s.queue # <<>> => Len(s.done) = NIssues)
  BY <1>5
<1> HIDE DEF s, Good, Wrong
<1>7. s.queue = <<>>
  <2> SUFFICES ASSUME s.queue # <<>> PROVE FALSE
    OBVIOUS
  <2>1. /\ s.done \in Seq(Issues) /\ IsInjective(s.done) /\ Len(s.done) = NIssues
        /\ s.queue \in Seq(Issues) /\ Range(s.done) \cap Range(s.queue) = {}
    BY <1>6 DEF KahnSound
  <2>2. Head(s.queue) \in Issues /\ Head(s.queue) \in Range(s.queue)
    <3>1. s.queue[1] = Head(s.queue) /\ 1 \in DOMAIN s.queue /\ Head(s.queue) \in Issues
      BY <2>1
    <3> QED BY <3>1 DEF Range
  <2>3. s.done \in [Issues -> Issues]
    BY <2>1 DEF Issues
  <2>4. s.done \in Injection(Issues, Issues)
    BY <2>1, <2>3 DEF Injection, IsInjective
  <2>5. IsFiniteSet(Issues)
    BY <1>1, FS_Interval DEF Issues
  <2>6. s.done \in Surjection(Issues, Issues)
    BY <2>4, <2>5, FS_Injection
  <2>7. Range(s.done) = Issues
    BY <2>3, <2>6 DEF Surjection, Range
  <2> QED BY <2>1, <2>2, <2>7
<1> QED BY <1>6, <1>7 DEF s

\* The sorted issues: those whose dependencies are sorted, each after its dependencies.
TopologicallySorted(sorted) ==
    /\ sorted \in Seq(Issues) /\ IsInjective(sorted)
    /\ \A i \in Issues : i \in Range(sorted) <=> DependsOn[i] \subseteq Range(sorted)
    /\ \A k \in DOMAIN sorted : \A i \in DependsOn[sorted[k]] : \E m \in DOMAIN sorted : m < k /\ sorted[m] = i

\* What the sort returns, for any dependencies.
LEMMA KahnSorts ==
    ASSUME NEW nodes, IsOrder(nodes)
    PROVE  TopologicallySorted(TopologicalOrder(nodes))
<1> DEFINE state[n \in 0..Len(nodes)] ==
             IF n = 0 THEN KahnStart ELSE KahnStep(nodes, state[n - 1])
<1>1. NIssues \in Nat /\ Len(nodes) = NIssues
  BY AnalysisAssumption DEF AnalysisAssumption, IsOrder
<1>2. state = CHOOSE f : f = [n \in 0..Len(nodes) |->
                               IF n = 0 THEN KahnStart ELSE KahnStep(nodes, f[n - 1])]
  BY DEF state
<1>3. Kahn(nodes) = state[Len(nodes)].done
  BY DEF Kahn
<1> HIDE DEF state
<1>4. PICK g : Turns(nodes, NIssues, g)
  BY <1>1, TurnsExist
<1>5. Turns(nodes, NIssues, state)
  BY <1>1, <1>2, <1>4 DEF Turns
<1>6. KahnSound(state[NIssues]) /\ state[NIssues].queue = <<>>
  BY <1>5, TurnsSound
<1>7. Range(<<>>) = {}
  BY DEF Range
<1> DEFINE s == state[NIssues]
<1>8. /\ s.done \in Seq(Issues) /\ IsInjective(s.done)
      /\ \A i \in Issues : i \in Range(s.done) <=> DependsOn[i] \subseteq Range(s.done)
      /\ \A k \in DOMAIN s.done : \A i \in DependsOn[s.done[k]] : \E m \in DOMAIN s.done : m < k /\ s.done[m] = i
  BY <1>6, <1>7 DEF KahnSound
<1>9. TopologicalOrder(nodes) = s.done
  BY <1>1, <1>3 DEF TopologicalOrder
<1> QED BY <1>8, <1>9 DEF TopologicallySorted

\* The hearing has every issue once, and begins, before the phases are told apart, with
\* the sorted ones.
LEMMA FullOrderIsAll ==
    ASSUME NEW nodes, IsOrder(nodes)
    PROVE  LET sorted == TopologicalOrder(nodes)
               full == FullOrder(nodes)
           IN  /\ full \in Seq(Issues) /\ Range(full) = Issues /\ IsInjective(full)
               /\ \A n \in DOMAIN sorted : n \in DOMAIN full /\ full[n] = sorted[n]
<1> DEFINE sorted == TopologicalOrder(nodes)
           left == Issues \ Range(sorted)
           on == InCycle(left)
           cycle == Ascending(on)
           P == {n \in DOMAIN nodes : nodes[n] \notin Range(sorted) \cup Range(cycle)}
           rest == At(nodes, P)
           first == sorted \o cycle
<1>1. FullOrder(nodes) = first \o rest
  BY DEF FullOrder
<1>2. sorted \in Seq(Issues) /\ IsInjective(sorted)
  BY KahnSorts DEF TopologicallySorted
<1> HIDE DEF sorted
<1>3. on \in SUBSET left
  BY DEF InCycle
<1> HIDE DEF on
<1>4. cycle \in Seq(Issues) /\ Range(cycle) = on /\ IsInjective(cycle)
  BY <1>3, AscendingIssues
<1> HIDE DEF cycle
<1>5. Range(sorted) \cap Range(cycle) = {}
  BY <1>3, <1>4
<1>6. /\ first \in Seq(Issues) /\ IsInjective(first)
      /\ Range(first) = Range(sorted) \cup Range(cycle)
      /\ \A n \in DOMAIN sorted : n \in DOMAIN first /\ first[n] = sorted[n]
  BY <1>2, <1>4, <1>5, JoinedApart
<1> HIDE DEF first
<1>7. P \in SUBSET (DOMAIN nodes) /\ nodes \in Seq(Issues) /\ IsInjective(nodes)
      /\ {nodes[n] : n \in P} = Issues \ (Range(sorted) \cup Range(cycle))
  BY DEF IsOrder, Range
<1> HIDE DEF P, left
<1>8. rest \in Seq(Issues) /\ IsInjective(rest) /\ Range(rest) = {nodes[n] : n \in P}
  BY <1>7, AtPart
<1> HIDE DEF rest
<1>9. Range(first) \cap Range(rest) = {}
  BY <1>6, <1>7, <1>8
<1> DEFINE full == first \o rest
<1>10. /\ full \in Seq(Issues) /\ IsInjective(full) /\ Range(full) = Range(first) \cup Range(rest)
       /\ \A n \in DOMAIN first : n \in DOMAIN full /\ full[n] = first[n]
  BY <1>6, <1>8, <1>9, JoinedApart
<1> HIDE DEF full
<1>11. Range(full) = Issues
  <2>1. Range(sorted) \subseteq Issues /\ Range(cycle) \subseteq Issues
    BY <1>2, <1>4 DEF Range
  <2> QED BY <1>6, <1>7, <1>8, <1>10, <2>1
<1>12. FullOrder(nodes) = full
  BY <1>1 DEF full
<1> QED BY <1>6, <1>10, <1>11, <1>12 DEF sorted

\* Every issue falls into a phase.
LEMMA PhaseIsNumber ==
    ASSUME NEW i \in Issues
    PROVE  PhaseNumber(i) \in Int
<1>1. DOMAIN Phases = 1..4
  BY DEF Phases
<1>2. PhaseOf[i] \in Range(Phases)
  BY AnalysisAssumption DEF AnalysisAssumption
<1>3. \E p \in DOMAIN Phases : Phases[p] = PhaseOf[i]
  BY <1>2 DEF Range
<1>4. PhaseNumber(i) \in DOMAIN Phases
  BY <1>3 DEF PhaseNumber
<1> QED BY <1>1, <1>4

\* The two properties of the hearing, of any list of issues.
EveryIssueOnce(order) == Range(order) = Issues /\ IsInjective(order)

InDependencyOrder(order) ==
    \A m, n \in DOMAIN order :
        /\ order[n] \in DependsOn[order[m]]
        /\ PhaseOf[order[m]] = PhaseOf[order[n]]
        /\ ~Blocked(order[m])
        => n < m

\* The hearing has both: the sort by phase neither drops an issue nor turns two of one phase.
LEMMA HearingTyped ==
    ASSUME NEW nodes, IsOrder(nodes)
    PROVE  EveryIssueOnce(HearingOrder(nodes)) /\ InDependencyOrder(HearingOrder(nodes))
<1> DEFINE sorted == TopologicalOrder(nodes)
           full == FullOrder(nodes)
           key == [n \in DOMAIN full |-> PhaseNumber(full[n])]
           order == HearingOrder(nodes)
           N == Len(full)
           left == Issues \ Range(sorted)
<1>1. /\ full \in Seq(Issues) /\ Range(full) = Issues /\ IsInjective(full)
      /\ \A n \in DOMAIN sorted : n \in DOMAIN full /\ full[n] = sorted[n]
  BY FullOrderIsAll
<1>2. order = StableSort(full, key)
  BY DEF HearingOrder
<1>3. TopologicallySorted(sorted)
  BY KahnSorts
<1> HIDE DEF sorted, full, order
<1>4. DOMAIN full = 1..N /\ N \in Nat /\ \A n \in DOMAIN full : full[n] \in Issues
  BY <1>1
<1>5. \A n \in DOMAIN full : key[n] \in Int /\ key[n] = PhaseNumber(full[n])
  BY <1>4, PhaseIsNumber
<1> HIDE DEF key, N
<1>6. Range(order) = Issues /\ IsInjective(order)
  BY <1>1, <1>2, <1>5, SortKeeps
<1>7. PICK place : ComesFrom(order, full, N, key, place)
  BY <1>1, <1>2, <1>5, SortArranges DEF N
<1>8. /\ place \in [1..N -> 1..N]
      /\ order = [n \in 1..N |-> full[place[n]]]
      /\ \A m, n \in 1..N : m < n <=> \/ key[place[m]] < key[place[n]]
                                      \/ key[place[m]] = key[place[n]] /\ place[m] < place[n]
  BY <1>7 DEF ComesFrom
<1>9. \A i \in left : Blocked(i)
  <2>1. \A i \in left : DependsOn[i] \cap left # {}
    <3> SUFFICES ASSUME NEW i \in left PROVE DependsOn[i] \cap left # {}
      OBVIOUS
    <3>1. ~ (DependsOn[i] \subseteq Range(sorted))
      BY <1>3 DEF TopologicallySorted
    <3>2. DependsOn[i] \subseteq Issues
      BY AnalysisAssumption DEF AnalysisAssumption
    <3> QED BY <3>1, <3>2
  <2>2. left \in SUBSET Issues
    OBVIOUS
  <2> HIDE DEF left
  <2> QED BY <2>1, <2>2 DEF Blocked
<1>10. ASSUME NEW m \in DOMAIN order, NEW n \in DOMAIN order,
              order[n] \in DependsOn[order[m]], PhaseOf[order[m]] = PhaseOf[order[n]],
              ~Blocked(order[m])
       PROVE  n < m
  <2>1. m \in 1..N /\ n \in 1..N /\ place[m] \in DOMAIN full /\ place[n] \in DOMAIN full
        /\ order[m] = full[place[m]] /\ order[n] = full[place[n]]
    BY <1>4, <1>8
  <2>2. order[m] \in Range(sorted)
    BY <1>4, <1>9, <1>10, <2>1
  <2>3. PICK k \in DOMAIN sorted : sorted[k] = order[m]
    BY <2>2 DEF Range
  <2>4. PICK j \in DOMAIN sorted : j < k /\ sorted[j] = order[n]
    BY <1>3, <1>10, <2>3 DEF TopologicallySorted
  <2>5. place[m] = k
    BY <1>1, <2>1, <2>3 DEF IsInjective
  <2>6. place[n] = j
    BY <1>1, <2>1, <2>4 DEF IsInjective
  <2>7. key[place[m]] = key[place[n]]
    <3>1. PhaseNumber(order[m]) = PhaseNumber(order[n])
      BY <1>10 DEF PhaseNumber
    <3> QED BY <1>5, <2>1, <3>1
  <2> QED BY <1>8, <2>1, <2>4, <2>5, <2>6, <2>7
<1>11. InDependencyOrder(order)
  BY <1>10 DEF InDependencyOrder
<1> QED BY <1>6, <1>11 DEF EveryIssueOnce, order

----------------------------------------------------------------------------
(* The inductive invariant *)

Stages == {"start", "ranking", "paths", "advice", "admissibility", "defence", "done", "raised"}

BeforePaths == {"start", "ranking"}
BeforeAdvice == BeforePaths \cup {"paths", "advice"}

\* What every engine hands on, with what later ones need of it.
RankingSound ==
    /\ IsRanked(ranked)
    /\ answers \in Seq(Evaluation)

TreeSound ==
    /\ amount.conflicts \in Seq(Conflict)
    /\ tree # NoTree =>
          /\ IsDecisionPathTree(tree)
          /\ ~tree.failed =>
                DOMAIN amount.conflicts \subseteq {tree.blocking[n].automatic : n \in DOMAIN tree.blocking}

ChainSound == chain # NoChain => IsAttackChain(chain) /\ chain.attacks \in Seq(AttackKept)

\* The two calls of the gather, and what they wait for.
Gathered ==
    /\ stage \in Stages
    /\ stage \in BeforePaths => tree = NoTree /\ chain = NoChain
    /\ stage \notin BeforePaths \cup {"paths"} => tree # NoTree /\ chain # NoChain

\* The advice is about the tree and the ranking that the summary is made of.
AdviceSound ==
    IF stage \in BeforeAdvice THEN advice = NoAdvice
    ELSE \E s \in Strategies : advice = Advice(ranked, tree, s)

DefenceSound ==
    /\ IsAssessment(assessed)
    /\ IsDefenceChain(defence)
    /\ stage = "done" => Answered(defence)

SummarySound ==
    stage = "done" => summary = Summary(amount, ranked, tree, chain, advice, defence)

HearingSound ==
    hearing = IF stage \in BeforeAdvice \cup {"admissibility"} THEN <<>>
              ELSE HearingOrder(ranked.order)

Sound == /\ RankingSound /\ TreeSound /\ ChainSound /\ Gathered /\ AdviceSound
         /\ DefenceSound /\ SummarySound /\ HearingSound

\* The result of a call is never taken for the call not having returned.
LEMMA TreeReturned ==
    ASSUME NEW t, IsDecisionPathTree(t)
    PROVE  t # NoTree
<1>1. \A n \in DOMAIN t.paths : t.paths[n].id \in Nat
  <2>1. \A n \in DOMAIN t.paths : t.paths[n] \in DecisionPath
    BY DEF IsDecisionPathTree
  <2> QED BY <2>1 DEF DecisionPath
<1>2. t.likely \in Nat
  BY <1>1 DEF IsDecisionPathTree, NoPath
<1>3. NoTree.likely = -1
  BY DEF NoTree, EmptyTree
<1> QED BY <1>2, <1>3

\* Nor is the chain that a call returns.
LEMMA ChainReturned ==
    /\ EmptyChain # NoChain
    /\ \A c : ~c.failed => c # NoChain
<1>1. EmptyChain.attacks # NoChain.attacks
  BY DEF EmptyChain, NoChain
<1>2. NoChain.failed
  BY DEF EmptyChain, NoChain
<1> QED BY <1>1, <1>2

\* Before the first engine.
LEMMA InitSound == Init => Sound
<1> SUFFICES ASSUME Init PROVE Sound
  OBVIOUS
<1> USE DEF Init
<1>1. RankingSound
  BY UnrankedIsRanked DEF RankingSound
<1>2. TreeSound
  BY DEF TreeSound, NoReport
<1>3. ChainSound /\ Gathered
  BY DEF ChainSound, Gathered, Stages, BeforePaths
<1>4. AdviceSound /\ HearingSound
  BY DEF AdviceSound, HearingSound, BeforeAdvice, BeforePaths
<1>5. DefenceSound /\ SummarySound
  BY NoDefenceTyped DEF DefenceSound, SummarySound, IsAssessment
<1> QED BY <1>1, <1>2, <1>3, <1>4, <1>5 DEF Sound

\* The figures are there before anything is made of them.
LEMMA StartSound ==
    ASSUME Sound, Start
    PROVE  Sound'
<1> USE DEF Sound, Start
<1>1. RankingSound' /\ ChainSound'
  BY DEF RankingSound, ChainSound
<1>2. tree = NoTree /\ chain = NoChain
  BY DEF Gathered, BeforePaths
<1>3. TreeSound'
  <2>1. amount'.conflicts \in Seq(Conflict)
    <3>1. CASE amount' = NoReport
      BY <3>1 DEF NoReport
    <3>2. CASE \E f \in Financials : amount' = Report(f)
      BY <3>2, ConflictsTyped
    <3> QED BY <3>1, <3>2
  <2> QED BY <1>2, <2>1 DEF TreeSound
<1>4. Gathered'
  BY <1>2 DEF Gathered, Stages, BeforePaths
<1>5. AdviceSound' /\ HearingSound'
  BY DEF AdviceSound, HearingSound, BeforeAdvice, BeforePaths
<1>6. DefenceSound' /\ SummarySound'
  BY DEF DefenceSound, SummarySound
<1> QED BY <1>1, <1>3, <1>4, <1>5, <1>6

\* A batch answers with evaluations, which are added to those collected.
LEMMA BatchSound ==
    ASSUME Sound, BatchReturns
    PROVE  Sound'
<1> DEFINE batch == CHOOSE b \in batches : \A c \in batches : Min(b) <= Min(c)
<1>0. /\ stage = "ranking"
      /\ UNCHANGED <<amount, tree, chain, advice, assessed, hearing, defence, summary>>
  BY DEF BatchReturns
<1>1. PICK ok \in BOOLEAN, answer \in Answers(Evaluation) :
         /\ ~ok => answer = <<>>
         /\ LET found == answers \o answer
            IN  /\ answers' = IF batches = {batch} THEN <<>> ELSE found
                /\ failed' = (failed /\ ~ok)
                /\ batches' = batches \ {batch}
                /\ IF batches = {batch} THEN RankingEnds(found, failed /\ ~ok)
                   ELSE UNCHANGED <<stage, ranked>>
  BY DEF BatchReturns
<1> DEFINE found == answers \o answer
<1>2. answer \in Seq(Evaluation)
  BY AnswersAreLists
<1>3. found \in Seq(Evaluation)
  BY <1>2 DEF Sound, RankingSound
<1> HIDE DEF batch, found
<1>4. /\ answers' \in {<<>>, found}
      /\ RankingEnds(found, failed /\ ~ok) \/ UNCHANGED <<stage, ranked>>
  BY <1>1 DEF found
<1>5. stage' \in {"ranking", "paths"}
  BY <1>0, <1>4 DEF RankingEnds
<1>6. IsRanked(ranked')
  <2>1. CASE UNCHANGED <<stage, ranked>>
    BY <2>1 DEF Sound, RankingSound
  <2>2. CASE RankingEnds(found, failed /\ ~ok)
    <3>1. ranked' = Unranked \/ \E judged \in Matched(found) : ranked' = Ranked(judged)
      BY <2>2 DEF RankingEnds
    <3> QED BY <1>3, <3>1, UnrankedIsRanked, MatchedJudged, RankedIsRanked
  <2> QED BY <1>4, <2>1, <2>2
<1>7. RankingSound'
  <2>1. answers' = <<>> \/ answers' = found
    BY <1>4
  <2>2. <<>> \in Seq(Evaluation)
    OBVIOUS
  <2>3. answers' \in Seq(Evaluation)
    BY <1>3, <2>1, <2>2
  <2> QED BY <1>6, <2>3 DEF RankingSound
<1>8. TreeSound' /\ ChainSound' /\ Gathered'
  BY <1>0, <1>5 DEF Sound, TreeSound, ChainSound, Gathered, Stages, BeforePaths
<1>9. AdviceSound' /\ HearingSound'
  BY <1>0, <1>5 DEF Sound, AdviceSound, HearingSound, BeforeAdvice, BeforePaths
<1>10. DefenceSound' /\ SummarySound'
  BY <1>0, <1>5 DEF Sound, DefenceSound, SummarySound
<1> QED BY <1>7, <1>8, <1>9, <1>10 DEF Sound

\* The paths return, before or after the attacks.
LEMMA PathsSound ==
    ASSUME Sound, PathsReturn
    PROVE  Sound'
<1> USE DEF PathsReturn
<1>1. RankingSound' /\ ChainSound'
  BY DEF Sound, RankingSound, ChainSound
<1>2. /\ IsDecisionPathTree(tree')
      /\ ~tree'.failed =>
            DOMAIN amount.conflicts \subseteq {tree'.blocking[n].automatic : n \in DOMAIN tree'.blocking}
  <2>1. CASE tree' = EmptyTree
    <3>1. EmptyTree.failed
      BY DEF EmptyTree
    <3> QED BY <2>1, <3>1, EmptyTreeTyped
  <2>2. CASE \E items \in Answers(PathItems) : tree' = Tree(items, amount.conflicts)
    <3>1. amount.conflicts \in Seq(Conflict)
      BY DEF Sound, TreeSound
    <3> QED BY <2>2, <3>1, TreeTyped
  <2> QED BY <2>1, <2>2
<1>3. tree' # NoTree
  BY <1>2, TreeReturned
<1>4. TreeSound'
  BY <1>2 DEF Sound, TreeSound
<1>5. stage' \in {"paths", "advice"} /\ (stage' = "advice" <=> chain # NoChain)
  OBVIOUS
<1>6. Gathered'
  BY <1>3, <1>5 DEF Gathered, Stages, BeforePaths
<1>7. AdviceSound' /\ HearingSound'
  BY <1>5 DEF Sound, AdviceSound, HearingSound, BeforeAdvice, BeforePaths
<1>8. DefenceSound' /\ SummarySound'
  BY <1>5 DEF Sound, DefenceSound, SummarySound
<1> QED BY <1>1, <1>4, <1>6, <1>7, <1>8 DEF Sound

\* The attacks return, before or after the paths.
LEMMA AttacksSound ==
    ASSUME Sound, AttacksReturn
    PROVE  Sound'
<1> USE DEF AttacksReturn
<1>1. RankingSound' /\ TreeSound'
  BY DEF Sound, RankingSound, TreeSound
<1>2. IsAttackChain(chain') /\ chain'.attacks \in Seq(AttackKept) /\ chain' # NoChain
  <2>1. CASE chain' = EmptyChain
    BY <2>1, EmptyChainTyped, ChainReturned
  <2>2. CASE \E items \in Answers(AttackItems) : chain' = Chain(items)
    BY <2>2, ChainTyped, ChainReturned
  <2> QED BY <2>1, <2>2
<1>3. ChainSound'
  BY <1>2 DEF ChainSound
<1>4. stage' \in {"paths", "advice"} /\ (stage' = "advice" <=> tree # NoTree)
  OBVIOUS
<1>5. Gathered'
  BY <1>2, <1>4 DEF Gathered, Stages, BeforePaths
<1>6. AdviceSound' /\ HearingSound'
  BY <1>4 DEF Sound, AdviceSound, HearingSound, BeforeAdvice, BeforePaths
<1>7. DefenceSound' /\ SummarySound'
  BY <1>4 DEF Sound, DefenceSound, SummarySound
<1> QED BY <1>1, <1>3, <1>5, <1>6, <1>7 DEF Sound

\* The advice is made of the ranking and the tree.
LEMMA AdvisingSound ==
    ASSUME Sound, AdviceReturns
    PROVE  Sound'
<1> USE DEF AdviceReturns
<1>1. RankingSound' /\ TreeSound' /\ ChainSound'
  BY DEF Sound, RankingSound, TreeSound, ChainSound
<1>2. Gathered'
  BY DEF Sound, Gathered, Stages, BeforePaths
<1>3. AdviceSound'
  BY DEF AdviceSound, BeforeAdvice, BeforePaths
<1>4. HearingSound' /\ DefenceSound' /\ SummarySound'
  BY DEF Sound, HearingSound, BeforeAdvice, BeforePaths, DefenceSound, SummarySound
<1> QED BY <1>1, <1>2, <1>3, <1>4 DEF Sound

\* The evidence is assessed and the hearing ordered.
LEMMA AdmissibilitySound ==
    ASSUME Sound, AdmissibilityReturns
    PROVE  Sound'
<1> USE DEF AdmissibilityReturns
<1>1. RankingSound' /\ TreeSound' /\ ChainSound'
  BY DEF Sound, RankingSound, TreeSound, ChainSound
<1>2. Gathered'
  BY DEF Sound, Gathered, Stages, BeforePaths
<1>3. AdviceSound' /\ HearingSound'
  BY DEF Sound, AdviceSound, HearingSound, BeforeAdvice, BeforePaths
<1>4. IsAssessment(assessed')
  <2>1. IsAssessment(<<>>)
    BY DEF IsAssessment
  <2> QED BY <2>1, AssessedTyped DEF Assessments
<1>5. DefenceSound' /\ SummarySound'
  BY <1>4 DEF Sound, DefenceSound, SummarySound
<1> QED BY <1>1, <1>2, <1>3, <1>5 DEF Sound

\* The defence, and the summary of everything, or its refusal.
LEMMA DefendingSound ==
    ASSUME Sound, DefenceReturns
    PROVE  Sound'
<1>0. /\ stage = "defence"
      /\ UNCHANGED <<amount, batches, failed, answers, ranked, tree, chain, advice, assessed,
                     hearing>>
  BY DEF DefenceReturns
<1>1. PICK d \in {FailedDefence} \cup {Defence(items) : items \in Answers(DefenceItems)} :
         LET s == Summary(amount, ranked, tree, chain, advice, d)
         IN  /\ defence' = d
             /\ IF Valid(amount, s) THEN summary' = s /\ stage' = "done"
                ELSE stage' = "raised" /\ UNCHANGED summary
  BY DEF DefenceReturns
<1>2. /\ stage' \in {"done", "raised"}
      /\ stage' = "done" => summary' = Summary(amount, ranked, tree, chain, advice, defence')
  BY <1>1
<1>3. RankingSound' /\ TreeSound' /\ ChainSound'
  BY <1>0 DEF Sound, RankingSound, TreeSound, ChainSound
<1>4. Gathered'
  BY <1>0, <1>2 DEF Sound, Gathered, Stages, BeforePaths
<1>5. AdviceSound' /\ HearingSound'
  BY <1>0, <1>2 DEF Sound, AdviceSound, HearingSound, BeforeAdvice, BeforePaths
<1>6. DefenceSound'
  BY <1>0, <1>1, NoDefenceTyped, DefenceTyped DEF Sound, DefenceSound
<1>7. SummarySound'
  BY <1>0, <1>2 DEF SummarySound
<1> QED BY <1>3, <1>4, <1>5, <1>6, <1>7 DEF Sound

\* The invariant is inductive.
LEMMA AlwaysSound == Spec => []Sound
<1>1. Init => Sound
  BY InitSound
<1>2. Sound /\ [Next]_vars => Sound'
  <2> SUFFICES ASSUME Sound, [Next]_vars PROVE Sound'
    OBVIOUS
  <2>1. CASE Start BY <2>1, StartSound
  <2>2. CASE BatchReturns BY <2>2, BatchSound
  <2>3. CASE PathsReturn BY <2>3, PathsSound
  <2>4. CASE AttacksReturn BY <2>4, AttacksSound
  <2>5. CASE AdviceReturns BY <2>5, AdvisingSound
  <2>6. CASE AdmissibilityReturns BY <2>6, AdmissibilitySound
  <2>7. CASE DefenceReturns BY <2>7, DefendingSound
  <2>8. CASE UNCHANGED vars
    BY <2>8 DEF vars, Sound, RankingSound, TreeSound, ChainSound, Gathered, AdviceSound,
                DefenceSound, SummarySound, HearingSound
  <2> QED BY <2>1, <2>2, <2>3, <2>4, <2>5, <2>6, <2>7, <2>8 DEF Next
<1> QED BY <1>1, <1>2, PTL DEF Spec


----------------------------------------------------------------------------
(* The theorems *)

\* Whatever the LLM makes up, every reference that the engines filter resolves, and every
\* conflict of the amounts has become a blocking condition of a tree whose call has not
\* failed; a path's fallback and an amendment's evidence are copied and not covered.
THEOREM ReferencesResolveHolds == Spec => []ReferencesResolve
<1>1. Sound => ReferencesResolve
  <2> SUFFICES ASSUME Sound PROVE ReferencesResolve
    OBVIOUS
  <2>1. IsRecommendation(advice, tree)
        /\ (stage = "done" => advice.supply = GapDescriptors)
    <3>1. CASE stage \in BeforeAdvice
      BY <3>1, NoAdviceTyped DEF Sound, AdviceSound, BeforeAdvice, BeforePaths
    <3>2. CASE stage \notin BeforeAdvice
      <4>1. PICK s \in Strategies : advice = Advice(ranked, tree, s)
        BY <3>2 DEF Sound, AdviceSound
      <4>2. s \in [headline : Claim, plan : Claim]
        BY PostDebateAssumption DEF PostDebateAssumption
      <4> QED BY <4>1, <4>2, AdviceTyped DEF Sound, RankingSound
    <3> QED BY <3>1, <3>2
  <2>2. ASSUME stage = "done"
        PROVE  LinesResolve(summary, ranked, chain)
    <3>1. chain.attacks \in Seq(AttackKept)
      BY <2>2 DEF Sound, ChainSound, Gathered, BeforePaths
    <3>2. summary = Summary(amount, ranked, tree, chain, advice, defence)
      BY <2>2 DEF Sound, SummarySound
    <3>3. IsRanked(ranked)
      BY DEF Sound, RankingSound
    <3>4. IsRecommendation(advice, tree) /\ advice.supply = GapDescriptors
      BY <2>1, <2>2
    <3> QED BY <3>1, <3>2, <3>3, <3>4, SummaryTyped
  <2> QED BY <2>1, <2>2 DEF LinesResolve, ReferencesResolve, Sound, TreeSound, ChainSound, DefenceSound, IsAssessment
<1> QED BY <1>1, AlwaysSound, PTL

\* The hearing that the engines hand on.
LEMMA HearingKept ==
    ASSUME Sound
    PROVE  \/ hearing = <<>> /\ stage \notin {"defence", "done"}
           \/ EveryIssueOnce(hearing) /\ InDependencyOrder(hearing)
<1>1. \/ hearing = <<>> /\ stage \in BeforeAdvice \cup {"admissibility"}
      \/ hearing = HearingOrder(ranked.order)
  BY DEF Sound, HearingSound
<1>2. IsOrder(ranked.order)
  BY DEF Sound, RankingSound, IsRanked, IsOrder
<1>3. "defence" \notin BeforeAdvice \cup {"admissibility"} /\ "done" \notin BeforeAdvice \cup {"admissibility"}
  BY DEF BeforeAdvice, BeforePaths
<1> QED BY <1>1, <1>2, <1>3, HearingTyped

\* No issue gets lost: the ranked tree and the hearing have every issue once, and the
\* defence chain answers it or says that it does not.
THEOREM EveryIssueKeptHolds == Spec => []EveryIssueKept
<1>1. Sound => EveryIssueKept
  <2> SUFFICES ASSUME Sound PROVE EveryIssueKept
    OBVIOUS
  <2>1. Range(ranked.order) = Issues /\ IsInjective(ranked.order)
    BY DEF Sound, RankingSound, IsRanked
  <2>2. stage \in {"defence", "done"} => Range(hearing) = Issues /\ IsInjective(hearing)
    BY HearingKept DEF EveryIssueOnce
  <2>3. stage = "done" => Answered(defence)
    BY DEF Sound, DefenceSound
  <2> QED BY <2>1, <2>2, <2>3 DEF EveryIssueKept, Answered
<1> QED BY <1>1, AlwaysSound, PTL

\* Within a phase an issue is heard after those it depends on, unless it waits for a cycle:
\* Kahn's order, to which the cycles and the rest are added, and the stable sort by phase.
THEOREM DependenciesFirstHolds == Spec => []DependenciesFirst
<1>1. Sound => DependenciesFirst
  <2> SUFFICES ASSUME Sound PROVE DependenciesFirst
    OBVIOUS
  <2>1. hearing = <<>> \/ InDependencyOrder(hearing)
    BY HearingKept
  <2> QED BY <2>1 DEF InDependencyOrder, DependenciesFirst
<1> QED BY <1>1, AlwaysSound, PTL
=============================================================================
