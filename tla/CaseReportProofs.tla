-------------------------- MODULE CaseReportProofs --------------------------
(***************************************************************************)
(* Proofs about CaseReport: any case, any results of the earlier steps,    *)
(* any number of processes, and deaths anywhere.  What the report does     *)
(* with lists comes first, then its parts, then the invariants.            *)
(***************************************************************************)
EXTENDS CaseReport, FiniteSetTheorems, SequenceTheorems, TLAPS

----------------------------------------------------------------------------
\* Induction over a number: the least one of which something holds.
LEMMA LeastNumber ==
    ASSUME NEW S \in SUBSET Nat, S # {}
    PROVE  \E x \in S : \A y \in S : x <= y
<1> DEFINE R == {ss \in Nat \X Nat : ss[1] < ss[2]}
<1>1. IsWellFoundedOn(R, Nat)
  BY NatLessThanWellFounded DEF OpToRel
<1> HIDE DEF R
<1>2. PICK x \in S : \A y \in S : ~ (<<y, x>> \in R)
  BY <1>1, WFMin
<1>3. \A y \in S : ~ (y < x)
  BY <1>2 DEF R
<1> QED BY <1>3

\* The least of some numbers is one of them.
LEMMA MinIsIn ==
    ASSUME NEW S \in SUBSET Nat, S # {}
    PROVE  Min(S) \in S
BY LeastNumber DEF Min

StrictOrder(S, before) ==
    /\ \A x \in S : <<x, x>> \notin before
    /\ \A x, y \in S : x # y => <<x, y>> \in before \/ <<y, x>> \in before
    /\ \A x, y, z \in S : <<x, y>> \in before /\ <<y, z>> \in before => <<x, z>> \in before

\* Arranged has every member of the set once, in the order of the relation: the number
\* of members before x determines x, and takes every value below the size of the set.
LEMMA ArrangedInOrder ==
    ASSUME NEW S, IsFiniteSet(S), NEW before, StrictOrder(S, before)
    PROVE  LET r == Arranged(S, before)
               N == Cardinality(S)
           IN  /\ N \in Nat
               /\ r \in [1..N -> S]
               /\ \A x \in S : \E n \in 1..N : r[n] = x
               /\ \A m, n \in 1..N : <<r[m], r[n]>> \in before <=> m < n
<1> DEFINE r == Arranged(S, before)
           N == Cardinality(S)
           Below(x) == {y \in S : <<y, x>> \in before}
           Nth(n) == CHOOSE x \in S : Cardinality(Below(x)) = n - 1
           rank == [x \in S |-> Cardinality(Below(x)) + 1]
<1>1. N \in Nat
  BY FS_CardinalityType
<1>2. ASSUME NEW x \in S
      PROVE  IsFiniteSet(Below(x)) /\ Cardinality(Below(x)) \in Nat /\ Cardinality(Below(x)) < N
  <2>1. Below(x) \in SUBSET S /\ Below(x) # S
    BY DEF StrictOrder
  <2>2. IsFiniteSet(Below(x)) /\ Cardinality(Below(x)) <= N /\ Cardinality(Below(x)) # N
    BY <2>1, FS_Subset
  <2>3. Cardinality(Below(x)) \in Nat
    BY <2>2, FS_CardinalityType
  <2> QED BY <1>1, <2>2, <2>3
<1>3. ASSUME NEW x \in S, NEW y \in S, <<x, y>> \in before
      PROVE  Cardinality(Below(x)) < Cardinality(Below(y))
  <2>1. Below(x) \in SUBSET Below(y) /\ Below(x) # Below(y)
    BY <1>3 DEF StrictOrder
  <2>2. Cardinality(Below(x)) <= Cardinality(Below(y)) /\ Cardinality(Below(y)) # Cardinality(Below(x))
    BY <1>2, <2>1, FS_Subset
  <2>3. Cardinality(Below(x)) \in Nat /\ Cardinality(Below(y)) \in Nat
    BY <1>2
  <2> HIDE DEF Below
  <2> QED BY <2>2, <2>3
<1>4. \A x, y \in S : Cardinality(Below(x)) = Cardinality(Below(y)) => x = y
  <2> SUFFICES ASSUME NEW x \in S, NEW y \in S, x # y
               PROVE  Cardinality(Below(x)) # Cardinality(Below(y))
    OBVIOUS
  <2>1. <<x, y>> \in before \/ <<y, x>> \in before
    BY DEF StrictOrder
  <2>2. Cardinality(Below(x)) \in Nat /\ Cardinality(Below(y)) \in Nat
    BY <1>2
  <2>3. Cardinality(Below(x)) < Cardinality(Below(y)) \/ Cardinality(Below(y)) < Cardinality(Below(x))
    BY <1>3, <2>1
  <2> HIDE DEF Below
  <2> QED BY <2>2, <2>3
<1>5. rank \in Surjection(S, 1..N)
  <2>1. \A x \in S : rank[x] = Cardinality(Below(x)) + 1 /\ rank[x] \in 1..N
    <3> SUFFICES ASSUME NEW x \in S PROVE Cardinality(Below(x)) + 1 \in 1..N
      OBVIOUS
    <3> HIDE DEF Below, N
    <3> QED BY <1>1, <1>2
  <2>2. rank \in Injection(S, 1..N)
    <3>1. \A x, y \in S : rank[x] = rank[y] => x = y
      <4> SUFFICES ASSUME NEW x \in S, NEW y \in S, rank[x] = rank[y] PROVE x = y
        OBVIOUS
      <4>1. Cardinality(Below(x)) \in Nat /\ Cardinality(Below(y)) \in Nat
        BY <1>2
      <4>2. Cardinality(Below(x)) + 1 = Cardinality(Below(y)) + 1
        BY <2>1
      <4>3. Cardinality(Below(x)) = Cardinality(Below(y))
        <5> HIDE DEF Below
        <5> QED BY <4>1, <4>2
      <4> QED BY <1>4, <4>3
    <3>2. rank \in [S -> 1..N]
      BY <2>1
    <3> HIDE DEF rank
    <3> QED BY <3>1, <3>2 DEF Injection, IsInjective
  <2>3. IsFiniteSet(1..N) /\ Cardinality(1..N) = N
    BY <1>1, FS_Interval
  <2> HIDE DEF rank, N
  <2>4. Cardinality(S) = Cardinality(1..N) <=> rank \in Surjection(S, 1..N)
    BY <2>2, <2>3, FS_Injection
  <2> QED BY <2>3, <2>4 DEF N
<1>6. ASSUME NEW n \in 1..N PROVE r[n] \in S /\ Cardinality(Below(r[n])) = n - 1
  <2>1. PICK x \in S : rank[x] = n
    BY <1>5 DEF Surjection
  <2>2. Cardinality(Below(x)) \in Nat /\ Cardinality(Below(x)) + 1 = n
    BY <1>2, <2>1
  <2>3. Cardinality(Below(x)) = n - 1
    <3> HIDE DEF Below
    <3> QED BY <2>2
  <2>4. r[n] = CHOOSE y \in S : Cardinality(Below(y)) = n - 1
    BY DEF Arranged
  <2> HIDE DEF r, Below
  <2> QED BY <2>3, <2>4
<1>7. r \in [1..N -> S]
  <2>1. r = [n \in 1..N |-> Nth(n)]
    BY DEF Arranged
  <2> HIDE DEF r, Nth, N
  <2>2. \A n \in 1..N : r[n] \in S
    BY <1>6
  <2> QED BY <2>1, <2>2
<1>8. ASSUME NEW x \in S PROVE \E n \in 1..N : r[n] = x
  <2>1. Cardinality(Below(x)) \in Nat /\ Cardinality(Below(x)) < N
    BY <1>2
  <2> DEFINE n == Cardinality(Below(x)) + 1
  <2>2. n \in 1..N /\ n - 1 = Cardinality(Below(x))
    <3> HIDE DEF Below, N
    <3> QED BY <1>1, <2>1
  <2>3. r[n] \in S /\ Cardinality(Below(r[n])) = Cardinality(Below(x))
    <3> HIDE DEF n, Below, r, N
    <3> QED BY <1>6, <2>2
  <2>4. r[n] = x
    <3> HIDE DEF n, r
    <3> QED BY <1>4, <2>3
  <2> HIDE DEF r, N, n
  <2> QED BY <2>2, <2>4
<1>9. ASSUME NEW m \in 1..N, NEW n \in 1..N PROVE <<r[m], r[n]>> \in before <=> m < n
  <2> HIDE DEF r, Below, N
  <2>1. r[m] \in S /\ r[n] \in S /\ Cardinality(Below(r[m])) = m - 1 /\ Cardinality(Below(r[n])) = n - 1
    BY <1>6
  <2>2. <<r[m], r[n]>> \in before => m < n
    <3> SUFFICES ASSUME <<r[m], r[n]>> \in before PROVE m < n
      OBVIOUS
    <3>1. Cardinality(Below(r[m])) < Cardinality(Below(r[n]))
      BY <1>3, <2>1 DEF Below
    <3> QED BY <1>1, <2>1, <3>1
  <2>3. <<r[n], r[m]>> \in before => n < m
    <3> SUFFICES ASSUME <<r[n], r[m]>> \in before PROVE n < m
      OBVIOUS
    <3>1. Cardinality(Below(r[n])) < Cardinality(Below(r[m]))
      BY <1>3, <2>1 DEF Below
    <3> QED BY <1>1, <2>1, <3>1
  <2>4. m < n => r[m] # r[n]
    BY <1>1, <2>1
  <2>5. ~ (m < n /\ n < m)
    BY <1>1
  <2> QED BY <2>1, <2>2, <2>3, <2>4, <2>5 DEF StrictOrder
<1> HIDE DEF r, N
<1> QED BY <1>1, <1>7, <1>8, <1>9 DEF r, N

\* Ascending has the numbers of a finite set in their order.
LEMMA AscendingInOrder ==
    ASSUME NEW k \in Nat, NEW P \in SUBSET (1..k)
    PROVE  LET r == Ascending(P)
               N == Cardinality(P)
           IN  /\ N \in Nat
               /\ r \in [1..N -> P]
               /\ \A x \in P : \E n \in 1..N : r[n] = x
               /\ \A m, n \in 1..N : r[m] < r[n] <=> m < n
<1> DEFINE before == {s \in P \X P : s[1] < s[2]}
           r == Arranged(P, before)
           N == Cardinality(P)
<1>1. IsFiniteSet(P)
  <2>1. IsFiniteSet(1..k)
    BY FS_Interval
  <2> QED BY <2>1, FS_Subset
<1>2. \A x, y \in P : <<x, y>> \in before <=> x < y
  OBVIOUS
<1>3. StrictOrder(P, before)
  <2> HIDE DEF before
  <2> QED BY <1>2 DEF StrictOrder
<1>4. /\ N \in Nat /\ r \in [1..N -> P]
      /\ \A x \in P : \E n \in 1..N : r[n] = x
      /\ \A m, n \in 1..N : <<r[m], r[n]>> \in before <=> m < n
  <2> HIDE DEF before
  <2> QED BY <1>1, <1>3, ArrangedInOrder
<1>5. \A m, n \in 1..N : r[m] < r[n] <=> m < n
  <2> SUFFICES ASSUME NEW m \in 1..N, NEW n \in 1..N PROVE r[m] < r[n] <=> m < n
    OBVIOUS
  <2>1. r[m] \in P /\ r[n] \in P /\ (<<r[m], r[n]>> \in before <=> m < n)
    <3> HIDE DEF r, N
    <3> QED BY <1>4
  <2> HIDE DEF r, before
  <2> QED BY <1>2, <2>1
<1>6. Ascending(P) = r
  BY DEF Ascending
<1> HIDE DEF r, N
<1> QED BY <1>4, <1>5, <1>6 DEF N

\* At keeps exactly what s has at the places, in the order of the places.
LEMMA AtKeeps ==
    ASSUME NEW X, NEW s \in Seq(X), NEW P \in SUBSET (DOMAIN s)
    PROVE  LET a == At(s, P)
           IN  /\ a \in Seq({s[p] : p \in P})
               /\ \A p \in P : \E n \in DOMAIN a : a[n] = s[p]
               /\ \A m, n \in DOMAIN a : m < n => \E p, q \in P : p < q /\ a[m] = s[p] /\ a[n] = s[q]
<1> DEFINE r == Ascending(P)
           N == Cardinality(P)
           a == At(s, P)
<1>1. DOMAIN s = 1..Len(s) /\ Len(s) \in Nat
  OBVIOUS
<1>2. /\ N \in Nat /\ r \in [1..N -> P]
      /\ \A x \in P : \E n \in 1..N : r[n] = x
      /\ \A m, n \in 1..N : r[m] < r[n] <=> m < n
  BY <1>1, AscendingInOrder
<1>3. a = [n \in 1..N |-> s[r[n]]]
  <2>1. a = [n \in DOMAIN r |-> s[r[n]]]
    BY DEF At
  <2> HIDE DEF r, N, a
  <2> QED BY <1>2, <2>1
<1> HIDE DEF r, N, a
<1>4. DOMAIN a = 1..N /\ \A n \in 1..N : r[n] \in P /\ a[n] = s[r[n]]
  BY <1>2, <1>3
<1>5. a \in Seq({s[p] : p \in P})
  <2>1. a \in [1..N -> {s[p] : p \in P}]
    BY <1>3, <1>4
  <2> QED BY <1>2, <2>1
<1>6. \A p \in P : \E n \in DOMAIN a : a[n] = s[p]
  BY <1>2, <1>4
<1>7. \A m, n \in DOMAIN a : m < n => \E p, q \in P : p < q /\ a[m] = s[p] /\ a[n] = s[q]
  BY <1>2, <1>4
<1> QED BY <1>5, <1>6, <1>7 DEF a

\* In particular nothing that is kept of a list leaves its type, ...
LEMMA AtTyped ==
    ASSUME NEW X, NEW s \in Seq(X), NEW P \in SUBSET (DOMAIN s), NEW T,
           \A p \in P : s[p] \in T
    PROVE  At(s, P) \in Seq(T) /\ DOMAIN At(s, P) = 1..Len(At(s, P)) /\ Len(At(s, P)) \in Nat
<1> DEFINE a == At(s, P)
<1>1. a \in Seq({s[p] : p \in P})
  BY AtKeeps
<1>2. {s[p] : p \in P} \subseteq T
  OBVIOUS
<1> HIDE DEF a
<1>3. a \in Seq(T)
  <2>1. Len(a) \in Nat /\ DOMAIN a = 1..Len(a) /\ \A n \in 1..Len(a) : a[n] \in {s[p] : p \in P}
    BY <1>1
  <2>2. a = [n \in 1..Len(a) |-> a[n]]
    BY <1>1
  <2> QED BY <1>2, <2>1, <2>2
<1> QED BY <1>3 DEF a

\* ... and if it has no repetitions then what is kept has none.
LEMMA AtInjective ==
    ASSUME NEW X, NEW s \in Seq(X), NEW P \in SUBSET (DOMAIN s),
           \A p, q \in P : s[p] = s[q] => p = q
    PROVE  IsInjective(At(s, P))
<1> DEFINE a == At(s, P)
<1>1. a \in Seq({s[p] : p \in P})
      /\ \A m, n \in DOMAIN a : m < n => \E p, q \in P : p < q /\ a[m] = s[p] /\ a[n] = s[q]
  BY AtKeeps
<1>2. P \subseteq Nat /\ DOMAIN a \subseteq Nat
  <2> HIDE DEF a
  <2> QED BY <1>1
<1> HIDE DEF a
<1>3. \A m, n \in DOMAIN a : m < n => a[m] # a[n]
  <2> SUFFICES ASSUME NEW m \in DOMAIN a, NEW n \in DOMAIN a, m < n PROVE a[m] # a[n]
    OBVIOUS
  <2>1. PICK p \in P, q \in P : p < q /\ a[m] = s[p] /\ a[n] = s[q]
    BY <1>1
  <2>2. p # q
    BY <1>2, <2>1
  <2> QED BY <2>1, <2>2
<1>4. \A m, n \in DOMAIN a : m # n => m < n \/ n < m
  BY <1>2
<1> QED BY <1>3, <1>4 DEF IsInjective, a

\* The members of s, N of them, come in t from these places: each from one, in the
\* order of key and place.
ComesFrom(t, s, N, key, place) ==
    /\ place \in [1..N -> 1..N]
    /\ t = [n \in 1..N |-> s[place[n]]]
    /\ \A k \in 1..N : \E n \in 1..N : place[n] = k
    /\ \A m, n \in 1..N : m < n <=> \/ key[place[m]] < key[place[n]]
                                    \/ key[place[m]] = key[place[n]] /\ place[m] < place[n]

\* A sorted list is the list in another order, and that order is by key and place.
LEMMA SortArranges ==
    ASSUME NEW X, NEW s \in Seq(X), NEW key, \A n \in DOMAIN s : key[n] \in Int
    PROVE  \E place : ComesFrom(StableSort(s, key), s, Len(s), key, place)
<1> DEFINE N == Len(s)
           D == DOMAIN s
           before == Earlier(s, key)
           r == Arranged(D, before)
<1>1. D = 1..N /\ N \in Nat
  OBVIOUS
<1>2. IsFiniteSet(D) /\ Cardinality(D) = N
  <2> HIDE DEF N, D
  <2>1. IsFiniteSet(1..N) /\ Cardinality(1..N) = N
    BY <1>1, FS_Interval
  <2> QED BY <1>1, <2>1
<1>3. \A m, n \in D : <<m, n>> \in before <=> key[m] < key[n] \/ (key[m] = key[n] /\ m < n)
  BY DEF Earlier
<1>4. StrictOrder(D, before)
  <2> HIDE DEF before
  <2>1. \A n \in D : n \in Int /\ key[n] \in Int
    BY <1>1
  <2> HIDE DEF D
  <2>2. \A x \in D : <<x, x>> \notin before
    BY <1>3, <2>1
  <2>3. \A x, y \in D : x # y => <<x, y>> \in before \/ <<y, x>> \in before
    BY <1>3, <2>1
  <2>4. \A x, y, z \in D : <<x, y>> \in before /\ <<y, z>> \in before => <<x, z>> \in before
    BY <1>3, <2>1
  <2> QED BY <2>2, <2>3, <2>4 DEF StrictOrder
<1>5. /\ r \in [1..N -> D]
      /\ \A x \in D : \E n \in 1..N : r[n] = x
      /\ \A m, n \in 1..N : <<r[m], r[n]>> \in before <=> m < n
  <2> HIDE DEF before, N, D
  <2> QED BY <1>2, <1>4, ArrangedInOrder
<1>6. StableSort(s, key) = [n \in 1..N |-> s[r[n]]]
  <2>1. StableSort(s, key) = [n \in DOMAIN r |-> s[r[n]]]
    BY DEF StableSort
  <2> HIDE DEF r, N
  <2> QED BY <1>5, <2>1
<1>7. \A m, n \in 1..N : m < n <=> \/ key[r[m]] < key[r[n]]
                                   \/ key[r[m]] = key[r[n]] /\ r[m] < r[n]
  <2> HIDE DEF r, N, D, before
  <2> QED BY <1>3, <1>5
<1> HIDE DEF r, N, D, before
<1>8. r \in [1..N -> 1..N] /\ \A k \in 1..N : \E n \in 1..N : r[n] = k
  BY <1>1, <1>5
<1>9. ComesFrom(StableSort(s, key), s, N, key, r)
  BY <1>6, <1>7, <1>8 DEF ComesFrom
<1> QED BY <1>9 DEF N

\* The same members, as often as before.
LEMMA SortKeeps ==
    ASSUME NEW X, NEW s \in Seq(X), NEW key, \A n \in DOMAIN s : key[n] \in Int
    PROVE  LET t == StableSort(s, key)
           IN  /\ t \in Seq(X) /\ Len(t) = Len(s) /\ DOMAIN t = 1..Len(s)
               /\ Range(t) = Range(s)
               /\ IsInjective(s) => IsInjective(t)
<1> DEFINE N == Len(s)
           t == StableSort(s, key)
<1>1. N \in Nat /\ DOMAIN s = 1..N /\ \A n \in 1..N : s[n] \in X
  OBVIOUS
<1>0. PICK place : ComesFrom(t, s, N, key, place)
  BY SortArranges
<1> HIDE DEF t, N
<1>2. /\ place \in [1..N -> 1..N] /\ t = [n \in 1..N |-> s[place[n]]]
      /\ \A k \in 1..N : \E n \in 1..N : place[n] = k
      /\ \A m, n \in 1..N : m < n <=> \/ key[place[m]] < key[place[n]]
                                      \/ key[place[m]] = key[place[n]] /\ place[m] < place[n]
  BY <1>0 DEF ComesFrom
<1>3. t \in Seq(X) /\ Len(t) = N /\ DOMAIN t = 1..N
  <2>1. t \in [1..N -> X]
    BY <1>1, <1>2
  <2> QED BY <1>1, <2>1
<1>4. Range(t) = Range(s)
  BY <1>1, <1>2 DEF Range
<1>5. ASSUME NEW m \in 1..N, NEW n \in 1..N, place[m] = place[n] PROVE m = n
  <2>1. place[n] \in Int /\ key[place[n]] \in Int
    BY <1>1, <1>2
  <2>2. m < n => key[place[m]] < key[place[n]] \/ place[m] < place[n]
    BY <1>2
  <2>3. n < m => key[place[n]] < key[place[m]] \/ place[n] < place[m]
    BY <1>2
  <2>4. ~ (m < n) /\ ~ (n < m)
    BY <1>5, <2>1, <2>2, <2>3
  <2> QED BY <1>1, <2>4
<1>6. IsInjective(s) => IsInjective(t)
  BY <1>1, <1>2, <1>3, <1>5 DEF IsInjective
<1> QED BY <1>3, <1>4, <1>6 DEF t, N

\* The beginning of a list.
LEMMA FirstKeeps ==
    ASSUME NEW X, NEW s \in Seq(X), NEW k \in Nat
    PROVE  LET f == FirstOf(s, k)
           IN  /\ f \in Seq(X) /\ Len(f) <= k /\ Len(f) <= Len(s)
               /\ \A n \in 1..Len(f) : f[n] = s[n]
               /\ k > 0 /\ s # <<>> => f # <<>>
<1> DEFINE m == Min({k, Len(s)})
<1>1. m \in {k, Len(s)} /\ m <= k /\ m <= Len(s)
  <2>1. \E x \in {k, Len(s)} : \A y \in {k, Len(s)} : x <= y
    OBVIOUS
  <2> QED BY <2>1 DEF Min
<1> HIDE DEF m
<1>2. SubSeq(s, 1, m) \in Seq(X) /\ Len(SubSeq(s, 1, m)) = m
      /\ \A n \in 1..m : SubSeq(s, 1, m)[n] = s[n]
  BY <1>1
<1>3. FirstOf(s, k) = SubSeq(s, 1, m)
  BY DEF FirstOf, m
<1> QED BY <1>1, <1>2, <1>3

----------------------------------------------------------------------------
(* What is saved *)

\* Two lists in one are empty if both are.
LEMMA BothEmpty ==
    ASSUME NEW X, NEW s \in Seq(X), NEW t \in Seq(X)
    PROVE  s \o t = <<>> <=> s = <<>> /\ t = <<>>
<1>1. Len(s \o t) = Len(s) + Len(t) /\ s \o t \in Seq(X) /\ Len(s) \in Nat /\ Len(t) \in Nat
  OBVIOUS
<1> QED BY <1>1

\* Of the cards only their number matters for the text, and there are cards if there is
\* evidence.
LEMMA CardsShown ==
    ASSUME NEW i, NEW p, NEW r, r = Report(i, p)
    PROVE  /\ Shown(r.core.cards \o r.core.matrix) = IF Evidence = {} THEN "fallback" ELSE "text"
           /\ Shown(Saved(r).core.cards \o Saved(r).core.matrix) = IF Evidence = {} THEN "fallback" ELSE "text"
<1> DEFINE N == Len(EvidenceList)
           all(f) == f = <<>> <=> Evidence = {}
<1>1. N \in Nat /\ DOMAIN EvidenceList = 1..N /\ (N = 0 <=> Evidence = {})
  <2>1. EvidenceList \in Seq(Evidence) /\ Range(EvidenceList) = Evidence
    BY ReportAssumption DEF ReportAssumption
  <2>2. N \in Nat /\ DOMAIN EvidenceList = 1..N
    BY <2>1
  <2> HIDE DEF N
  <2>3. Evidence = {EvidenceList[n] : n \in 1..N}
    BY <2>1, <2>2 DEF Range
  <2> QED BY <2>2, <2>3
<1>2. /\ r.core.cards = [n \in DOMAIN EvidenceList |-> Card(EvidenceList[n], i.chain)]
      /\ r.core.matrix = [n \in DOMAIN EvidenceList |->
                            [evidence |-> EvidenceList[n], risk |-> Risk(EvidenceList[n])]]
  BY DEF Report, Core, Cards, BattleMatrix
<1>3. /\ Saved(r).core.cards = [n \in DOMAIN r.core.cards |-> SavedCard(r.core.cards[n])]
      /\ Saved(r).core.matrix = r.core.matrix
  BY DEF Saved, Report, Core
<1> DEFINE c == r.core.cards
           d == Saved(r).core.cards
           m == r.core.matrix
<1> HIDE DEF N, c, d, m
<1>4. c \in Seq(Range(c)) /\ m \in Seq(Range(m)) /\ d \in Seq(Range(d))
      /\ Len(c) = N /\ Len(m) = N /\ Len(d) = N
  <2>1. DOMAIN c = 1..N /\ c = [n \in 1..N |-> c[n]]
    BY <1>1, <1>2 DEF c
  <2>2. DOMAIN m = 1..N /\ m = [n \in 1..N |-> m[n]]
    BY <1>1, <1>2 DEF m
  <2>3. DOMAIN d = 1..N /\ d = [n \in 1..N |-> d[n]]
    BY <1>1, <1>3, <2>1 DEF d, c
  <2> QED BY <1>1, <2>1, <2>2, <2>3 DEF Range
<1>5. c \o m = <<>> <=> N = 0
  <2>1. c \in Seq(Range(c) \cup Range(m)) /\ m \in Seq(Range(c) \cup Range(m))
    BY <1>4
  <2>2. c \o m = <<>> <=> c = <<>> /\ m = <<>>
    BY <2>1, BothEmpty
  <2> QED BY <1>1, <1>4, <2>2
<1>6. d \o m = <<>> <=> N = 0
  <2>1. d \in Seq(Range(d) \cup Range(m)) /\ m \in Seq(Range(d) \cup Range(m))
    BY <1>4
  <2>2. d \o m = <<>> <=> d = <<>> /\ m = <<>>
    BY <2>1, BothEmpty
  <2> QED BY <1>1, <1>4, <2>2
<1> QED BY <1>1, <1>3, <1>5, <1>6 DEF Shown, c, d, m

\* A report that is read back has the same text, but for the fields of key cards, and is
\* refused if the report was.
LEMMA SavedText ==
    ASSUME NEW i, NEW p, NEW r, r = Report(i, p)
    PROVE  /\ Text(Saved(r)).sections = Text(r).sections
           /\ Refused(Saved(r)) <=> Refused(r)
<1> DEFINE s == Saved(r)
<1>1. /\ s.cover = r.cover /\ s.outputs = r.outputs /\ s.appendix = r.appendix
      /\ s.core.facts = r.core.facts /\ s.core.issues = r.core.issues
  BY DEF Saved, Report, Core
<1>2. Shown(s.core.cards \o s.core.matrix) = Shown(r.core.cards \o r.core.matrix)
  BY CardsShown
<1> HIDE DEF s
<1>3. CoverParts(s) = CoverParts(r) /\ CoreParts(s) = CoreParts(r)
      /\ OutputParts(s) = OutputParts(r) /\ AppendixParts(s) = AppendixParts(r)
  BY <1>1, <1>2 DEF CoverParts, CoreParts, OutputParts, AppendixParts
<1>4. Rendered(s).sections = Rendered(r).sections /\ Rendered(s).flaws = Rendered(r).flaws
  BY <1>1, <1>3 DEF Rendered
<1> DEFINE F(t) == [n \in DOMAIN t.sections |->
                      IF t.sections[n].body = "empty"
                      THEN [t.sections[n] EXCEPT !.body = "fallback"] ELSE t.sections[n]]
<1>5. ASSUME NEW q
      PROVE  /\ Text(q).sections = Renumbered(F(Rendered(q)))
             /\ Text(q).flaws = (Rendered(q).flaws \ {"known_id"}) \ {"ragged"}
  BY DEF Text, Fixed, Humanized, Filled, Rendered
<1>6. F(Rendered(s)) = F(Rendered(r))
  BY <1>4
<1> HIDE DEF F
<1>7. Text(s).sections = Text(r).sections /\ Text(s).flaws = Text(r).flaws
  BY <1>4, <1>5, <1>6
<1>8. LintErrors(Text(s)) = LintErrors(Text(r)) /\ (TooHollow(Text(s)) <=> TooHollow(Text(r)))
  BY <1>7 DEF LintErrors, TooHollow, TableMismatch, DuplicateHeadings, Placeholders
<1> QED BY <1>7, <1>8 DEF s, Refused

----------------------------------------------------------------------------
(* Similar cases and drafts *)

\* Whatever the LLM answers, similar cases are cases of the index.
LEMMA CandidatesKnown ==
    ASSUME NEW k \in DOMAIN Match
    PROVE  Candidates(k) \in Seq(Range(CourtCases))
<1> DEFINE hits == At(CourtCases, {n \in DOMAIN CourtCases : Match[k][CourtCases[n]] > 0})
           key == [n \in DOMAIN hits |-> -Match[k][hits[n]]]
<1>1. CourtCases \in Seq(Range(CourtCases)) /\ Match[k] \in [Range(CourtCases) -> Nat]
  BY ExtrasAssumption DEF ExtrasAssumption
<1>2. hits \in Seq(Range(CourtCases))
  <2> DEFINE P == {n \in DOMAIN CourtCases : Match[k][CourtCases[n]] > 0}
  <2>1. P \in SUBSET (DOMAIN CourtCases) /\ \A n \in P : CourtCases[n] \in Range(CourtCases)
    BY DEF Range
  <2> HIDE DEF P
  <2>2. At(CourtCases, P) \in Seq(Range(CourtCases))
    BY <1>1, <2>1, AtTyped
  <2> QED BY <2>2 DEF P
<1> HIDE DEF hits
<1>3. \A n \in DOMAIN hits : key[n] \in Int
  <2>1. \A n \in DOMAIN hits : hits[n] \in Range(CourtCases)
    BY <1>2
  <2> QED BY <1>1, <2>1
<1> HIDE DEF key
<1>4. StableSort(hits, key) \in Seq(Range(CourtCases))
  BY <1>2, <1>3, SortKeeps
<1>5. Candidates(k) = FirstOf(StableSort(hits, key), 20)
  BY DEF Candidates, hits, key
<1> QED BY <1>4, <1>5, FirstKeeps

\* What is ranked was a candidate, so it is in the index.
LEMMA RankedKnown ==
    ASSUME NEW ranking \in Ranking,
           NEW candidates \in Seq(Range(CourtCases))
    PROVE  Range(RankedCases(ranking, candidates)) \subseteq Range(CourtCases)
<1> DEFINE kept == Kept(ranking, candidates)
           KnownItem == [number : Range(CourtCases), overall : Int]
           key == [n \in DOMAIN kept |-> -kept[n].overall]
           sorted == StableSort(kept, key)
           numbers == [n \in DOMAIN sorted |-> sorted[n].number]
<1>1. kept \in Seq(KnownItem)
  <2> DEFINE P == {n \in DOMAIN ranking.items : ranking.items[n].number \in Range(candidates)}
  <2>1. ranking.items \in Seq(RankItem) /\ P \in SUBSET (DOMAIN ranking.items)
    BY DEF Ranking
  <2>2. Range(candidates) \subseteq Range(CourtCases)
    BY DEF Range
  <2>3. \A n \in P : ranking.items[n] \in KnownItem
    <3> SUFFICES ASSUME NEW n \in P PROVE ranking.items[n] \in KnownItem
      OBVIOUS
    <3>1. ranking.items[n] \in RankItem /\ ranking.items[n].number \in Range(CourtCases)
      BY <2>1, <2>2
    <3> QED BY <3>1 DEF RankItem
  <2> HIDE DEF P, KnownItem
  <2>4. At(ranking.items, P) \in Seq(KnownItem)
    BY <2>1, <2>3, AtTyped
  <2> QED BY <2>4 DEF Kept, P
<1> HIDE DEF kept
<1>2. \A n \in DOMAIN kept : key[n] \in Int
  <2>1. \A n \in DOMAIN kept : kept[n] \in KnownItem
    <3> HIDE DEF KnownItem
    <3> QED BY <1>1
  <2> QED BY <2>1
<1> HIDE DEF key
<1>3. sorted \in Seq(KnownItem)
  <2> HIDE DEF KnownItem
  <2> QED BY <1>1, <1>2, SortKeeps
<1> HIDE DEF sorted
<1>4. numbers \in Seq(Range(CourtCases))
  <2>1. Len(sorted) \in Nat /\ DOMAIN sorted = 1..Len(sorted)
        /\ \A n \in 1..Len(sorted) : sorted[n] \in KnownItem
    <3> HIDE DEF KnownItem
    <3> QED BY <1>3
  <2>2. numbers \in [1..Len(sorted) -> Range(CourtCases)]
    BY <2>1
  <2> QED BY <2>1, <2>2
<1> HIDE DEF numbers
<1>5. FirstOf(numbers, 10) \in Seq(Range(CourtCases))
  BY <1>4, FirstKeeps
<1>6. RankedCases(ranking, candidates) \in {FirstOf(numbers, 10), <<>>}
  BY DEF RankedCases, numbers, sorted, key, kept
<1> QED BY <1>5, <1>6 DEF Range

\* A search finds what is in the index, or nothing.
LEMMA SimilarKnown ==
    ASSUME NEW s \in SearchResults
    PROVE  Range(s) \subseteq Range(CourtCases)
<1>1. Range(<<>>) = {}
  BY DEF Range
<1>2. ASSUME NEW k \in KeywordAnswers, NEW r \in RankAnswers, s = SearchResult(k, r), s # <<>>
      PROVE  Range(s) \subseteq Range(CourtCases)
  <2>1. ObjectIn(k) \in Seq(Keywords) /\ ObjectIn(r) \in Seq(Ranking)
    BY ExtrasAssumption DEF ExtrasAssumption
  <2>2. /\ ObjectIn(k) # <<>> /\ ObjectIn(r) # <<>>
        /\ s = RankedCases(Head(ObjectIn(r)), Candidates(Head(ObjectIn(k)).about))
    BY <1>2 DEF SearchResult
  <2>3. Head(ObjectIn(k)) \in Keywords /\ Head(ObjectIn(r)) \in Ranking
    BY <2>1, <2>2
  <2>4. Head(ObjectIn(k)).about \in DOMAIN Match
    BY <2>3 DEF Keywords
  <2> QED BY <2>2, <2>3, <2>4, CandidatesKnown, RankedKnown
<1> QED BY <1>1, <1>2 DEF SearchResults

\* An opinion on the evidence has an item for everything that it cites.
Complete(draft) == Range(Head(draft).cites) \subseteq Range(Head(draft).opinions)

\* The completion adds an item for every citation that has none.
LEMMA CompletedIsComplete ==
    ASSUME NEW data \in DraftData
    PROVE  Complete(<<Completed(data)>>)
<1> DEFINE missing == {n \in DOMAIN data.cites : data.cites[n] \notin Range(data.opinions)}
           more == At(data.cites, missing)
           all == data.opinions \o more
<1>1. data.cites \in Seq(Cited) /\ data.opinions \in Seq(Cited)
  BY DEF DraftData
<1>2. Completed(data).cites = data.cites /\ Completed(data).opinions = all
  BY DEF Completed, DraftData
<1>3. missing \in SUBSET (DOMAIN data.cites)
  OBVIOUS
<1>4. \A n \in missing : \E m \in DOMAIN more : more[m] = data.cites[n]
  <2> HIDE DEF missing
  <2> QED BY <1>1, <1>3, AtKeeps
<1>5. more \in Seq(Cited)
  <2>1. \A n \in missing : data.cites[n] \in Cited
    BY <1>1
  <2> HIDE DEF missing
  <2> QED BY <1>1, <1>3, <2>1, AtTyped
<1> HIDE DEF more
<1>6. Range(data.opinions) \subseteq Range(all) /\ Range(more) \subseteq Range(all)
  <2>1. \A n \in DOMAIN data.opinions : n \in DOMAIN all /\ all[n] = data.opinions[n]
    BY <1>1, <1>5
  <2>2. \A n \in DOMAIN more : Len(data.opinions) + n \in DOMAIN all
                               /\ all[Len(data.opinions) + n] = more[n]
    BY <1>1, <1>5
  <2> HIDE DEF all
  <2> QED BY <2>1, <2>2 DEF Range
<1> HIDE DEF all
<1>7. Range(data.cites) \subseteq Range(all)
  <2> SUFFICES ASSUME NEW n \in DOMAIN data.cites PROVE data.cites[n] \in Range(all)
    BY DEF Range
  <2>1. CASE n \in missing
    <3>1. PICK m \in DOMAIN more : more[m] = data.cites[n]
      BY <1>4, <2>1
    <3> QED BY <1>6, <3>1 DEF Range
  <2>2. CASE n \notin missing
    BY <1>6, <2>2
  <2> QED BY <2>1, <2>2
<1> QED BY <1>2, <1>7 DEF Complete

\* A drafted opinion, from an answer or empty, has an item for all that it cites.
LEMMA OpinionComplete ==
    ASSUME NEW any \in BOOLEAN, NEW draft \in DraftResults("cross_exam", any), draft # NoDraft
    PROVE  Complete(draft)
<1>1. CASE draft = EmptyOpinion
  BY <1>1 DEF Complete, EmptyOpinion, Range
<1>2. ASSUME NEW text \in DraftAnswers, draft = Draft("cross_exam", text)
      PROVE  Complete(draft)
  <2>1. ObjectIn(text) \in Seq(DraftData)
    BY ExtrasAssumption DEF ExtrasAssumption
  <2>2. ObjectIn(text) # <<>> /\ draft = <<Completed(Head(ObjectIn(text)))>>
    BY <1>2 DEF Draft, NoDraft
  <2>3. Head(ObjectIn(text)) \in DraftData
    BY <2>1, <2>2
  <2> QED BY <2>2, <2>3, CompletedIsComplete
<1> QED BY <1>1, <1>2 DEF DraftResults

----------------------------------------------------------------------------
(* The files *)

\* The reports that a process may have written for this input.
Accepted == {r \in {Report(input, p) : p \in Reportable} : ~Refused(r)}

\* What the process is doing, by the checkpoint that it began with or has saved since.
Writing == {"build", "json", "outputs"}
Later == {"rebuild", "rebuild word", "search", "word", "alias", "docx", "copy", "drafts", "done"}

StageSound ==
    /\ input \in Inputs /\ perspective \in Perspectives
    /\ stage \in Writing \cup Later \cup {"none", "raised"}
    /\ stage \in Writing => ckpt = "debate"
    /\ stage \in Later => ckpt # "debate"

\* Only a process that has not saved a step yet raises, for its perspective or for a
\* report that is refused.
RaisedSound ==
    stage = "raised" =>
        /\ ckpt = "debate"
        /\ perspective = "judge" \/ (perspective \in Reportable /\ Refused(Report(input, perspective)))

\* The report of the process.
ReportSound ==
    /\ stage \in {"json", "outputs"} => report \in Accepted /\ md = Text(report)
    /\ stage = "json" => perspective \in Reportable /\ report = Report(input, perspective)
    /\ stage = "outputs" => json = Saved(report)

\* The saved report is one of those that were accepted, and the Markdown is its text, but
\* for the writes that a process died in.
SavedSound ==
    /\ ckpt # "debate" => \E r \in Accepted : json = Saved(r)
    /\ ckpt # "debate" => md = Torn \/ (Whole(md) /\ md.sections = Text(json).sections)
    /\ stage \in Later \ {"rebuild"} => Whole(md)

\* The Word reports are made of it.
WordSound ==
    /\ ckpt = "debate" => word = NoFile /\ alias = NoFile
    /\ \A file \in {word, alias} :
          Whole(file) => file \in {WordDocument(json, s) : s \in SearchResults}
    /\ similar \in SearchResults

DraftsSound ==
    /\ drafted \in 0..Len(DocTypes)
    /\ drafts = [type \in Range(DocTypes) |-> drafts[type]]
    /\ Whole(drafts["cross_exam"]) => Complete(drafts["cross_exam"])

FilesInv ==
    StageSound /\ RaisedSound /\ ReportSound /\ SavedSound /\ WordSound /\ DraftsSound

----------------------------------------------------------------------------
\* What is written is a file, and so is what is saved of it.
LEMMA AcceptedWritten ==
    ASSUME input \in Inputs, NEW r \in Accepted
    PROVE  /\ Whole(Text(r)) /\ Whole(Saved(r)) /\ Whole(Text(Saved(r)))
           /\ ~Refused(r) /\ ~Refused(Saved(r))
           /\ Text(Saved(r)).sections = Text(r).sections
<1>1. PICK p \in Reportable : r = Report(input, p) /\ ~Refused(r)
  BY DEF Accepted
<1>2. {Saved(r), Text(r), Text(Saved(r))} \cap {NoFile, Torn} = {}
  BY <1>1, CaseReportAssumption DEF CaseReportAssumption
<1>3. Text(Saved(r)).sections = Text(r).sections /\ (Refused(Saved(r)) <=> Refused(r))
  BY <1>1, SavedText
<1> QED BY <1>1, <1>2, <1>3 DEF Whole

\* The three types of draft.
LEMMA TypesOfDrafts ==
    /\ Len(DocTypes) = 3 /\ Range(DocTypes) = {"pleading", "defense", "cross_exam"}
    /\ \A n \in 1..3 : DocTypes[n] \in Range(DocTypes)
<1>1. Len(DocTypes) = 3 /\ DOMAIN DocTypes = 1..3
      /\ DocTypes[1] = "pleading" /\ DocTypes[2] = "defense" /\ DocTypes[3] = "cross_exam"
  BY DEF DocTypes
<1>2. \A n \in 1..3 : n = 1 \/ n = 2 \/ n = 3
  OBVIOUS
<1>3. 1 \in 1..3 /\ 2 \in 1..3 /\ 3 \in 1..3
  OBVIOUS
<1>4. Range(DocTypes) = {DocTypes[n] : n \in 1..3}
  BY <1>1 DEF Range
<1> HIDE DEF DocTypes
<1> QED BY <1>1, <1>2, <1>3, <1>4

\* Neither a missing nor a torn file is whole.
LEMMA NotWhole == ~Whole(NoFile) /\ ~Whole(Torn)
BY DEF Whole

\* A search may find nothing.
LEMMA NoSearch == <<>> \in SearchResults
BY DEF SearchResults

\* The invariant holds at the beginning.
LEMMA InitFiles == Init => FilesInv
<1> SUFFICES ASSUME Init PROVE FilesInv
  OBVIOUS
<1> USE DEF Init
<1>1. StageSound
  BY DEF StageSound, Writing, Later, Perspectives
<1>2. RaisedSound /\ ReportSound
  BY DEF RaisedSound, ReportSound
<1>3. SavedSound
  BY DEF SavedSound, Later
<1>4. WordSound
  BY NotWhole DEF WordSound, SearchResults
<1>5. DraftsSound
  BY NotWhole, TypesOfDrafts DEF DraftsSound
<1> QED BY <1>1, <1>2, <1>3, <1>4, <1>5 DEF FilesInv

\* A new process changes no file.
LEMMA BeginFiles ==
    ASSUME FilesInv, NEW p \in Perspectives, Begin(p)
    PROVE  FilesInv'
<1> USE DEF FilesInv, Begin
<1>1. StageSound'
  BY DEF StageSound, Writing, Later
<1>2. RaisedSound' /\ ReportSound'
  BY DEF RaisedSound, ReportSound
<1>3. SavedSound'
  BY DEF SavedSound, Later, Accepted
<1>4. WordSound'
  BY DEF WordSound, SearchResults
<1>5. DraftsSound'
  BY TypesOfDrafts DEF DraftsSound
<1> QED BY <1>1, <1>2, <1>3, <1>4, <1>5

\* What is written is the text of an accepted report.
LEMMA WriteReportFiles ==
    ASSUME FilesInv, WriteReport
    PROVE  FilesInv'
<1> USE DEF FilesInv, WriteReport
<1>0. /\ stage' \in {"raised", "json"} /\ ckpt' = ckpt /\ ckpt = "debate" /\ input' = input
      /\ perspective' = perspective /\ input \in Inputs /\ perspective \in Perspectives
  BY DEF StageSound, Writing
<1>1. StageSound'
  BY <1>0 DEF StageSound, Writing, Later
<1>2. RaisedSound'
  BY <1>0 DEF RaisedSound, Reportable
<1>3. ReportSound'
  <2> SUFFICES ASSUME stage' = "json" PROVE ReportSound'
    BY <1>0 DEF ReportSound
  <2>1. /\ perspective \in Reportable /\ report' = Report(input, perspective)
        /\ ~Refused(report') /\ md' = Text(report')
    OBVIOUS
  <2>2. report' \in Accepted'
    BY <1>0, <2>1 DEF Accepted
  <2> QED BY <1>0, <2>1, <2>2 DEF ReportSound
<1>4. SavedSound'
  BY <1>0 DEF SavedSound, Later
<1>5. WordSound' /\ DraftsSound'
  BY <1>0 DEF WordSound, DraftsSound
<1> QED BY <1>1, <1>2, <1>3, <1>4, <1>5

\* The saved report is the one that was accepted.
LEMMA WriteJsonFiles ==
    ASSUME FilesInv, WriteJson
    PROVE  FilesInv'
<1> USE DEF FilesInv, WriteJson
<1>1. StageSound' /\ ckpt = "debate"
  BY DEF StageSound, Writing, Later
<1>2. RaisedSound'
  BY DEF RaisedSound
<1>3. ReportSound'
  BY DEF ReportSound, Accepted
<1>4. SavedSound'
  BY <1>1 DEF SavedSound, Later
<1>5. WordSound'
  BY <1>1, NotWhole DEF WordSound
<1>6. DraftsSound'
  BY DEF DraftsSound
<1> QED BY <1>1, <1>2, <1>3, <1>4, <1>5, <1>6

\* The checkpoint comes after both files.
LEMMA SaveOutputsFiles ==
    ASSUME FilesInv, SaveOutputs
    PROVE  FilesInv'
<1> USE DEF FilesInv, SaveOutputs
<1>1. StageSound'
  BY DEF StageSound, Writing, Later
<1>2. RaisedSound' /\ ReportSound'
  BY DEF RaisedSound, ReportSound
<1>3. SavedSound'
  <2>1. report \in Accepted /\ md = Text(report) /\ json = Saved(report) /\ input \in Inputs
    BY DEF ReportSound, StageSound
  <2>2. Whole(md) /\ md.sections = Text(json).sections
    BY <2>1, AcceptedWritten
  <2> QED BY <2>1, <2>2 DEF SavedSound, Accepted, Whole
<1>4. WordSound'
  BY DEF WordSound, StageSound, Writing
<1>5. DraftsSound'
  BY DEF DraftsSound
<1> QED BY <1>1, <1>2, <1>3, <1>4, <1>5

\* A process that resumes finds a saved report, which is not refused.
LEMMA RebuildReportFiles ==
    ASSUME FilesInv, RebuildReport
    PROVE  FilesInv'
<1> USE DEF FilesInv, RebuildReport
<1>0. /\ ckpt # "debate" /\ ckpt' = ckpt /\ input' = input /\ input \in Inputs
      /\ perspective' = perspective /\ perspective \in Perspectives
  BY DEF StageSound, Later
<1>1. PICK r \in Accepted : json = Saved(r)
  BY <1>0 DEF SavedSound
<1>2. Whole(json) /\ ~Refused(json) /\ Whole(Text(json))
  BY <1>0, <1>1, AcceptedWritten
<1>3. stage' = "rebuild word" /\ md' = Text(json)
  BY <1>2 DEF Whole
<1>4. StageSound'
  BY <1>0, <1>3 DEF StageSound, Writing, Later
<1>5. RaisedSound' /\ ReportSound'
  BY <1>3 DEF RaisedSound, ReportSound
<1>6. SavedSound'
  BY <1>0, <1>1, <1>2, <1>3 DEF SavedSound, Accepted, Whole
<1>7. WordSound' /\ DraftsSound'
  BY <1>0 DEF WordSound, DraftsSound
<1> QED BY <1>4, <1>5, <1>6, <1>7

\* The Word report of a resume has no similar cases.
LEMMA RebuildWordFiles ==
    ASSUME FilesInv, RebuildWord
    PROVE  FilesInv'
<1> USE DEF FilesInv, RebuildWord
<1>1. StageSound' /\ ckpt # "debate"
  BY DEF StageSound, Writing, Later
<1>2. RaisedSound' /\ ReportSound'
  BY DEF RaisedSound, ReportSound
<1>3. SavedSound'
  BY DEF SavedSound, Accepted, Whole, Later
<1>4. WordSound'
  <2>1. <<>> \in SearchResults
    BY NoSearch
  <2>2. word' = word \/ word' = WordDocument(json, <<>>)
    OBVIOUS
  <2> QED BY <1>1, <2>1, <2>2 DEF WordSound, Whole
<1>5. DraftsSound'
  BY DEF DraftsSound
<1> QED BY <1>1, <1>2, <1>3, <1>4, <1>5

\* A search leaves the files alone.
LEMMA SearchFiles ==
    ASSUME FilesInv, Search
    PROVE  FilesInv'
<1> USE DEF FilesInv, Search
<1>1. StageSound' /\ ckpt # "debate" /\ stage' \in {"word", "copy"}
  BY DEF StageSound, Writing, Later
<1>2. RaisedSound' /\ ReportSound'
  BY <1>1 DEF RaisedSound, ReportSound
<1>3. SavedSound'
  BY <1>1 DEF SavedSound, Accepted, Whole, Later
<1>4. WordSound'
  BY DEF WordSound, Whole
<1>5. DraftsSound'
  BY DEF DraftsSound
<1> QED BY <1>1, <1>2, <1>3, <1>4, <1>5

\* The Word report is made of the saved report and of what the search found.
LEMMA WriteWordFiles ==
    ASSUME FilesInv, WriteWord
    PROVE  FilesInv'
<1> USE DEF FilesInv, WriteWord
<1>1. StageSound' /\ ckpt # "debate" /\ stage' \in {"alias", "docx"}
  BY DEF StageSound, Writing, Later
<1>2. RaisedSound' /\ ReportSound'
  BY <1>1 DEF RaisedSound, ReportSound
<1>3. SavedSound'
  BY <1>1 DEF SavedSound, Accepted, Whole, Later
<1>4. WordSound'
  <2>1. word' = word \/ word' = WordDocument(json, similar)
    OBVIOUS
  <2> QED BY <1>1, <2>1 DEF WordSound, Whole
<1>5. DraftsSound'
  BY DEF DraftsSound
<1> QED BY <1>1, <1>2, <1>3, <1>4, <1>5

\* The two copies, and the two checkpoints after them.
LEMMA CopyAndSaveFiles ==
    ASSUME FilesInv, CopyWord \/ CopyMissing \/ SaveDocx \/ SaveDocuments
    PROVE  FilesInv'
<1> USE DEF FilesInv, CopyWord, CopyMissing, SaveDocx, SaveDocuments
<1>1. StageSound' /\ ckpt # "debate" /\ ckpt' # "debate" /\ stage' \in {"docx", "drafts", "done"}
  BY DEF StageSound, Writing, Later
<1>2. RaisedSound' /\ ReportSound'
  BY <1>1 DEF RaisedSound, ReportSound
<1>3. SavedSound'
  BY <1>1 DEF SavedSound, Accepted, Whole, Later
<1>4. WordSound'
  BY <1>1 DEF WordSound, Whole
<1>5. DraftsSound'
  BY DEF DraftsSound
<1> QED BY <1>1, <1>2, <1>3, <1>4, <1>5

\* A draft is complete, or its file is what it was.
LEMMA WriteDraftFiles ==
    ASSUME FilesInv, WriteDraft
    PROVE  FilesInv'
<1> USE DEF FilesInv
<1>0. UNCHANGED <<input, perspective, stage, report, similar, md, json, word, alias, ckpt, runs>>
  BY DEF WriteDraft
<1>1. StageSound'
  BY <1>0 DEF StageSound
<1>2. RaisedSound' /\ ReportSound'
  BY <1>0 DEF RaisedSound, ReportSound, Accepted
<1>3. SavedSound'
  BY <1>0 DEF SavedSound, Accepted, Whole
<1>4. WordSound'
  BY <1>0 DEF WordSound, Whole
<1>5. DraftsSound'
  <2> DEFINE type == DocTypes[drafted + 1]
  <2>1. drafted \in 0..3 /\ drafted < 3 /\ drafted' = drafted + 1 /\ Len(DocTypes) = 3
    BY TypesOfDrafts DEF DraftsSound, WriteDraft
  <2>2. drafted' \in 0..3 /\ type \in Range(DocTypes)
    BY <2>1, TypesOfDrafts
  <2>3. PICK draft \in DraftResults(type, Evidence # {}) :
              drafts' = IF draft = NoDraft THEN drafts ELSE [drafts EXCEPT ![type] = draft]
    BY DEF WriteDraft
  <2>4. drafts = [t \in Range(DocTypes) |-> drafts[t]]
    BY DEF DraftsSound
  <2> HIDE DEF type
  <2>5. drafts' = [t \in Range(DocTypes) |-> drafts'[t]]
    BY <2>2, <2>3, <2>4
  <2>6. ASSUME Whole(drafts'["cross_exam"]) PROVE Complete(drafts'["cross_exam"])
    <3>1. CASE drafts'["cross_exam"] = drafts["cross_exam"]
      BY <2>6, <3>1 DEF DraftsSound, Whole
    <3>2. CASE drafts'["cross_exam"] # drafts["cross_exam"]
      <4>1. draft # NoDraft /\ type = "cross_exam" /\ drafts'["cross_exam"] = draft
        BY <2>2, <2>3, <2>4, <3>2, TypesOfDrafts
      <4>2. (Evidence # {}) \in BOOLEAN
        OBVIOUS
      <4>3. draft \in DraftResults("cross_exam", Evidence # {})
        BY <2>3, <4>1
      <4> QED BY <4>1, <4>2, <4>3, OpinionComplete
    <3> QED BY <3>1, <3>2
  <2> QED BY <2>1, <2>2, <2>5, <2>6 DEF DraftsSound, Complete, Whole
<1> QED BY <1>1, <1>2, <1>3, <1>4, <1>5

\* A death tears no file but the one that is being written.
LEMMA CrashFiles ==
    ASSUME FilesInv, Crash
    PROVE  FilesInv'
<1> USE DEF FilesInv
<1>0. /\ stage' = "none" /\ similar' = <<>> /\ drafted' = 0
      /\ UNCHANGED <<input, perspective, ckpt, runs>>
  BY DEF Crash
<1>1. StageSound'
  BY <1>0 DEF StageSound, Writing, Later
<1>2. RaisedSound' /\ ReportSound'
  BY <1>0 DEF RaisedSound, ReportSound
<1>3. SavedSound'
  <2>1. ckpt # "debate" => json' = json
    BY DEF Crash, StageSound, Writing
  <2>2. md' = md \/ md' = Torn
    BY DEF Crash
  <2> QED BY <1>0, <2>1, <2>2 DEF SavedSound, Accepted, Whole, Later
<1>4. WordSound'
  <2>1. ckpt = "debate" => word' = word /\ alias' = alias
    BY DEF Crash, StageSound, Later
  <2>2. ckpt # "debate" => json' = json
    BY DEF Crash, StageSound, Writing
  <2>3. (word' = word \/ word' = Torn) /\ (alias' = alias \/ alias' = Torn)
    BY DEF Crash
  <2>4. <<>> \in SearchResults
    BY NoSearch
  <2> QED BY <1>0, <2>1, <2>2, <2>3, <2>4, NotWhole DEF WordSound, Whole
<1>5. DraftsSound'
  <2>1. drafts = [t \in Range(DocTypes) |-> drafts[t]] /\ drafted \in 0..3
    BY TypesOfDrafts DEF DraftsSound
  <2>2. CASE drafts' = drafts
    BY <1>0, <2>2, TypesOfDrafts DEF DraftsSound, Complete, Whole
  <2>3. CASE drafted < Len(DocTypes) /\ drafts' = [drafts EXCEPT ![DocTypes[drafted + 1]] = Torn]
    <3>1. DocTypes[drafted + 1] \in Range(DocTypes)
      BY <2>1, <2>3, TypesOfDrafts
    <3>2. drafts' = [t \in Range(DocTypes) |-> drafts'[t]]
      BY <2>1, <2>3, <3>1
    <3>3. drafts'["cross_exam"] = drafts["cross_exam"] \/ drafts'["cross_exam"] = Torn
      BY <2>1, <2>3, <3>1, TypesOfDrafts
    <3> QED BY <1>0, <3>2, <3>3, TypesOfDrafts, NotWhole DEF DraftsSound, Complete, Whole
  <2> QED BY <2>2, <2>3 DEF Crash
<1> QED BY <1>1, <1>2, <1>3, <1>4, <1>5

\* The invariant holds in every behaviour.
LEMMA AlwaysFiles == Spec => []FilesInv
<1>1. Init => FilesInv
  BY InitFiles
<1>2. FilesInv /\ [Next]_vars => FilesInv'
  <2> SUFFICES ASSUME FilesInv, [Next]_vars PROVE FilesInv'
    OBVIOUS
  <2>1. CASE UNCHANGED vars
    <3> USE DEF FilesInv, vars
    <3>1. StageSound' /\ RaisedSound' /\ ReportSound'
      BY <2>1 DEF StageSound, RaisedSound, ReportSound, Accepted
    <3>2. SavedSound' /\ WordSound' /\ DraftsSound'
      BY <2>1 DEF SavedSound, WordSound, DraftsSound, Accepted, Complete, Whole
    <3> QED BY <3>1, <3>2
  <2>2. CASE Next
    BY <2>2, BeginFiles, WriteReportFiles, WriteJsonFiles, SaveOutputsFiles, RebuildReportFiles,
       RebuildWordFiles, SearchFiles, WriteWordFiles, CopyAndSaveFiles, WriteDraftFiles, CrashFiles
       DEF Next
  <2> QED BY <2>1, <2>2
<1> QED BY <1>1, <1>2, PTL DEF Spec

\* Wherever processes die and resume, the files agree with the checkpoint and each other.
THEOREM FilesAgreeHolds == Spec => []FilesAgree
<1>1. FilesInv => FilesAgree
  <2> SUFFICES ASSUME FilesInv PROVE FilesAgree
    OBVIOUS
  <2> USE DEF FilesInv
  <2>1. ASSUME ckpt # "debate"
        PROVE  Whole(json) /\ ~Refused(json) /\ (md # Torn => md.sections = Text(json).sections)
    <3>1. PICK r \in Accepted : json = Saved(r)
      BY <2>1 DEF SavedSound
    <3>2. input \in Inputs
      BY DEF StageSound
    <3> QED BY <2>1, <3>1, <3>2, AcceptedWritten DEF SavedSound
  <2>2. \A file \in {word, alias} :
            Whole(file) => file \in {WordDocument(json, s) : s \in SearchResults}
    BY DEF WordSound
  <2>3. stage = "done" => Whole(md)
    BY DEF SavedSound, Later
  <2>4. Range(similar) \subseteq Range(CourtCases)
    BY SimilarKnown DEF WordSound
  <2>5. Whole(drafts["cross_exam"]) => Complete(drafts["cross_exam"])
    BY DEF DraftsSound
  <2> QED BY <2>1, <2>2, <2>3, <2>4, <2>5 DEF FilesAgree, Complete
<1> QED BY <1>1, AlwaysFiles, PTL

----------------------------------------------------------------------------
(* The timeline *)

\* What is found is an event with its source.
Entry == [event : Event, source : {"case"} \cup Evidence, disputed : BOOLEAN]

\* Events with their source are as many as the events.
LEMMA SourcedTyped ==
    ASSUME NEW events \in Seq(Event), NEW source \in {"case"} \cup Evidence, NEW disputed \in BOOLEAN
    PROVE  /\ Sourced(events, source, disputed) \in Seq(Entry)
           /\ Len(Sourced(events, source, disputed)) = Len(events)
<1> DEFINE s == Sourced(events, source, disputed)
<1>1. Len(events) \in Nat /\ DOMAIN events = 1..Len(events) /\ \A n \in 1..Len(events) : events[n] \in Event
  OBVIOUS
<1>2. s = [n \in 1..Len(events) |-> [event |-> events[n], source |-> source, disputed |-> disputed]]
  BY <1>1 DEF Sourced
<1>3. s \in [1..Len(events) -> Entry]
  <2> SUFFICES ASSUME NEW n \in 1..Len(events)
               PROVE  [event |-> events[n], source |-> source, disputed |-> disputed] \in Entry
    BY <1>2
  <2>1. events[n] \in Event
    BY <1>1
  <2> HIDE DEF s
  <2> QED BY <2>1 DEF Entry
<1> HIDE DEF s
<1> QED BY <1>1, <1>3 DEF s

\* The order of two loops, one in the other.
LEMMA NestedOrders ==
    ASSUME NEW places \in SUBSET (Nat \X Nat)
    PROVE  StrictOrder(places, Nested(places))
<1> DEFINE before(x, y) == x[1] < y[1] \/ (x[1] = y[1] /\ x[2] < y[2])
<1>1. \A x, y \in places : <<x, y>> \in Nested(places) <=> before(x, y)
  BY DEF Nested
<1>2. \A x \in places : x[1] \in Nat /\ x[2] \in Nat /\ x = <<x[1], x[2]>>
  OBVIOUS
<1>3. \A x \in places : ~before(x, x)
  BY <1>2
<1>4. \A x, y \in places : x # y => before(x, y) \/ before(y, x)
  BY <1>2
<1>5. \A x, y, z \in places : before(x, y) /\ before(y, z) => before(x, z)
  BY <1>2
<1> HIDE DEF before
<1> QED BY <1>1, <1>3, <1>4, <1>5 DEF StrictOrder

\* What is found for the timeline has the events of the case and more.
LEMMA FoundTyped ==
    ASSUME NEW case, IsCase(case)
    PROVE  Found(case) \in Seq(Entry) /\ Len(Found(case)) >= Len(case.events)
<1> DEFINE in(n) == {n} \X DOMAIN Mentions[EvidenceList[n]]
           groups == {in(n) : n \in DOMAIN EvidenceList}
           places == UNION groups
           mentioned == Arranged(places, Nested(places))
           mention(n, e) == Sourced(Mentions[e], e, e \in Challenged)[n]
           first == Sourced(case.events, "case", FALSE)
           second == [n \in DOMAIN mentioned |-> mention(mentioned[n][2], EvidenceList[mentioned[n][1]])]
<1>1. EvidenceList \in Seq(Evidence) /\ Mentions \in [Evidence -> Seq(Event)]
  BY ReportAssumption DEF ReportAssumption
<1>2. Len(EvidenceList) \in Nat /\ DOMAIN EvidenceList = 1..Len(EvidenceList)
      /\ \A n \in DOMAIN EvidenceList : EvidenceList[n] \in Evidence
  BY <1>1
<1>3. ASSUME NEW n \in DOMAIN EvidenceList
      PROVE  IsFiniteSet(in(n)) /\ in(n) \in SUBSET (Nat \X Nat)
  <2> DEFINE s == Mentions[EvidenceList[n]]
  <2>1. s \in Seq(Event)
    BY <1>1, <1>2
  <2> HIDE DEF s
  <2>2. DOMAIN s = 1..Len(s) /\ Len(s) \in Nat
    BY <2>1
  <2>3. IsFiniteSet(DOMAIN s) /\ IsFiniteSet({n})
    <3>1. IsFiniteSet(1..Len(s))
      BY <2>2, FS_Interval
    <3> QED BY <2>2, <3>1, FS_Singleton
  <2>4. IsFiniteSet({n} \X DOMAIN s)
    BY <2>3, FS_Product
  <2>5. {n} \X DOMAIN s \in SUBSET (Nat \X Nat)
    BY <1>2, <2>2
  <2> QED BY <2>4, <2>5 DEF s
<1>4. IsFiniteSet(groups)
  <2> DEFINE f == [n \in DOMAIN EvidenceList |-> in(n)]
  <2>1. f \in Surjection(DOMAIN EvidenceList, groups)
    BY DEF Surjection
  <2>2. IsFiniteSet(DOMAIN EvidenceList)
    BY <1>2, FS_Interval
  <2> HIDE DEF f, groups
  <2> QED BY <2>1, <2>2, FS_Surjection
<1>5. IsFiniteSet(places) /\ places \in SUBSET (Nat \X Nat)
  <2>1. \A T \in groups : IsFiniteSet(T) /\ T \in SUBSET (Nat \X Nat)
    <3> HIDE DEF in
    <3> QED BY <1>3
  <2> HIDE DEF groups
  <2> QED BY <1>4, <2>1, FS_UNION
<1>6. \A x \in places : x[1] \in DOMAIN EvidenceList /\ x[2] \in DOMAIN Mentions[EvidenceList[x[1]]]
  OBVIOUS
<1> HIDE DEF places
<1> DEFINE N == Cardinality(places)
<1>7. N \in Nat /\ mentioned \in [1..N -> places]
  BY <1>5, NestedOrders, ArrangedInOrder
<1> HIDE DEF N, mentioned
<1>8. first \in Seq(Entry) /\ Len(first) = Len(case.events)
  <2>1. case.events \in Seq(Event)
    BY DEF IsCase
  <2> QED BY <2>1, SourcedTyped
<1>9. second \in Seq(Entry)
  <2>1. ASSUME NEW n \in 1..N
        PROVE  mention(mentioned[n][2], EvidenceList[mentioned[n][1]]) \in Entry
    <3> DEFINE e == EvidenceList[mentioned[n][1]]
               k == mentioned[n][2]
               s == Sourced(Mentions[e], e, e \in Challenged)
    <3>1. e \in Evidence /\ k \in DOMAIN Mentions[e]
      BY <1>2, <1>6, <1>7
    <3>2. Mentions[e] \in Seq(Event) /\ (e \in Challenged) \in BOOLEAN
      BY <1>1, <3>1
    <3> HIDE DEF e, k
    <3>3. s \in Seq(Entry) /\ Len(s) = Len(Mentions[e])
      BY <3>1, <3>2, SourcedTyped
    <3> HIDE DEF s
    <3>4. k \in DOMAIN s
      BY <3>1, <3>2, <3>3
    <3>5. s[k] \in Entry
      BY <3>3, <3>4
    <3> QED BY <3>5 DEF s, e, k
  <2> HIDE DEF mention, Entry
  <2>2. second \in [1..N -> Entry]
    BY <1>7, <2>1
  <2> QED BY <1>7, <2>2
<1>10. Found(case) = first \o second
  BY DEF Found, first, second, mention, mentioned, places, groups, in
<1> HIDE DEF first, second, Entry
<1>11. first \o second \in Seq(Entry) /\ Len(first \o second) = Len(first) + Len(second)
       /\ Len(first) \in Nat /\ Len(second) \in Nat
  BY <1>8, <1>9
<1> QED BY <1>8, <1>10, <1>11

\* Sorting by date keeps all.
LEMMA ByDateKeeps ==
    ASSUME NEW s \in Seq(Entry)
    PROVE  ByDate(s) \in Seq(Entry) /\ Len(ByDate(s)) = Len(s)
<1> DEFINE key == [n \in DOMAIN s |-> s[n].event.date]
<1>1. \A n \in DOMAIN s : key[n] \in Int
  <2> SUFFICES ASSUME NEW n \in DOMAIN s PROVE s[n].event.date \in Int
    OBVIOUS
  <2>1. s[n] \in Entry
    <3> HIDE DEF Entry
    <3> QED OBVIOUS
  <2> QED BY <2>1 DEF Entry, Event
<1> HIDE DEF key
<1>2. StableSort(s, key) \in Seq(Entry) /\ Len(StableSort(s, key)) = Len(s)
  BY <1>1, SortKeeps
<1> QED BY <1>2 DEF ByDate, key

\* A case with events has a timeline.
LEMMA TimelineShown ==
    ASSUME NEW case, IsCase(case), case.events # <<>>
    PROVE  Timeline(case) # <<>>
<1> DEFINE found == Found(case)
           firsts == {n \in DOMAIN found : \A m \in 1..n - 1 : found[m].event # found[n].event}
           unique == At(found, firsts)
           more == Sourced(case.milestones, "case", FALSE)
<1>1. found \in Seq(Entry) /\ Len(found) >= Len(case.events)
  BY FoundTyped
<1>2. case.events \in Seq(Event) /\ case.milestones \in Seq(Event)
  BY DEF IsCase
<1>3. Len(case.events) >= 1 /\ Len(case.events) \in Nat
  BY <1>2
<1> HIDE DEF found
<1>4. firsts \in SUBSET (DOMAIN found) /\ 1 \in firsts
  <2>1. 1 \in DOMAIN found /\ 1..1 - 1 = {}
    BY <1>1, <1>3
  <2> QED BY <2>1
<1>5. \A p \in firsts : found[p] \in Entry
  <2> HIDE DEF Entry
  <2> QED BY <1>1
<1> HIDE DEF firsts
<1>6. unique \in Seq(Entry) /\ \E n \in DOMAIN unique : unique[n] = found[1]
  <2>1. unique \in Seq(Entry)
    BY <1>1, <1>4, <1>5, AtTyped
  <2>2. \A p \in firsts : \E n \in DOMAIN unique : unique[n] = found[p]
    BY <1>1, <1>4, AtKeeps
  <2> QED BY <1>4, <2>1, <2>2
<1> HIDE DEF unique
<1>7. Len(unique) \in Nat /\ Len(unique) >= 1
  <2> HIDE DEF Entry
  <2> QED BY <1>6
<1>8. ByDate(unique) \in Seq(Entry) /\ Len(ByDate(unique)) = Len(unique)
  BY <1>6, ByDateKeeps
<1>9. more \in Seq(Entry)
  BY <1>2, SourcedTyped
<1> HIDE DEF more
<1>10. ByDate(unique) \o more \in Seq(Entry)
       /\ Len(ByDate(unique) \o more) = Len(unique) + Len(more) /\ Len(more) \in Nat
  <2> HIDE DEF Entry
  <2> QED BY <1>8, <1>9
<1>11. Len(ByDate(ByDate(unique) \o more)) = Len(unique) + Len(more)
  BY <1>10, ByDateKeeps
<1>12. Len(Timeline(case)) \in {Len(unique), Len(unique) + Len(more)}
  BY <1>8, <1>11 DEF Timeline, unique, firsts, found, more
<1> QED BY <1>7, <1>10, <1>12

----------------------------------------------------------------------------
(* The text of a report that can be repaired *)

\* Sections whose titles have no number, and those of them without text.
Sectioned(s) ==
    /\ s \in Seq(Range(s))
    /\ \A n \in DOMAIN s : /\ s[n] = [title |-> s[n].title, body |-> s[n].body]
                           /\ s[n].title = <<Head(s[n].title)>>
                           /\ s[n].body \in {"text", "fallback", "empty"}

Hollow(s) == {n \in DOMAIN s : s[n].body # "text"}

\* There are no more empty sections in two parts than in either.
LEMMA SectionsJoined ==
    ASSUME NEW s, NEW t, Sectioned(s), Sectioned(t), NEW a \in Nat, NEW b \in Nat,
           IsFiniteSet(Hollow(s)), IsFiniteSet(Hollow(t)),
           Cardinality(Hollow(s)) <= a, Cardinality(Hollow(t)) <= b
    PROVE  LET j == s \o t
           IN  /\ Sectioned(j) /\ Len(j) = Len(s) + Len(t)
               /\ IsFiniteSet(Hollow(j)) /\ Cardinality(Hollow(j)) <= a + b
<1> DEFINE j == s \o t
           k == Len(s)
           X == Range(s) \cup Range(t)
<1>1. s \in Seq(X) /\ t \in Seq(X)
  <2>1. s \in Seq(Range(s)) /\ t \in Seq(Range(t))
    BY DEF Sectioned
  <2> QED BY <2>1
<1>2. k \in Nat /\ Len(t) \in Nat /\ DOMAIN s = 1..k /\ DOMAIN t = 1..Len(t)
  BY <1>1
<1>3. j \in Seq(X) /\ Len(j) = k + Len(t) /\ DOMAIN j = 1..(k + Len(t))
  BY <1>1
<1>4. (\A n \in 1..k : j[n] = s[n]) /\ (\A n \in 1..Len(t) : j[k + n] = t[n])
  BY <1>1
<1> HIDE DEF j, k
<1>5. \A n \in DOMAIN j : n \in DOMAIN s \/ \E m \in DOMAIN t : n = k + m
  <2> SUFFICES ASSUME NEW n \in DOMAIN j, n \notin 1..k PROVE \E m \in 1..Len(t) : n = k + m
    BY <1>2
  <2>1. n - k \in 1..Len(t) /\ n = k + (n - k)
    BY <1>2, <1>3
  <2> QED BY <2>1
<1>6. Sectioned(j)
  <2>1. ASSUME NEW n \in DOMAIN j
        PROVE  /\ j[n] = [title |-> j[n].title, body |-> j[n].body]
               /\ j[n].title = <<Head(j[n].title)>>
               /\ j[n].body \in {"text", "fallback", "empty"}
    <3>1. CASE n \in DOMAIN s
      <4>1. j[n] = s[n]
        BY <1>2, <1>4, <3>1
      <4> QED BY <3>1, <4>1 DEF Sectioned
    <3>2. CASE \E m \in DOMAIN t : n = k + m
      <4>1. PICK m \in DOMAIN t : n = k + m
        BY <3>2
      <4>2. j[n] = t[m]
        BY <1>2, <1>4, <4>1
      <4> QED BY <4>1, <4>2 DEF Sectioned
    <3> QED BY <1>5, <3>1, <3>2
  <2>2. j \in Seq(Range(j))
    <3>1. j = [n \in 1..Len(j) |-> j[n]] /\ Len(j) \in Nat /\ DOMAIN j = 1..Len(j)
      BY <1>2, <1>3
    <3> QED BY <3>1 DEF Range
  <2> QED BY <2>1, <2>2 DEF Sectioned
<1> DEFINE moved == {k + m : m \in Hollow(t)}
           f == [m \in Hollow(t) |-> k + m]
<1>7. IsFiniteSet(moved) /\ Cardinality(moved) <= Cardinality(Hollow(t))
  <2>1. f \in Surjection(Hollow(t), moved)
    BY DEF Surjection
  <2> HIDE DEF f, moved
  <2> QED BY <2>1, FS_Surjection
<1>8. Hollow(j) \subseteq Hollow(s) \cup moved
  <2> SUFFICES ASSUME NEW n \in Hollow(j) PROVE n \in Hollow(s) \cup moved
    OBVIOUS
  <2>1. n \in DOMAIN j /\ j[n].body # "text"
    BY DEF Hollow
  <2>2. CASE n \in DOMAIN s
    <3>1. j[n] = s[n]
      BY <1>2, <1>4, <2>2
    <3> QED BY <2>1, <2>2, <3>1 DEF Hollow
  <2>3. CASE \E m \in DOMAIN t : n = k + m
    <3>1. PICK m \in DOMAIN t : n = k + m
      BY <2>3
    <3>2. j[n] = t[m]
      BY <1>2, <1>4, <3>1
    <3>3. m \in Hollow(t)
      BY <2>1, <3>1, <3>2 DEF Hollow
    <3> QED BY <3>1, <3>3
  <2> QED BY <1>5, <2>1, <2>2, <2>3
<1> HIDE DEF moved
<1>9. IsFiniteSet(Hollow(j)) /\ Cardinality(Hollow(j)) <= a + b
  <2> DEFINE U == Hollow(s) \cup moved
             c == Hollow(s) \cap moved
  <2>1. IsFiniteSet(U) /\ Cardinality(U) = Cardinality(Hollow(s)) + Cardinality(moved) - Cardinality(c)
    BY <1>7, FS_Union
  <2>2. IsFiniteSet(c)
    BY FS_Intersection
  <2>3. Cardinality(c) \in Nat /\ Cardinality(Hollow(s)) \in Nat /\ Cardinality(moved) \in Nat
        /\ Cardinality(Hollow(t)) \in Nat
    BY <1>7, <2>2, FS_CardinalityType
  <2> HIDE DEF U, c
  <2>4. Hollow(j) \in SUBSET U
    BY <1>8 DEF U
  <2>5. IsFiniteSet(Hollow(j)) /\ Cardinality(Hollow(j)) <= Cardinality(U)
    BY <2>1, <2>4, FS_Subset
  <2>6. Cardinality(Hollow(j)) \in Nat
    BY <2>5, FS_CardinalityType
  <2> QED BY <1>7, <2>1, <2>3, <2>5, <2>6
<1> QED BY <1>3, <1>6, <1>9 DEF j, k

\* Sections that all have text.
LEMMA NoneHollow ==
    ASSUME NEW s, \A n \in DOMAIN s : s[n].body = "text"
    PROVE  IsFiniteSet(Hollow(s)) /\ Cardinality(Hollow(s)) <= 0
<1>1. Hollow(s) = {}
  BY DEF Hollow
<1> QED BY <1>1, FS_EmptySet

\* A part of which only the first section may be hollow has one such section at most.
LEMMA AtMostOneHollow ==
    ASSUME NEW s, Hollow(s) \subseteq {1}
    PROVE  IsFiniteSet(Hollow(s)) /\ Cardinality(Hollow(s)) <= 1
<1>1. IsFiniteSet({1}) /\ Cardinality({1}) = 1
  BY FS_Singleton
<1>2. Hollow(s) \in SUBSET {1}
  OBVIOUS
<1> QED BY <1>1, <1>2, FS_Subset

\* The report's own sections.
Titles == {"A", "B", "C", "D", "E", "2.1", "2.2", "2.3", "2.4", "plaintiff", "defendant",
           "4.1", "4.2", "4.3", "4.5"}
OwnPart == {Part(title, body) : title \in Titles, body \in {"text", "fallback", "empty"}}

\* Parts with the report's own titles are sections.
LEMMA OwnSections ==
    ASSUME NEW s \in Seq(OwnPart)
    PROVE  Sectioned(s)
<1>1. Len(s) \in Nat /\ DOMAIN s = 1..Len(s) /\ \A n \in 1..Len(s) : s[n] \in OwnPart
  OBVIOUS
<1>2. s \in Seq(Range(s))
  <2>1. s = [n \in 1..Len(s) |-> s[n]]
    OBVIOUS
  <2> QED BY <1>1, <2>1 DEF Range
<1>3. ASSUME NEW x \in OwnPart
      PROVE  /\ x = [title |-> x.title, body |-> x.body] /\ x.title = <<Head(x.title)>>
             /\ x.body \in {"text", "fallback", "empty"}
  <2>1. PICK title \in Titles, body \in {"text", "fallback", "empty"} : x = Part(title, body)
    BY DEF OwnPart
  <2>2. x = [title |-> <<title>>, body |-> body]
    BY <2>1 DEF Part
  <2>3. Head(<<title>>) = title
    OBVIOUS
  <2> QED BY <2>2, <2>3
<1> QED BY <1>1, <1>2, <1>3 DEF Sectioned

\* A part with such a title.
LEMMA OwnPartMade ==
    ASSUME NEW title \in Titles, NEW body \in {"text", "fallback", "empty"}
    PROVE  Part(title, body) \in OwnPart /\ Part(title, body).body = body
BY DEF OwnPart, Part

\* Lists that are written out.
LEMMA FiveListed ==
    ASSUME NEW X, NEW a \in X, NEW b \in X, NEW c \in X, NEW d \in X, NEW e \in X
    PROVE  /\ <<a, b, c, d, e>> \in Seq(X) /\ Len(<<a, b, c, d, e>>) = 5
           /\ \A n \in DOMAIN <<a, b, c, d, e>> : <<a, b, c, d, e>>[n] \in {a, b, c, d, e}
OBVIOUS

\* Four of them, of which the first is apart.
LEMMA FourListed ==
    ASSUME NEW X, NEW a \in X, NEW b \in X, NEW c \in X, NEW d \in X
    PROVE  /\ <<a, b, c, d>> \in Seq(X) /\ Len(<<a, b, c, d>>) = 4
           /\ \A n \in DOMAIN <<a, b, c, d>> : n # 1 => <<a, b, c, d>>[n] \in {b, c, d}
OBVIOUS

\* Three of them.
LEMMA ThreeListed ==
    ASSUME NEW X, NEW a \in X, NEW b \in X, NEW c \in X
    PROVE  /\ <<a, b, c>> \in Seq(X) /\ Len(<<a, b, c>>) = 3
           /\ \A n \in DOMAIN <<a, b, c>> : <<a, b, c>>[n] \in {a, b, c}
OBVIOUS

\* One.
LEMMA OneListed ==
    ASSUME NEW X, NEW a \in X
    PROVE  /\ <<a>> \in Seq(X) /\ Len(<<a>>) = 1 /\ \A n \in DOMAIN <<a>> : <<a>>[n] = a
OBVIOUS

\* The parts of a report with evidence, issues and dates; its outputs are one or two.
LEMMA CoverSections ==
    ASSUME NEW i, IsCase(i.case), i.case.events # <<>>, NEW p, NEW r, r = Report(i, p)
    PROVE  /\ Sectioned(CoverParts(r)) /\ Len(CoverParts(r)) = 5
           /\ IsFiniteSet(Hollow(CoverParts(r))) /\ Cardinality(Hollow(CoverParts(r))) <= 0
<1>1. r.cover.timeline = Timeline(i.case)
  BY DEF Report, Cover
<1>2. Shown(r.cover.timeline) = "text"
  BY <1>1, TimelineShown DEF Shown
<1> DEFINE a == Part("A", "text")
           b == Part("B", "text")
           c == Part("C", "text")
           d == Part("D", "text")
           e == Part("E", "text")
           s == <<a, b, c, d, e>>
<1>3. CoverParts(r) = s
  BY <1>2 DEF CoverParts
<1>4. \A x \in {a, b, c, d, e} : x \in OwnPart /\ x.body = "text"
  BY OwnPartMade DEF Titles
<1> HIDE DEF a, b, c, d, e
<1>5. s \in Seq(OwnPart) /\ Len(s) = 5 /\ \A n \in DOMAIN s : s[n] \in {a, b, c, d, e}
  BY <1>4, FiveListed
<1> HIDE DEF s
<1>6. \A n \in DOMAIN s : s[n].body = "text"
  BY <1>4, <1>5
<1> QED BY <1>3, <1>5, <1>6, OwnSections, NoneHollow

\* The core has four sections; only the facts may be missing.
LEMMA CoreSections ==
    ASSUME NEW i, NEW p, NEW r, r = Report(i, p), Evidence # {}, r.core.issues # <<>>
    PROVE  /\ Sectioned(CoreParts(r)) /\ Len(CoreParts(r)) = 4
           /\ IsFiniteSet(Hollow(CoreParts(r))) /\ Cardinality(Hollow(CoreParts(r))) <= 1
<1>1. Shown(r.core.cards \o r.core.matrix) = "text"
  BY CardsShown
<1> DEFINE a == Part("2.1", Shown(r.core.facts))
           b == Part("2.2", "text")
           c == Part("2.3", "text")
           d == Part("2.4", "text")
           s == <<a, b, c, d>>
<1>2. a \in OwnPart
  <2>1. Shown(r.core.facts) \in {"text", "fallback", "empty"}
    BY DEF Shown
  <2> QED BY <2>1, OwnPartMade DEF Titles
<1>3. CoreParts(r) = s
  BY <1>1 DEF CoreParts
<1>4. \A x \in {b, c, d} : x \in OwnPart /\ x.body = "text"
  BY OwnPartMade DEF Titles
<1> HIDE DEF a, b, c, d
<1>5. s \in Seq(OwnPart) /\ Len(s) = 4 /\ \A n \in DOMAIN s : n # 1 => s[n] \in {b, c, d}
  BY <1>2, <1>4, FourListed
<1> HIDE DEF s
<1>6. Hollow(s) \subseteq {1}
  BY <1>4, <1>5 DEF Hollow
<1> QED BY <1>3, <1>5, <1>6, OwnSections, AtMostOneHollow

\* Of the outputs only the first of two may be empty.
LEMMA OutputSections ==
    ASSUME NEW i, NEW p \in Reportable, NEW r, r = Report(i, p)
    PROVE  LET s == OutputParts(r)
           IN  /\ Sectioned(s) /\ Len(s) \in {1, 2}
               /\ IsFiniteSet(Hollow(s)) /\ Cardinality(Hollow(s)) <= Len(s) - 1
<1> DEFINE parties == OutputParties(p)
           k == Len(parties)
           body(n) == IF Blank(r.outputs[n]) /\ n < k THEN "empty" ELSE "text"
           s == [n \in 1..k |-> Part(parties[n], body(n))]
<1>1. k \in {1, 2} /\ parties \in Seq(Titles) /\ DOMAIN parties = 1..k
  <2>1. CASE p = "neutral"
    <3>1. parties = <<"plaintiff", "defendant">> /\ "plaintiff" \in Titles /\ "defendant" \in Titles
      BY <2>1 DEF OutputParties, Titles
    <3> QED BY <3>1
  <2>2. CASE p # "neutral"
    <3>1. parties = <<p>> /\ p \in Titles
      BY <2>2 DEF OutputParties, Reportable, Perspectives, Titles
    <3> QED BY <3>1
  <2> QED BY <2>1, <2>2
<1> HIDE DEF parties, k
<1>2. OutputParts(r) = s
  <2>1. r.outputs = [n \in DOMAIN parties |-> Output(parties[n], i, r.core.cards, r.core.scenario)]
    BY DEF Report, Core, Outputs, parties
  <2>2. DOMAIN r.outputs = 1..k /\ Len(r.outputs) = k
    <3>1. k \in Nat
      BY <1>1
    <3> QED BY <1>1, <2>1, <3>1
  <2>3. \A n \in 1..k : r.outputs[n].party = parties[n]
    BY <1>1, <2>1 DEF Output
  <2> QED BY <2>2, <2>3 DEF OutputParts
<1>3. s \in Seq(OwnPart) /\ Len(s) = k /\ DOMAIN s = 1..k
  <2>1. \A n \in 1..k : Part(parties[n], body(n)) \in OwnPart
    BY <1>1, OwnPartMade
  <2>2. s \in [1..k -> OwnPart] /\ k \in Nat
    BY <1>1, <2>1
  <2> QED BY <2>2
<1>4. \A n \in 1..k : s[n].body = body(n)
  <2> SUFFICES ASSUME NEW n \in 1..k PROVE Part(parties[n], body(n)).body = body(n)
    OBVIOUS
  <2>1. parties[n] \in Titles /\ body(n) \in {"text", "fallback", "empty"}
    BY <1>1
  <2> HIDE DEF body
  <2> QED BY <2>1, OwnPartMade
<1> HIDE DEF s
<1>5. Hollow(s) \subseteq {n \in 1..k : n < k}
  BY <1>3, <1>4 DEF Hollow
<1>6. IsFiniteSet(Hollow(s)) /\ Cardinality(Hollow(s)) <= k - 1
  <2>1. CASE k = 1
    <3>1. Hollow(s) = {}
      BY <1>5, <2>1
    <3> QED BY <2>1, <3>1, FS_EmptySet
  <2>2. CASE k = 2
    <3>1. Hollow(s) \subseteq {1}
      BY <1>5, <2>2
    <3> QED BY <2>2, <3>1, AtMostOneHollow
  <2> QED BY <1>1, <2>1, <2>2
<1> QED BY <1>1, <1>2, <1>3, <1>6, OwnSections

\* The sections of the agents in the appendix.
LEMMA AppendixSections ==
    ASSUME NEW i, IsCase(i.case), IsDebate(i.debate), i.case.events # <<>>,
           NEW p, NEW r, r = Report(i, p),
           \A n \in DOMAIN i.debate.headings :
               i.debate.headings[n].title = <<Head(i.debate.headings[n].title)>>
    PROVE  LET s == AppendixParts(r)
               empty == {n \in DOMAIN i.debate.headings : ~i.debate.headings[n].text}
           IN  /\ Sectioned(s) /\ Len(s) = Len(i.debate.headings) + 4
               /\ IsFiniteSet(empty) /\ Cardinality(empty) \in Nat /\ Len(i.debate.headings) \in Nat
               /\ IsFiniteSet(Hollow(s)) /\ Cardinality(Hollow(s)) <= Cardinality(empty)
<1> DEFINE h == i.debate.headings
           empty == {n \in DOMAIN h : ~h[n].text}
           a == Part("4.1", "text")
           b == Part("4.2", "text")
           c == Part("4.3", "text")
           d == Part("4.5", "text")
           first == <<a>>
           second == [n \in DOMAIN h |->
                        [title |-> h[n].title, body |-> IF h[n].text THEN "text" ELSE "empty"]]
           third == <<b, c, d>>
<1>1. h \in Seq(Range(h)) /\ \A n \in DOMAIN h : h[n].text \in BOOLEAN
  BY DEF IsDebate
<1>2. Len(h) \in Nat /\ DOMAIN h = 1..Len(h)
  BY <1>1
<1>3. AppendixParts(r) = (first \o second) \o third
  <2>1. r.cover.timeline = Timeline(i.case) /\ r.appendix.headings = h
    BY DEF Report, Cover, Appendix
  <2>2. Shown(r.cover.timeline) = "text"
    BY <2>1, TimelineShown DEF Shown
  <2> QED BY <2>1, <2>2 DEF AppendixParts
<1>20. \A x \in {a, b, c, d} : x \in OwnPart /\ x.body = "text"
  BY OwnPartMade DEF Titles
<1> HIDE DEF a, b, c, d
<1>4. first \in Seq(OwnPart) /\ Len(first) = 1 /\ \A n \in DOMAIN first : first[n].body = "text"
  BY <1>20, OneListed
<1>5. third \in Seq(OwnPart) /\ Len(third) = 3 /\ \A n \in DOMAIN third : third[n].body = "text"
  <2>1. third \in Seq(OwnPart) /\ Len(third) = 3 /\ \A n \in DOMAIN third : third[n] \in {b, c, d}
    BY <1>20, ThreeListed
  <2> HIDE DEF third
  <2> QED BY <1>20, <2>1
<1>6. \A n \in DOMAIN h : h[n].title = <<Head(h[n].title)>>
  OBVIOUS
<1> HIDE DEF h, first, third
<1>7. DOMAIN second = 1..Len(h) /\ Len(second) = Len(h)
  BY <1>2
<1>8. Sectioned(second)
  <2>1. ASSUME NEW n \in DOMAIN second
        PROVE  /\ second[n] = [title |-> second[n].title, body |-> second[n].body]
               /\ second[n].title = <<Head(second[n].title)>>
               /\ second[n].body \in {"text", "fallback", "empty"}
    BY <1>2, <1>6, <1>7
  <2>2. second = [n \in 1..Len(h) |-> second[n]]
    BY <1>2
  <2> HIDE DEF second
  <2>3. second \in Seq(Range(second))
    BY <1>2, <1>7, <2>2 DEF Range
  <2> QED BY <2>1, <2>3 DEF Sectioned
<1>9. Hollow(second) = empty
  BY <1>7, <1>2, <1>1 DEF Hollow
<1>10. IsFiniteSet(empty) /\ Cardinality(empty) \in Nat
  <2>1. IsFiniteSet(1..Len(h))
    BY <1>2, FS_Interval
  <2>2. empty \in SUBSET (1..Len(h))
    BY <1>2
  <2> HIDE DEF empty
  <2>3. IsFiniteSet(empty)
    BY <2>1, <2>2, FS_Subset
  <2> QED BY <2>3, FS_CardinalityType
<1> DEFINE N == Cardinality(empty)
<1> HIDE DEF second
<1>11. IsFiniteSet(Hollow(second)) /\ Cardinality(Hollow(second)) <= N /\ N \in Nat
  BY <1>9, <1>10
<1> HIDE DEF N, empty
<1>12. LET j == first \o second
       IN  /\ Sectioned(j) /\ Len(j) = 1 + Len(h)
           /\ IsFiniteSet(Hollow(j)) /\ Cardinality(Hollow(j)) <= 0 + N
  <2>1. Sectioned(first) /\ IsFiniteSet(Hollow(first)) /\ Cardinality(Hollow(first)) <= 0
    BY <1>4, OwnSections, NoneHollow
  <2>2. 0 \in Nat
    OBVIOUS
  <2> QED BY <1>4, <1>7, <1>8, <1>11, <2>1, <2>2, SectionsJoined
<1>13. LET j == (first \o second) \o third
       IN  /\ Sectioned(j) /\ Len(j) = 1 + Len(h) + 3
           /\ IsFiniteSet(Hollow(j)) /\ Cardinality(Hollow(j)) <= 0 + N + 0
  <2>1. Sectioned(third) /\ IsFiniteSet(Hollow(third)) /\ Cardinality(Hollow(third)) <= 0
    BY <1>5, OwnSections, NoneHollow
  <2>2. 0 \in Nat /\ 0 + N \in Nat
    BY <1>11
  <2> QED BY <1>5, <1>12, <2>1, <2>2, SectionsJoined
<1> DEFINE s == (first \o second) \o third
<1>14. Sectioned(s) /\ Len(s) = 1 + Len(h) + 3 /\ IsFiniteSet(Hollow(s)) /\ Cardinality(Hollow(s)) <= 0 + N + 0
  BY <1>13
<1> HIDE DEF s
<1>15. Len(s) = Len(h) + 4 /\ Cardinality(Hollow(s)) <= N
  <2>1. Cardinality(Hollow(s)) \in Nat
    BY <1>14, FS_CardinalityType
  <2> QED BY <1>2, <1>11, <1>14, <2>1
<1>16. AppendixParts(r) = s
  BY <1>3 DEF s
<1> QED BY <1>2, <1>10, <1>14, <1>15, <1>16 DEF N, empty, h

----------------------------------------------------------------------------
\* A number behind a title.
LEMMA AppendedToOne ==
    ASSUME NEW x, NEW y
    PROVE  Append(<<x>>, y) = <<x, y>>
<1> DEFINE a == Append(<<x>>, y)
           b == <<x, y>>
<1>1. <<x>> \in Seq({x, y})
  OBVIOUS
<1>2. a \in Seq({x, y}) /\ b \in Seq({x, y}) /\ Len(a) = 2 /\ Len(b) = 2
      /\ a[1] = b[1] /\ a[2] = b[2]
  BY <1>1
<1> HIDE DEF a, b
<1>3. \A n \in 1..2 : a[n] = b[n]
  <2>1. \A n \in 1..2 : n = 1 \/ n = 2
    OBVIOUS
  <2> QED BY <1>2, <2>1
<1>4. a = [n \in 1..2 |-> a[n]] /\ b = [n \in 1..2 |-> b[n]]
  BY <1>2
<1>5. [n \in 1..2 |-> a[n]] = [n \in 1..2 |-> b[n]]
  BY <1>3
<1> QED BY <1>4, <1>5 DEF a, b

\* If no title has a number, then no two titles are the same after the repair: of two
\* sections that had the same title the later one gets the higher number.
LEMMA RenumberedApart ==
    ASSUME NEW s, NEW N \in Nat, DOMAIN s = 1..N,
           \A n \in 1..N : /\ s[n].title = <<Head(s[n].title)>>
                           /\ s[n] = [title |-> s[n].title, body |-> s[n].body]
    PROVE  LET t == Renumbered(s)
           IN  /\ DOMAIN t = 1..N
               /\ \A n \in 1..N : t[n].body = s[n].body
               /\ \A m, n \in 1..N : t[m].title = t[n].title => m = n
<1> DEFINE t == Renumbered(s)
           Same(n) == {m \in 1..n : s[m].title = s[n].title}
           number(n) == Cardinality(Same(n))
<1>1. t = [n \in 1..N |-> IF Same(n) = {n} THEN s[n]
                          ELSE [s[n] EXCEPT !.title = Append(s[n].title, number(n))]]
  BY DEF Renumbered
<1>2. ASSUME NEW n \in 1..N
      PROVE  IsFiniteSet(Same(n)) /\ number(n) \in Nat
  <2>1. IsFiniteSet(1..n)
    <3>1. 1 \in Int /\ n \in Int
      OBVIOUS
    <3> QED BY <3>1, FS_Interval
  <2>2. Same(n) \in SUBSET (1..n)
    OBVIOUS
  <2> HIDE DEF Same
  <2>3. IsFiniteSet(Same(n))
    BY <2>1, <2>2, FS_Subset
  <2> QED BY <2>3, FS_CardinalityType
<1>3. ASSUME NEW m \in 1..N, NEW n \in 1..N, m < n, s[m].title = s[n].title
      PROVE  number(m) < number(n) /\ Same(n) # {n}
  <2>1. Same(m) \in SUBSET Same(n) /\ n \in Same(n) /\ n \notin Same(m) /\ m \in Same(n)
    BY <1>3
  <2>2. IsFiniteSet(Same(n)) /\ number(m) \in Nat /\ number(n) \in Nat
    BY <1>2
  <2> HIDE DEF Same
  <2>3. number(m) <= number(n) /\ number(m) # number(n)
    <3>1. Same(m) # Same(n)
      BY <2>1
    <3> QED BY <2>1, <2>2, <3>1, FS_Subset
  <2> HIDE DEF number
  <2> QED BY <1>3, <2>1, <2>2, <2>3
<1> HIDE DEF number, Same
<1>4. DOMAIN t = 1..N /\ \A n \in 1..N : t[n].body = s[n].body
  <2> SUFFICES ASSUME NEW n \in 1..N PROVE t[n].body = s[n].body
    BY <1>1
  <2>1. s[n] = [title |-> s[n].title, body |-> s[n].body]
    OBVIOUS
  <2>2. t[n] = s[n] \/ t[n] = [s[n] EXCEPT !.title = Append(s[n].title, number(n))]
    BY <1>1
  <2> HIDE DEF t
  <2> QED BY <2>1, <2>2
<1>5. ASSUME NEW n \in 1..N
      PROVE  \E x : /\ s[n].title = <<x>>
                    /\ \/ Same(n) = {n} /\ t[n].title = <<x>>
                       \/ Same(n) # {n} /\ t[n].title = <<x, number(n)>>
  <2>1. PICK x : s[n].title = <<x>>
    OBVIOUS
  <2>2. s[n] = [title |-> s[n].title, body |-> s[n].body]
    OBVIOUS
  <2>3. Append(<<x>>, number(n)) = <<x, number(n)>>
    BY AppendedToOne
  <2>4. t[n] = IF Same(n) = {n} THEN s[n]
               ELSE [s[n] EXCEPT !.title = Append(s[n].title, number(n))]
    BY <1>1
  <2> HIDE DEF t
  <2>5. CASE Same(n) = {n}
    BY <2>1, <2>4, <2>5
  <2>6. CASE Same(n) # {n}
    <3>1. t[n] = [s[n] EXCEPT !.title = <<x, number(n)>>]
      BY <2>1, <2>3, <2>4, <2>6
    <3>2. t[n].title = <<x, number(n)>>
      BY <2>2, <3>1
    <3> QED BY <2>1, <2>6, <3>2
  <2> QED BY <2>5, <2>6
<1> HIDE DEF t
<1>6. ASSUME NEW m \in 1..N, NEW n \in 1..N, m < n PROVE t[m].title # t[n].title
  <2> SUFFICES ASSUME t[m].title = t[n].title PROVE FALSE
    OBVIOUS
  <2>1. PICK x : /\ s[m].title = <<x>>
                 /\ \/ Same(m) = {m} /\ t[m].title = <<x>>
                    \/ Same(m) # {m} /\ t[m].title = <<x, number(m)>>
    BY <1>5
  <2>2. PICK y : /\ s[n].title = <<y>>
                 /\ \/ Same(n) = {n} /\ t[n].title = <<y>>
                    \/ Same(n) # {n} /\ t[n].title = <<y, number(n)>>
    BY <1>5
  <2>3. x = y
    BY <2>1, <2>2
  <2>4. number(m) < number(n) /\ Same(n) # {n}
    BY <1>3, <1>6, <2>1, <2>2, <2>3
  <2>5. number(m) \in Nat /\ number(n) \in Nat
    BY <1>2
  <2>6. t[n].title = <<y, number(n)>>
    BY <2>2, <2>4
  <2>7. CASE t[m].title = <<x>>
    BY <2>6, <2>7
  <2>8. CASE t[m].title = <<x, number(m)>>
    BY <2>4, <2>5, <2>6, <2>8
  <2> QED BY <2>1, <2>7, <2>8
<1>7. \A m, n \in 1..N : t[m].title = t[n].title => m = n
  <2> SUFFICES ASSUME NEW m \in 1..N, NEW n \in 1..N, m # n PROVE t[m].title # t[n].title
    OBVIOUS
  <2>1. m < n \/ n < m
    OBVIOUS
  <2> QED BY <1>6, <2>1
<1> QED BY <1>4, <1>7 DEF t

\* Such a report is written.
LEMMA RepairableAccepted ==
    ASSUME Repairable, input \in Inputs, NEW p \in Reportable,
           Report(input, p).core.issues # <<>>
    PROVE  ~Refused(Report(input, p))
<1> DEFINE r == Report(input, p)
           h == input.debate.headings
           empty == {n \in DOMAIN h : ~h[n].text}
           S == CoverParts(r) \o CoreParts(r) \o OutputParts(r) \o AppendixParts(r)
           e == Cardinality(empty)
           k == Len(OutputParts(r))
<1>1. /\ input.debate.flaws \subseteq {"known_id", "ragged"}
      /\ \A n \in DOMAIN h : h[n].title = <<Head(h[n].title)>>
      /\ 5 * e <= Len(h) + 5
      /\ Evidence # {} /\ input.case.events # <<>>
  BY DEF Repairable
<1>2. IsDebate(input.debate) /\ IsCase(input.case)
  BY CaseReportAssumption DEF CaseReportAssumption
<1>3. /\ Sectioned(CoverParts(r)) /\ Len(CoverParts(r)) = 5
      /\ IsFiniteSet(Hollow(CoverParts(r))) /\ Cardinality(Hollow(CoverParts(r))) <= 0
  BY <1>1, <1>2, CoverSections
<1>4. /\ Sectioned(CoreParts(r)) /\ Len(CoreParts(r)) = 4
      /\ IsFiniteSet(Hollow(CoreParts(r))) /\ Cardinality(Hollow(CoreParts(r))) <= 1
  BY <1>1, CoreSections
<1>5. /\ Sectioned(OutputParts(r)) /\ k \in {1, 2}
      /\ IsFiniteSet(Hollow(OutputParts(r))) /\ Cardinality(Hollow(OutputParts(r))) <= k - 1
  BY OutputSections
<1>6. /\ Sectioned(AppendixParts(r)) /\ Len(AppendixParts(r)) = Len(h) + 4
      /\ e \in Nat /\ Len(h) \in Nat
      /\ IsFiniteSet(Hollow(AppendixParts(r))) /\ Cardinality(Hollow(AppendixParts(r))) <= e
  BY <1>1, <1>2, AppendixSections
<1> HIDE DEF e, k, h
<1>7. Sectioned(S) /\ Len(S) = 13 + k + Len(h) /\ IsFiniteSet(Hollow(S)) /\ Cardinality(Hollow(S)) <= k + e
  <2> DEFINE s1 == CoverParts(r) \o CoreParts(r)
             s2 == s1 \o OutputParts(r)
             s3 == s2 \o AppendixParts(r)
  <2>1. Sectioned(s1) /\ Len(s1) = 9 /\ IsFiniteSet(Hollow(s1)) /\ Cardinality(Hollow(s1)) <= 0 + 1
    <3>1. 0 \in Nat /\ 1 \in Nat
      OBVIOUS
    <3>2. /\ Sectioned(s1) /\ Len(s1) = Len(CoverParts(r)) + Len(CoreParts(r))
          /\ IsFiniteSet(Hollow(s1)) /\ Cardinality(Hollow(s1)) <= 0 + 1
      <4> HIDE DEF r
      <4> QED BY <1>3, <1>4, <3>1, SectionsJoined
    <3> QED BY <1>3, <1>4, <3>2
  <2> HIDE DEF s1
  <2>2. Sectioned(s2) /\ Len(s2) = 9 + k /\ IsFiniteSet(Hollow(s2)) /\ Cardinality(Hollow(s2)) <= 1 + (k - 1)
    <3>1. 0 + 1 \in Nat /\ k - 1 \in Nat /\ 0 + 1 = 1
      BY <1>5
    <3>2. /\ Sectioned(s2) /\ Len(s2) = Len(s1) + Len(OutputParts(r))
          /\ IsFiniteSet(Hollow(s2)) /\ Cardinality(Hollow(s2)) <= 0 + 1 + (k - 1)
      <4> HIDE DEF r
      <4> QED BY <1>5, <2>1, <3>1, SectionsJoined
    <3> QED BY <2>1, <3>1, <3>2 DEF k
  <2> HIDE DEF s2
  <2>3. 1 + (k - 1) \in Nat
    BY <1>5
  <2>4. /\ Sectioned(s3) /\ Len(s3) = Len(s2) + Len(AppendixParts(r))
        /\ IsFiniteSet(Hollow(s3)) /\ Cardinality(Hollow(s3)) <= 1 + (k - 1) + e
    <3> HIDE DEF r
    <3> QED BY <1>6, <2>2, <2>3, SectionsJoined
  <2>5. IsFiniteSet(Hollow(s3)) /\ Cardinality(Hollow(s3)) \in Nat
    BY <2>4, FS_CardinalityType
  <2>6. S = s3
    BY DEF s1, s2
  <2> HIDE DEF s3, S, r
  <2> QED BY <1>5, <1>6, <2>2, <2>4, <2>5, <2>6
<1> DEFINE N == Len(S)
           F == [n \in DOMAIN S |-> IF S[n].body = "empty" THEN [S[n] EXCEPT !.body = "fallback"] ELSE S[n]]
           T == Text(r)
           Q == T.sections
<1>8. Q = Renumbered(F) /\ T.flaws = (r.appendix.flaws \ {"known_id"}) \ {"ragged"}
  <2>1. Rendered(r).sections = S /\ Rendered(r).flaws = r.appendix.flaws
    BY DEF Rendered
  <2> HIDE DEF S, r
  <2>2. Filled(Rendered(r)).sections = F /\ Filled(Rendered(r)).flaws = r.appendix.flaws
    BY <2>1 DEF Filled, Rendered
  <2> HIDE DEF F
  <2>3. Humanized(Filled(Rendered(r))).sections = F
        /\ Humanized(Filled(Rendered(r))).flaws = r.appendix.flaws \ {"known_id"}
    BY <2>2 DEF Humanized, Filled, Rendered
  <2> QED BY <2>3 DEF Text, Fixed, Humanized, Filled, Rendered
<1>9. T.flaws = {}
  <2>1. r.appendix.flaws = input.debate.flaws
    BY DEF Report, Appendix
  <2> HIDE DEF T, r
  <2> QED BY <1>1, <1>8, <2>1
<1> HIDE DEF S, T
<1>10. N \in Nat /\ DOMAIN S = 1..N
  <2>1. S \in Seq(Range(S))
    BY <1>7 DEF Sectioned
  <2> QED BY <2>1
<1>11. \A n \in 1..N : /\ S[n] = [title |-> S[n].title, body |-> S[n].body]
                       /\ S[n].title = <<Head(S[n].title)>>
                       /\ S[n].body \in {"text", "fallback", "empty"}
  BY <1>7, <1>10 DEF Sectioned
<1>12. /\ DOMAIN F = 1..N
       /\ \A n \in 1..N : /\ F[n] = [title |-> S[n].title, body |-> F[n].body]
                          /\ F[n].body \in {"text", "fallback"}
                          /\ F[n].body = "text" <=> S[n].body = "text"
  <2> SUFFICES ASSUME NEW n \in 1..N
               PROVE  /\ F[n] = [title |-> S[n].title, body |-> F[n].body]
                      /\ F[n].body \in {"text", "fallback"}
                      /\ F[n].body = "text" <=> S[n].body = "text"
    BY <1>10
  <2>1. F[n] = IF S[n].body = "empty" THEN [S[n] EXCEPT !.body = "fallback"] ELSE S[n]
    BY <1>10
  <2> HIDE DEF F
  <2>2. CASE S[n].body = "empty"
    <3>1. F[n] = [title |-> S[n].title, body |-> "fallback"]
      BY <1>11, <2>1, <2>2
    <3> QED BY <2>2, <3>1
  <2>3. CASE S[n].body # "empty"
    BY <1>11, <2>1, <2>3
  <2> QED BY <2>2, <2>3
<1> HIDE DEF F, N
<1>13. /\ DOMAIN Q = 1..N
       /\ \A n \in 1..N : Q[n].body = F[n].body
       /\ \A m, n \in 1..N : Q[m].title = Q[n].title => m = n
  <2>1. \A n \in 1..N : /\ F[n].title = <<Head(F[n].title)>>
                        /\ F[n] = [title |-> F[n].title, body |-> F[n].body]
    <3> SUFFICES ASSUME NEW n \in 1..N
                 PROVE  /\ F[n].title = <<Head(F[n].title)>>
                        /\ F[n] = [title |-> F[n].title, body |-> F[n].body]
      OBVIOUS
    <3>1. F[n] = [title |-> S[n].title, body |-> F[n].body] /\ S[n].title = <<Head(S[n].title)>>
      BY <1>11, <1>12
    <3>2. F[n].title = S[n].title
      BY <3>1
    <3> QED BY <3>1, <3>2
  <2> HIDE DEF Q
  <2> QED BY <1>8, <1>10, <1>12, <2>1, RenumberedApart
<1>14. LintErrors(T) = {}
  <2>1. ~ \E n \in DOMAIN T.sections : T.sections[n].body = "empty"
    BY <1>12, <1>13
  <2>2. ~DuplicateHeadings(T)
    BY <1>13 DEF DuplicateHeadings, IsInjective
  <2> QED BY <1>9, <2>1, <2>2 DEF LintErrors, TableMismatch
<1>15. ~TooHollow(T)
  <2>1. Placeholders(T) = Hollow(S)
    BY <1>10, <1>12, <1>13 DEF Placeholders, Hollow
  <2>2. Len(Q) = N
    <3> HIDE DEF Q
    <3> QED BY <1>10, <1>13
  <2>3. Cardinality(Hollow(S)) \in Nat
    BY <1>7, FS_CardinalityType
  <2>4. ~ (5 * Cardinality(Hollow(S)) > N)
    BY <1>1, <1>5, <1>6, <1>7, <2>3 DEF N
  <2> QED BY <2>1, <2>2, <2>4 DEF TooHollow
<1> QED BY <1>14, <1>15 DEF Refused, T

----------------------------------------------------------------------------
\* Two lists that have nothing in common, one after the other.
LEMMA JoinedApart ==
    ASSUME NEW X, NEW s \in Seq(X), NEW t \in Seq(X), IsInjective(s), IsInjective(t),
           Range(s) \cap Range(t) = {}
    PROVE  /\ s \o t \in Seq(X) /\ IsInjective(s \o t)
           /\ Range(s \o t) = Range(s) \cup Range(t)
           /\ \A n \in DOMAIN s : n \in DOMAIN (s \o t) /\ (s \o t)[n] = s[n]
<1> DEFINE j == s \o t
           a == Len(s)
           b == Len(t)
<1>1. a \in Nat /\ b \in Nat /\ DOMAIN s = 1..a /\ DOMAIN t = 1..b
  OBVIOUS
<1>2. j \in Seq(X) /\ Len(j) = a + b /\ DOMAIN j = 1..(a + b)
  OBVIOUS
<1>3. \A n \in 1..a : j[n] = s[n]
  OBVIOUS
<1>4. \A n \in 1..b : j[a + n] = t[n]
  OBVIOUS
<1> HIDE DEF j, a, b
<1>5. \A n \in DOMAIN j : n \in 1..a \/ \E k \in 1..b : n = a + k
  <2> SUFFICES ASSUME NEW n \in DOMAIN j, n \notin 1..a PROVE \E k \in 1..b : n = a + k
    OBVIOUS
  <2>1. n - a \in 1..b /\ n = a + (n - a)
    BY <1>1, <1>2
  <2> QED BY <2>1
<1>6. \A n \in 1..a : n \in DOMAIN j
  BY <1>1, <1>2
<1>7. \A n \in 1..b : a + n \in DOMAIN j
  BY <1>1, <1>2
<1>8. Range(j) = Range(s) \cup Range(t)
  <2>1. ASSUME NEW n \in DOMAIN j PROVE j[n] \in Range(s) \cup Range(t)
    <3>1. CASE n \in 1..a
      BY <1>1, <1>3, <3>1 DEF Range
    <3>2. CASE \E k \in 1..b : n = a + k
      BY <1>1, <1>4, <3>2 DEF Range
    <3> QED BY <1>5, <3>1, <3>2
  <2>2. \A n \in DOMAIN s : s[n] \in Range(j)
    BY <1>1, <1>3, <1>6 DEF Range
  <2>3. \A n \in DOMAIN t : t[n] \in Range(j)
    <3> SUFFICES ASSUME NEW n \in DOMAIN t PROVE t[n] \in Range(j)
      OBVIOUS
    <3>1. a + n \in DOMAIN j /\ j[a + n] = t[n]
      BY <1>1, <1>4, <1>7
    <3> QED BY <3>1 DEF Range
  <2> QED BY <2>1, <2>2, <2>3 DEF Range
<1>9. ASSUME NEW m \in DOMAIN j, NEW n \in DOMAIN j, j[m] = j[n] PROVE m = n
  <2>1. CASE m \in 1..a /\ n \in 1..a
    BY <1>1, <1>3, <1>9, <2>1 DEF IsInjective
  <2>2. CASE m \notin 1..a /\ n \notin 1..a
    <3>1. PICK k \in 1..b, l \in 1..b : m = a + k /\ n = a + l
      BY <1>5, <2>2
    <3> QED BY <1>1, <1>4, <1>9, <3>1 DEF IsInjective
  <2>3. CASE m \in 1..a /\ n \notin 1..a
    <3>1. PICK l \in 1..b : n = a + l
      BY <1>5, <2>3
    <3>2. j[m] \in Range(s) /\ j[n] \in Range(t)
      BY <1>1, <1>3, <1>4, <2>3, <3>1 DEF Range
    <3> QED BY <1>9, <3>2
  <2>4. CASE m \notin 1..a /\ n \in 1..a
    <3>1. PICK k \in 1..b : m = a + k
      BY <1>5, <2>4
    <3>2. j[n] \in Range(s) /\ j[m] \in Range(t)
      BY <1>1, <1>3, <1>4, <2>4, <3>1 DEF Range
    <3> QED BY <1>9, <3>2
  <2> QED BY <2>1, <2>2, <2>3, <2>4
<1>10. IsInjective(j)
  BY <1>9 DEF IsInjective
<1> QED BY <1>1, <1>2, <1>3, <1>6, <1>8, <1>10 DEF j

\* What At has of a list without repetitions.
LEMMA AtPart ==
    ASSUME NEW X, NEW s \in Seq(X), IsInjective(s), NEW P \in SUBSET (DOMAIN s)
    PROVE  /\ At(s, P) \in Seq(X) /\ IsInjective(At(s, P))
           /\ Range(At(s, P)) = {s[p] : p \in P}
<1> DEFINE a == At(s, P)
<1>1. \A p, q \in P : s[p] = s[q] => p = q
  BY DEF IsInjective
<1>2. \A p \in P : s[p] \in X
  OBVIOUS
<1>3. a \in Seq({s[p] : p \in P}) /\ \A p \in P : \E n \in DOMAIN a : a[n] = s[p]
  BY AtKeeps
<1>4. a \in Seq(X)
  BY <1>2, AtTyped
<1>5. IsInjective(a)
  BY <1>1, AtInjective
<1> HIDE DEF a
<1>6. Range(a) = {s[p] : p \in P}
  BY <1>3 DEF Range
<1> QED BY <1>4, <1>5, <1>6 DEF a

\* At has one member for each place.
LEMMA AtCounts ==
    ASSUME NEW X, NEW s \in Seq(X), NEW P \in SUBSET (DOMAIN s)
    PROVE  /\ At(s, P) \in Seq({s[p] : p \in P}) /\ Len(At(s, P)) = Cardinality(P)
           /\ IsFiniteSet(P) /\ Cardinality(P) \in Nat
           /\ Range(At(s, P)) = {s[p] : p \in P}
<1> DEFINE r == Ascending(P)
           N == Cardinality(P)
           a == At(s, P)
<1>1. DOMAIN s = 1..Len(s) /\ Len(s) \in Nat
  OBVIOUS
<1>2. N \in Nat /\ r \in [1..N -> P]
  BY <1>1, AscendingInOrder
<1>3. a = [n \in 1..N |-> s[r[n]]]
  <2>1. a = [n \in DOMAIN r |-> s[r[n]]]
    BY DEF At
  <2> HIDE DEF r, N, a
  <2> QED BY <1>2, <2>1
<1>4. a \in Seq({s[p] : p \in P}) /\ \A p \in P : \E n \in DOMAIN a : a[n] = s[p]
  BY AtKeeps
<1>5. IsFiniteSet(P)
  <2>1. IsFiniteSet(1..Len(s))
    BY <1>1, FS_Interval
  <2> QED BY <1>1, <2>1, FS_Subset
<1> HIDE DEF r, N, a
<1>6. Len(a) = N
  BY <1>2, <1>3
<1>7. Range(a) = {s[p] : p \in P}
  BY <1>4 DEF Range
<1> QED BY <1>2, <1>4, <1>5, <1>6, <1>7 DEF a, N

----------------------------------------------------------------------------
(* The roots *)

\* The sort by score keeps what it sorts.
LEMMA ByScoreKeeps ==
    ASSUME NEW ranked, IsRanking(ranked), NEW s \in Seq(Issues)
    PROVE  LET t == ByScore(s, ranked)
           IN  /\ t \in Seq(Issues) /\ Len(t) = Len(s) /\ Range(t) = Range(s)
               /\ IsInjective(s) => IsInjective(t)
<1> DEFINE key == [n \in DOMAIN s |-> -Score(ranked, s[n])]
<1>1. \A n \in DOMAIN s : key[n] \in Int
  BY DEF IsRanking, Score
<1> HIDE DEF key
<1>2. /\ StableSort(s, key) \in Seq(Issues) /\ Len(StableSort(s, key)) = Len(s)
      /\ Range(StableSort(s, key)) = Range(s)
      /\ IsInjective(s) => IsInjective(StableSort(s, key))
  BY <1>1, SortKeeps
<1> QED BY <1>2 DEF ByScore, key

\* The roots are the issues whose parent is none of the issues, each once.
LEMMA RootsKnown ==
    ASSUME NEW ranked, IsRanking(ranked)
    PROVE  LET roots == Roots(ranked)
           IN  /\ roots \in Seq(Issues) /\ IsInjective(roots)
               /\ Range(roots) = {i \in Issues : Parent[i] \notin Issues}
<1> DEFINE order == ranked.order
           P(parents) == {n \in DOMAIN order : Parent[order[n]] \in parents}
           with(parents) == At(order, P(parents))
           all == with({NoParent}) \o with(MadeUp)
<1>1. order \in Seq(Issues) /\ IsInjective(order) /\ Range(order) = Issues
  BY DEF IsRanking
<1> HIDE DEF order
<1>2. ASSUME NEW parents
      PROVE  /\ with(parents) \in Seq(Issues) /\ IsInjective(with(parents))
             /\ Range(with(parents)) = {i \in Issues : Parent[i] \in parents}
  <2>1. P(parents) \in SUBSET (DOMAIN order)
    OBVIOUS
  <2>2. {order[n] : n \in P(parents)} = {i \in Issues : Parent[i] \in parents}
    BY <1>1 DEF Range
  <2> HIDE DEF P
  <2> QED BY <1>1, <2>1, <2>2, AtPart
<1> HIDE DEF with
<1>3. NoParent \notin Issues \cup MadeUp /\ Parent \in [Issues -> Issues \cup MadeUp \cup {NoParent}]
      /\ MadeUp \cap Issues = {}
  BY ReportAssumption, AnalysisAssumption DEF ReportAssumption, AnalysisAssumption
<1>4. Range(with({NoParent})) \cap Range(with(MadeUp)) = {}
  BY <1>2, <1>3
<1>5. all \in Seq(Issues) /\ IsInjective(all)
      /\ Range(all) = Range(with({NoParent})) \cup Range(with(MadeUp))
  BY <1>2, <1>4, JoinedApart
<1>6. Range(all) = {i \in Issues : Parent[i] \notin Issues}
  <2>1. \A i \in Issues : Parent[i] \notin Issues <=> Parent[i] \in {NoParent} \/ Parent[i] \in MadeUp
    BY <1>3
  <2> HIDE DEF all
  <2> QED BY <1>2, <1>5, <2>1
<1>7. Roots(ranked) = ByScore(all, ranked)
  BY DEF Roots, all, with, order
<1> HIDE DEF all
<1> QED BY <1>5, <1>6, <1>7, ByScoreKeeps

\* The places up to a number at which groups begin.
Kernel(heads, roots, k) ==
    /\ heads \in SUBSET (1..k)
    /\ \A p \in 1..k : p \in heads <=> \A h \in heads : h < p => ~Overlap(roots[h], roots[p])

\* Such places exist for any number of roots, so that the choice of Heads is one of them.
LEMMA KernelExists ==
    ASSUME NEW roots, NEW N \in Nat
    PROVE  \E heads : Kernel(heads, roots, N)
<1> DEFINE Without == {k \in Nat : ~ \E heads : Kernel(heads, roots, k)}
<1> SUFFICES ASSUME Without # {} PROVE FALSE
  OBVIOUS
<1>1. PICK k \in Without : \A m \in Without : k <= m
  <2>1. Without \in SUBSET Nat
    OBVIOUS
  <2> HIDE DEF Without
  <2> QED BY <2>1, LeastNumber
<1>2. k \in Nat /\ ~ \E heads : Kernel(heads, roots, k)
  OBVIOUS
<1>3. CASE k = 0
  <2>1. Kernel({}, roots, 0)
    BY DEF Kernel
  <2> QED BY <1>2, <1>3, <2>1
<1>4. CASE k > 0
  <2>1. k - 1 \in Nat /\ k - 1 < k
    BY <1>2, <1>4
  <2>2. PICK H : Kernel(H, roots, k - 1)
    BY <1>1, <1>2, <2>1
  <2> DEFINE free == \A h \in H : ~Overlap(roots[h], roots[k])
             J == IF free THEN H \cup {k} ELSE H
  <2>3. H \in SUBSET (1..k - 1) /\ k \notin H
    BY <1>2, <2>2 DEF Kernel
  <2>4. J \in SUBSET (1..k)
    BY <1>2, <1>4, <2>3
  <2>5. ASSUME NEW p \in 1..k
        PROVE  p \in J <=> \A h \in J : h < p => ~Overlap(roots[h], roots[p])
    <3>1. CASE p \in 1..k - 1
      <4>1. p \in H <=> \A h \in H : h < p => ~Overlap(roots[h], roots[p])
        BY <2>2, <3>1 DEF Kernel
      <4>2. p # k /\ ~(k < p)
        BY <1>2, <3>1
      <4> QED BY <4>1, <4>2
    <3>2. CASE p = k
      <4>1. \A h \in H : h < k
        BY <1>2, <2>3
      <4>2. ~(k < k)
        BY <1>2
      <4> QED BY <2>3, <3>2, <4>1, <4>2
    <3> QED BY <1>2, <3>1, <3>2
  <2>6. Kernel(J, roots, k)
    BY <2>4, <2>5 DEF Kernel
  <2> QED BY <1>2, <2>6
<1> QED BY <1>2, <1>3, <1>4

\* Every root begins a group or belongs to one that begins before it.
LEMMA GroupsKnown ==
    ASSUME NEW roots \in Seq(Issues)
    PROVE  /\ Heads(roots) \in SUBSET (DOMAIN roots)
           /\ \A p \in DOMAIN roots \ Heads(roots) : GroupOf(roots, p) \in Heads(roots)
<1> DEFINE N == Len(roots)
           H == Heads(roots)
           OK(heads) == \A p \in DOMAIN roots :
                          p \in heads <=> \A h \in heads : h < p => ~Overlap(roots[h], roots[p])
<1>1. N \in Nat /\ DOMAIN roots = 1..N
  OBVIOUS
<1> HIDE DEF N
<1>2. \E heads \in SUBSET (DOMAIN roots) : OK(heads)
  <2>1. PICK heads : Kernel(heads, roots, N)
    BY <1>1, KernelExists
  <2> QED BY <1>1, <2>1 DEF Kernel
<1>3. H = CHOOSE heads \in SUBSET (DOMAIN roots) : OK(heads)
  BY DEF Heads
<1> HIDE DEF H
<1>4. H \in SUBSET (DOMAIN roots) /\ OK(H)
  <2> HIDE DEF OK
  <2> QED BY <1>2, <1>3
<1>5. ASSUME NEW p \in DOMAIN roots \ H PROVE GroupOf(roots, p) \in H
  <2> DEFINE B == {h \in H : h < p /\ Overlap(roots[h], roots[p])}
  <2>1. B # {} /\ B \in SUBSET Nat
    BY <1>1, <1>4
  <2>2. GroupOf(roots, p) = Min(B)
    BY DEF GroupOf, H
  <2>3. Min(B) \in B
    <3> HIDE DEF B
    <3> QED BY <2>1, MinIsIn
  <2> QED BY <2>2, <2>3
<1> QED BY <1>4, <1>5 DEF H

----------------------------------------------------------------------------
Move == [issue : Issues, parent : Issues]

\* An issue that is not a root of the map after merging is moved under one, or under one
\* that is moved under one.
UnderRoot(i, m) ==
    \/ i \in Range(m.roots)
    \/ \E n \in DOMAIN m.moved :
          /\ m.moved[n].issue = i
          /\ \/ m.moved[n].parent \in Range(m.roots)
             \/ \E k \in DOMAIN m.moved : /\ m.moved[k].issue = m.moved[n].parent
                                          /\ m.moved[k].parent \in Range(m.roots)

\* The merged roots are few, and no root is lost.
LEMMA MergedSound ==
    ASSUME NEW ranked, IsRanking(ranked)
    PROVE  LET m == Merged(ranked)
           IN  /\ m.roots \in Seq(Issues) /\ IsInjective(m.roots) /\ Len(m.roots) <= MaxRoots
               /\ m.moved \in Seq(Move)
               /\ \A i \in Issues : Parent[i] \notin Issues => UnderRoot(i, m)
<1> DEFINE roots == Roots(ranked)
           H == Heads(roots)
           others == DOMAIN roots \ H
           places == Ascending(others)
           key == [n \in DOMAIN places |-> GroupOf(roots, places[n])]
           members == StableSort(places, key)
           heads == ByScore(At(roots, H), ranked)
           demoted == SubSeq(heads, MaxRoots + 1, Len(heads))
           m == Merged(ranked)
           first == [n \in DOMAIN members |->
                       [issue |-> roots[members[n]], parent |-> roots[GroupOf(roots, members[n])]]]
           second == [n \in DOMAIN demoted |-> [issue |-> demoted[n], parent |-> heads[1]]]
<1>1. MaxRoots \in Nat \ {0}
  BY MapAssumption DEF MapAssumption
<1>2. roots \in Seq(Issues) /\ IsInjective(roots)
      /\ Range(roots) = {i \in Issues : Parent[i] \notin Issues}
  BY RootsKnown
<1>3. m = IF Len(roots) <= MaxRoots THEN [roots |-> roots, moved |-> <<>>]
          ELSE [roots |-> FirstOf(heads, MaxRoots), moved |-> first \o second]
  BY DEF Merged
<1> HIDE DEF roots, m
<1>4. CASE Len(roots) <= MaxRoots
  <2>1. m.roots = roots /\ m.moved = <<>>
    BY <1>3, <1>4
  <2>2. <<>> \in Seq(Move)
    OBVIOUS
  <2> QED BY <1>2, <1>4, <2>1, <2>2 DEF m, UnderRoot
<1>5. CASE ~(Len(roots) <= MaxRoots)
  <2>1. m.roots = FirstOf(heads, MaxRoots) /\ m.moved = first \o second
    BY <1>3, <1>5
  <2>2. H \in SUBSET (DOMAIN roots) /\ \A p \in others : GroupOf(roots, p) \in H
    BY <1>2, GroupsKnown
  <2>3. DOMAIN roots = 1..Len(roots) /\ Len(roots) \in Nat
    BY <1>2
  <2> HIDE DEF H
  <2>4. /\ heads \in Seq(Issues) /\ IsInjective(heads) /\ Range(heads) = {roots[p] : p \in H}
    <3>1. At(roots, H) \in Seq(Issues) /\ IsInjective(At(roots, H)) /\ Range(At(roots, H)) = {roots[p] : p \in H}
      BY <1>2, <2>2, AtPart
    <3> QED BY <3>1, ByScoreKeeps
  <2> HIDE DEF heads
  \* Which roots are members of a group that another one begins.
  <2>5. places \in Seq(others) /\ Range(places) = others
    <3> DEFINE N == Cardinality(others)
    <3>1. others \in SUBSET (1..Len(roots))
      BY <2>3
    <3> HIDE DEF others
    <3>2. N \in Nat /\ places \in [1..N -> others] /\ \A x \in others : \E n \in 1..N : places[n] = x
      BY <2>3, <3>1, AscendingInOrder
    <3> HIDE DEF places, N
    <3> QED BY <3>2 DEF Range
  <2> HIDE DEF places
  <2>6. members \in Seq(others) /\ Range(members) = others
    <3>1. \A n \in DOMAIN places : key[n] \in Int
      <4>1. \A n \in DOMAIN places : GroupOf(roots, places[n]) \in H /\ H \subseteq Int
        BY <2>2, <2>3, <2>5
      <4> QED BY <4>1
    <3> HIDE DEF key, others
    <3> QED BY <2>5, <3>1, SortKeeps
  <2> HIDE DEF members
  <2>7. first \in Seq(Move)
    <3>1. \A n \in DOMAIN members : roots[members[n]] \in Issues
                                    /\ roots[GroupOf(roots, members[n])] \in Issues
      <4>1. \A n \in DOMAIN members : members[n] \in others
        <5> HIDE DEF others
        <5> QED BY <2>6
      <4> QED BY <1>2, <2>2, <2>3, <4>1
    <3>2. Len(members) \in Nat /\ DOMAIN members = 1..Len(members)
      <4> HIDE DEF others
      <4> QED BY <2>6
    <3>3. first \in [1..Len(members) -> Move]
      BY <3>1, <3>2 DEF Move
    <3> QED BY <3>2, <3>3
  <2>8. FirstOf(heads, MaxRoots) \in Seq(Issues) /\ Len(m.roots) <= MaxRoots /\ Len(m.roots) <= Len(heads)
        /\ \A n \in 1..Len(m.roots) : m.roots[n] = heads[n]
    BY <1>1, <2>1, <2>4, FirstKeeps
  <2>9. Len(m.roots) \in Nat /\ Len(heads) \in Nat /\ DOMAIN m.roots = 1..Len(m.roots)
        /\ DOMAIN heads = 1..Len(heads) /\ m.roots \in Seq(Issues)
    BY <2>1, <2>4, <2>8
  <2>10. IsInjective(m.roots)
    BY <2>4, <2>8, <2>9 DEF IsInjective
  <2>11. \A n \in 1..Len(heads) : n <= MaxRoots => n <= Len(m.roots)
    <3>1. Len(FirstOf(heads, MaxRoots)) = Min({MaxRoots, Len(heads)})
      <4>1. Min({MaxRoots, Len(heads)}) \in {MaxRoots, Len(heads)}
        <5>1. {MaxRoots, Len(heads)} \in SUBSET Nat
          BY <1>1, <2>9
        <5> QED BY <5>1, MinIsIn
      <4>2. Min({MaxRoots, Len(heads)}) <= Len(heads)
        <5>1. \E x \in {MaxRoots, Len(heads)} : \A y \in {MaxRoots, Len(heads)} : x <= y
          BY <1>1, <2>9
        <5> QED BY <5>1 DEF Min
      <4> QED BY <1>1, <2>4, <2>9, <4>1, <4>2 DEF FirstOf
    <3>2. Min({MaxRoots, Len(heads)}) \in {MaxRoots, Len(heads)}
      <4>1. {MaxRoots, Len(heads)} \in SUBSET Nat
        BY <1>1, <2>9
      <4> QED BY <4>1, MinIsIn
    <3> QED BY <1>1, <2>1, <2>9, <3>1, <3>2
  <2>12. /\ demoted \in Seq(Issues)
         /\ \A k \in DOMAIN demoted : MaxRoots + k \in 1..Len(heads)
         /\ \A n \in 1..Len(heads) : n > MaxRoots => \E k \in DOMAIN demoted : demoted[k] = heads[n]
    <3> DEFINE a == MaxRoots + 1
               z == Len(heads)
    <3>1. a \in Int /\ z \in Int /\ a > 0
      BY <1>1, <2>9
    <3>2. \A k \in a..z : heads[k] \in Issues
      BY <2>4, <2>9, <3>1
    <3>3. demoted = SubSeq(heads, a, z)
      OBVIOUS
    <3> HIDE DEF demoted, a, z
    <3>4. /\ SubSeq(heads, a, z) \in Seq(Issues)
          /\ Len(SubSeq(heads, a, z)) = IF a <= z THEN z - a + 1 ELSE 0
          /\ \A k \in 1..z - a + 1 : SubSeq(heads, a, z)[k] = heads[a + k - 1]
      BY <3>1, <3>2, SubSeqProperties
    <3>5. /\ demoted \in Seq(Issues) /\ Len(demoted) = IF a <= z THEN z - a + 1 ELSE 0
          /\ \A k \in 1..z - a + 1 : demoted[k] = heads[a + k - 1]
      BY <3>3, <3>4
    <3>6. DOMAIN demoted = 1..Len(demoted)
      BY <3>5
    <3>7. ASSUME NEW k \in DOMAIN demoted PROVE MaxRoots + k \in 1..Len(heads)
      <4>1. k \in 1..z - a + 1 /\ a <= z
        BY <3>1, <3>5, <3>6
      <4> QED BY <1>1, <3>1, <4>1 DEF a, z
    <3>8. ASSUME NEW n \in 1..Len(heads), n > MaxRoots
          PROVE  \E k \in DOMAIN demoted : demoted[k] = heads[n]
      <4>1. n - MaxRoots \in 1..z - a + 1 /\ a + (n - MaxRoots) - 1 = n /\ a <= z
        BY <1>1, <2>9, <3>1, <3>8 DEF a, z
      <4>2. n - MaxRoots \in DOMAIN demoted
        BY <3>5, <3>6, <4>1
      <4> QED BY <3>5, <4>1, <4>2
    <3> QED BY <3>5, <3>7, <3>8
  <2> HIDE DEF demoted
  <2>13. Len(heads) >= 1 => heads[1] \in Issues /\ heads[1] \in Range(m.roots)
    <3>1. ASSUME Len(heads) >= 1 PROVE heads[1] \in Issues /\ heads[1] \in Range(m.roots)
      <4>1. 1 \in 1..Len(heads) /\ 1 <= MaxRoots
        BY <1>1, <2>9, <3>1
      <4>2. 1 \in DOMAIN m.roots /\ m.roots[1] = heads[1]
        BY <2>1, <2>8, <2>9, <2>11, <4>1
      <4> QED BY <2>4, <2>9, <4>1, <4>2 DEF Range
    <3> QED BY <3>1
  <2>14. second \in Seq(Move)
    <3>1. Len(demoted) \in Nat /\ DOMAIN demoted = 1..Len(demoted)
      BY <2>12
    <3>2. \A k \in DOMAIN demoted : demoted[k] \in Issues /\ heads[1] \in Issues
      <4>1. \A k \in DOMAIN demoted : Len(heads) >= 1
        BY <1>1, <2>9, <2>12
      <4> QED BY <2>12, <2>13, <4>1
    <3>3. second \in [1..Len(demoted) -> Move]
      BY <3>1, <3>2 DEF Move
    <3> QED BY <3>1, <3>3
  <2>15. DOMAIN first = DOMAIN members /\ DOMAIN second = DOMAIN demoted
    OBVIOUS
  <2>16. /\ m.moved \in Seq(Move)
         /\ \A n \in DOMAIN first : n \in DOMAIN m.moved /\ m.moved[n] = first[n]
         /\ \A n \in DOMAIN second : \E k \in DOMAIN m.moved : m.moved[k] = second[n]
    <3> DEFINE j == first \o second
    <3> HIDE DEF first, second
    <3>1. /\ DOMAIN first = 1..Len(first) /\ Len(first) \in Nat
          /\ DOMAIN second = 1..Len(second) /\ Len(second) \in Nat
      BY <2>7, <2>14
    <3>2. j \in Seq(Move) /\ Len(j) = Len(first) + Len(second)
      BY <2>7, <2>14
    <3>3. \A n \in 1..Len(first) : j[n] = first[n]
      BY <2>7, <2>14
    <3>4. \A n \in 1..Len(second) : j[Len(first) + n] = second[n]
      BY <2>7, <2>14
    <3>5. DOMAIN j = 1..Len(first) + Len(second)
      BY <3>2
    <3> HIDE DEF j
    <3>6. \A n \in DOMAIN first : n \in DOMAIN j
      BY <3>1, <3>5
    <3>7. \A n \in DOMAIN second : Len(first) + n \in DOMAIN j
      BY <3>1, <3>5
    <3>8. m.moved = j
      BY <2>1 DEF j
    <3> QED BY <3>1, <3>2, <3>3, <3>4, <3>6, <3>7, <3>8
  \* A head is a root that remains, or is put under the first one.
  <2>17. ASSUME NEW p \in H
         PROVE  \/ roots[p] \in Range(m.roots)
                \/ \E n \in DOMAIN m.moved : /\ m.moved[n].issue = roots[p]
                                             /\ m.moved[n].parent \in Range(m.roots)
    <3>1. PICK n \in 1..Len(heads) : heads[n] = roots[p]
      BY <2>4, <2>9 DEF Range
    <3>2. CASE n <= MaxRoots
      <4>1. n \in DOMAIN m.roots /\ m.roots[n] = roots[p]
        <5>1. n \in 1..Len(m.roots)
          BY <2>9, <2>11, <3>2
        <5> QED BY <2>8, <2>9, <3>1, <5>1
      <4> QED BY <4>1 DEF Range
    <3>3. CASE ~(n <= MaxRoots)
      <4>1. PICK k \in DOMAIN demoted : demoted[k] = heads[n]
        BY <1>1, <2>9, <2>12, <3>3
      <4>2. Len(heads) >= 1
        BY <2>9
      <4>3. second[k] = [issue |-> roots[p], parent |-> heads[1]] /\ k \in DOMAIN second
        BY <3>1, <4>1
      <4>4. PICK l \in DOMAIN m.moved : m.moved[l] = second[k]
        BY <2>16, <4>3
      <4>5. m.moved[l].issue = roots[p] /\ m.moved[l].parent \in Range(m.roots)
        BY <2>13, <4>2, <4>3, <4>4
      <4> QED BY <4>5
    <3> QED BY <3>2, <3>3
  <2>18. ASSUME NEW i \in Issues, Parent[i] \notin Issues PROVE UnderRoot(i, m)
    <3>1. PICK p \in DOMAIN roots : roots[p] = i
      BY <1>2, <2>18 DEF Range
    <3>2. CASE p \in H
      BY <2>17, <3>1, <3>2 DEF UnderRoot
    <3>3. CASE p \notin H
      <4>1. PICK n \in DOMAIN members : members[n] = p
        BY <2>6, <3>3 DEF Range
      <4>2. n \in DOMAIN m.moved /\ m.moved[n] = first[n]
        BY <2>15, <2>16, <4>1
      <4>3. m.moved[n].issue = i /\ m.moved[n].parent = roots[GroupOf(roots, p)]
        BY <3>1, <4>1, <4>2
      <4>4. GroupOf(roots, p) \in H
        BY <2>2, <3>3
      <4>5. \/ m.moved[n].parent \in Range(m.roots)
            \/ \E k \in DOMAIN m.moved : /\ m.moved[k].issue = m.moved[n].parent
                                         /\ m.moved[k].parent \in Range(m.roots)
        BY <2>17, <4>3, <4>4
      <4> QED BY <4>2, <4>3, <4>5 DEF UnderRoot
    <3> QED BY <3>2, <3>3
  <2> QED BY <2>8, <2>9, <2>10, <2>16, <2>18 DEF m
<1> QED BY <1>4, <1>5

----------------------------------------------------------------------------
(* The cards *)

\* What is in a list that is made of two.
LEMMA JoinedRange ==
    ASSUME NEW X, NEW s \in Seq(X), NEW t \in Seq(X)
    PROVE  Range(s \o t) = Range(s) \cup Range(t)
<1> DEFINE j == s \o t
           a == Len(s)
           b == Len(t)
<1>1. a \in Nat /\ b \in Nat /\ DOMAIN s = 1..a /\ DOMAIN t = 1..b
  OBVIOUS
<1>2. DOMAIN j = 1..(a + b)
  OBVIOUS
<1>3. \A n \in 1..a : j[n] = s[n]
  OBVIOUS
<1>4. \A n \in 1..b : j[a + n] = t[n]
  OBVIOUS
<1> HIDE DEF j, a, b
<1>5. ASSUME NEW n \in DOMAIN j PROVE j[n] \in Range(s) \cup Range(t)
  <2>1. CASE n \in 1..a
    BY <1>1, <1>3, <2>1 DEF Range
  <2>2. CASE n \notin 1..a
    <3>1. n - a \in 1..b /\ n = a + (n - a)
      BY <1>1, <1>2, <2>2
    <3>2. j[n] = t[n - a]
      BY <1>4, <3>1
    <3> QED BY <1>1, <3>1, <3>2 DEF Range
  <2> QED BY <2>1, <2>2
<1>6. \A n \in DOMAIN s : n \in DOMAIN j /\ j[n] = s[n]
  BY <1>1, <1>2, <1>3
<1>7. \A n \in DOMAIN t : a + n \in DOMAIN j /\ j[a + n] = t[n]
  BY <1>1, <1>2, <1>4
<1>8. Range(s) \subseteq Range(j)
  BY <1>6 DEF Range
<1>9. Range(t) \subseteq Range(j)
  <2>1. ASSUME NEW n \in DOMAIN t PROVE t[n] \in Range(j)
    <3>1. a + n \in DOMAIN j /\ j[a + n] = t[n]
      BY <1>7
    <3> QED BY <3>1 DEF Range
  <2> QED BY <2>1 DEF Range
<1>10. Range(j) \subseteq Range(s) \cup Range(t)
  BY <1>5 DEF Range
<1> QED BY <1>8, <1>9, <1>10 DEF j

\* The issues that are shown under an issue.
ShownUnder(i, moved) ==
    {j \in Issues : \/ Parent[j] = i
                    \/ \E n \in DOMAIN moved : moved[n].issue = j /\ moved[n].parent = i}

\* The places in the order, and in the list of the moved, whose parent is an issue.
OwnAt(i, ranked) == {n \in DOMAIN ranked.order : Parent[ranked.order[n]] = i}
MovedAt(i, moved) == {n \in DOMAIN moved : moved[n].parent = i}

\* The children of an issue are what is under it, and as many as there are places for them.
LEMMA ChildrenKnown ==
    ASSUME NEW ranked, IsRanking(ranked), NEW moved \in Seq(Move), NEW i \in Issues
    PROVE  LET children == Children(i, moved, ranked)
           IN  /\ children \in Seq(Issues) /\ Range(children) = ShownUnder(i, moved)
               /\ Cardinality(OwnAt(i, ranked)) \in Nat /\ Cardinality(MovedAt(i, moved)) \in Nat
               /\ Len(children) = Cardinality(OwnAt(i, ranked)) + Cardinality(MovedAt(i, moved))
<1> DEFINE order == ranked.order
           P == OwnAt(i, ranked)
           Q == MovedAt(i, moved)
           own == At(order, P)
           here == At(moved, Q)
           names == [n \in DOMAIN here |-> here[n].issue]
           all == own \o names
<1>1. order \in Seq(Issues) /\ Range(order) = Issues
  BY DEF IsRanking
<1>2. P \in SUBSET (DOMAIN order) /\ Q \in SUBSET (DOMAIN moved)
  BY DEF OwnAt, MovedAt
<1>3. Children(i, moved, ranked) = ByScore(all, ranked)
  BY DEF Children, OwnAt, MovedAt
<1>4. {order[n] : n \in P} = {j \in Issues : Parent[j] = i}
  BY <1>1 DEF OwnAt, Range
<1>5. \A n \in Q : moved[n] \in Move /\ moved[n].issue \in Issues /\ moved[n].parent = i
  <2>1. \A n \in DOMAIN moved : moved[n] \in Move
    OBVIOUS
  <2>2. \A n \in Q : n \in DOMAIN moved /\ moved[n].parent = i
    BY DEF MovedAt
  <2> QED BY <2>1, <2>2 DEF Move
<1>6. {moved[n].issue : n \in Q}
          = {j \in Issues : \E n \in DOMAIN moved : moved[n].issue = j /\ moved[n].parent = i}
  BY <1>5 DEF MovedAt
<1> HIDE DEF P, Q, order
<1>7. /\ own \in Seq({order[n] : n \in P}) /\ Len(own) = Cardinality(P) /\ Cardinality(P) \in Nat
      /\ Range(own) = {order[n] : n \in P}
  BY <1>1, <1>2, AtCounts
<1>8. /\ here \in Seq({moved[n] : n \in Q}) /\ Len(here) = Cardinality(Q) /\ Cardinality(Q) \in Nat
      /\ Range(here) = {moved[n] : n \in Q}
  BY <1>2, AtCounts
<1>9. own \in Seq(Issues)
  <2>1. \A p \in P : order[p] \in Issues
    BY <1>1, <1>2
  <2> QED BY <1>1, <1>2, <2>1, AtTyped
<1> HIDE DEF own, here
<1>10. DOMAIN here = 1..Len(here) /\ Len(here) \in Nat
  BY <1>8
<1>11. \A n \in DOMAIN here : here[n].issue \in Issues
  <2>1. \A n \in DOMAIN here : here[n] \in {moved[k] : k \in Q}
    BY <1>8
  <2> QED BY <1>5, <2>1
<1>12. names \in Seq(Issues) /\ Len(names) = Cardinality(Q) /\ DOMAIN names = DOMAIN here
  <2>1. names \in [1..Len(here) -> Issues]
    BY <1>10, <1>11
  <2> QED BY <1>8, <1>10, <2>1
<1>13. Range(names) = {moved[n].issue : n \in Q}
  <2>1. ASSUME NEW n \in DOMAIN here PROVE \E k \in Q : names[n] = moved[k].issue
    <3>1. here[n] \in {moved[k] : k \in Q}
      BY <1>8
    <3> QED BY <3>1
  <2>2. ASSUME NEW k \in Q PROVE \E n \in DOMAIN here : names[n] = moved[k].issue
    <3>1. moved[k] \in Range(here)
      BY <1>8
    <3>2. PICK n \in DOMAIN here : here[n] = moved[k]
      BY <3>1 DEF Range
    <3> QED BY <3>2
  <2> HIDE DEF names
  <2>3. Range(names) = {names[n] : n \in DOMAIN here}
    BY <1>12 DEF Range
  <2> QED BY <2>1, <2>2, <2>3
<1> HIDE DEF names
<1>14. all \in Seq(Issues) /\ Len(all) = Cardinality(P) + Cardinality(Q)
  BY <1>7, <1>8, <1>9, <1>12
<1>15. Range(all) = Range(own) \cup Range(names)
  BY <1>9, <1>12, JoinedRange
<1>16. Range(all) = ShownUnder(i, moved)
  BY <1>4, <1>6, <1>7, <1>13, <1>15 DEF ShownUnder
<1> HIDE DEF all
<1>17. LET t == ByScore(all, ranked) IN t \in Seq(Issues) /\ Len(t) = Len(all) /\ Range(t) = Range(all)
  BY <1>14, ByScoreKeeps
<1> QED BY <1>3, <1>7, <1>8, <1>14, <1>16, <1>17 DEF P, Q

----------------------------------------------------------------------------
CardPlace == [issue : Issues, parent : Issues \cup {NoParent}, depth : Nat]

\* The issues of a list of places or of calls.
Named(places) == {places[n].issue : n \in DOMAIN places}

\* A place is that of a root, or one below that of its parent among the first k places.
WellPlaced(p, places, k, G) ==
    IF p.parent = NoParent THEN p.depth = 0 /\ p.issue \in G
    ELSE \E m \in 1..k : places[m].issue = p.parent /\ p.depth = places[m].depth + 1

\* The places so far: each issue once, its parent before it.
PlacesSound(places, G) ==
    /\ places \in Seq(CardPlace)
    /\ \A m, n \in DOMAIN places : places[m].issue = places[n].issue => m = n
    /\ \A n \in DOMAIN places : WellPlaced(places[n], places, n - 1, G)

\* What is still to be called belongs to a place or may be a root.
CallsSound(calls, places, G) ==
    /\ calls \in Seq(CardPlace)
    /\ \A n \in DOMAIN calls : WellPlaced(calls[n], places, Len(places), G \cup Named(places))

\* Nothing is lost: what begins, and what is under a placed issue, is placed or called.
VisitInv(s, G, K, moved) ==
    /\ s = [calls |-> s.calls, places |-> s.places]
    /\ PlacesSound(s.places, G) /\ CallsSound(s.calls, s.places, G)
    /\ K \subseteq Named(s.places) \cup Named(s.calls)
    /\ \A i \in Named(s.places) : ShownUnder(i, moved) \subseteq Named(s.places) \cup Named(s.calls)

\* The calls that are still to come at most: those that are known, and one for each
\* place of a child of an issue that has no place yet.
OpenOwn(places, ranked) ==
    {n \in DOMAIN ranked.order : Parent[ranked.order[n]] \in Issues \ Named(places)}
OpenMoved(places, moved) == {n \in DOMAIN moved : moved[n].parent \in Issues \ Named(places)}
CallsLeft(s, moved, ranked) ==
    Len(s.calls) + Cardinality(OpenOwn(s.places, ranked)) + Cardinality(OpenMoved(s.places, moved))

\* No call is to come.
Through(s) == s.calls = <<>>

\* No parent is not an issue.
LEMMA NoParentNoIssue == NoParent \notin Issues
BY ReportAssumption DEF ReportAssumption

\* The first call, and the others.
LEMMA CallsSplit ==
    ASSUME NEW calls \in Seq(CardPlace), calls # <<>>
    PROVE  /\ Head(calls) \in CardPlace /\ Head(calls) = calls[1] /\ 1 \in DOMAIN calls
           /\ Tail(calls) \in Seq(CardPlace) /\ Len(Tail(calls)) = Len(calls) - 1
           /\ \A n \in DOMAIN Tail(calls) : n + 1 \in DOMAIN calls /\ Tail(calls)[n] = calls[n + 1]
           /\ Named(calls) = {Head(calls).issue} \cup Named(Tail(calls))
<1> DEFINE t == Tail(calls)
<1>1. /\ Len(calls) \in Nat /\ Len(calls) > 0 /\ DOMAIN calls = 1..Len(calls)
      /\ Head(calls) = calls[1]
  OBVIOUS
<1>2. /\ t \in Seq(CardPlace) /\ Len(t) = Len(calls) - 1
      /\ \A n \in 1..Len(t) : t[n] = calls[n + 1]
  BY HeadTailProperties
<1>3. DOMAIN t = 1..Len(t)
  BY <1>2
<1> HIDE DEF t
<1>4. calls[1] \in CardPlace /\ 1 \in DOMAIN calls
  BY <1>1
<1>5. \A n \in DOMAIN t : n + 1 \in DOMAIN calls /\ t[n] = calls[n + 1]
  BY <1>1, <1>2, <1>3
<1>6. \A n \in DOMAIN calls : n = 1 \/ (n - 1 \in DOMAIN t /\ calls[n] = t[n - 1])
  BY <1>1, <1>2, <1>3
<1>7. Named(calls) = {calls[1].issue} \cup Named(t)
  <2>1. \A n \in DOMAIN calls : calls[n].issue \in {calls[1].issue} \cup Named(t)
    BY <1>6 DEF Named
  <2>2. \A n \in DOMAIN t : t[n].issue \in Named(calls)
    BY <1>5 DEF Named
  <2> QED BY <1>4, <2>1, <2>2 DEF Named
<1> QED BY <1>1, <1>2, <1>4, <1>5, <1>7 DEF t

\* What remains well placed when there are more places.
LEMMA StaysWellPlaced ==
    ASSUME NEW p, NEW places, NEW k \in Nat, NEW G, WellPlaced(p, places, k, G),
           NEW more, NEW l \in Nat, k <= l, \A m \in 1..k : more[m] = places[m],
           NEW H, G \subseteq H
    PROVE  WellPlaced(p, more, l, H)
<1>1. CASE p.parent = NoParent
  BY <1>1 DEF WellPlaced
<1>2. CASE p.parent # NoParent
  <2>1. PICK m \in 1..k : places[m].issue = p.parent /\ p.depth = places[m].depth + 1
    BY <1>2 DEF WellPlaced
  <2>2. m \in 1..l /\ more[m] = places[m]
    BY <2>1
  <2> QED BY <1>2, <2>1, <2>2 DEF WellPlaced
<1> QED BY <1>1, <1>2

\* A call of an issue that has its place.
LEMMA CallSkipped ==
    ASSUME NEW ranked, NEW moved, NEW G, NEW K, NEW s, VisitInv(s, G, K, moved),
           ~Through(s), Head(s.calls).issue \in Named(s.places),
           NEW t, t = [s EXCEPT !.calls = Tail(@)]
    PROVE  /\ VisitInv(t, G, K, moved) /\ t.places = s.places
           /\ Len(t.calls) = Len(s.calls) - 1
<1>1. t = [calls |-> Tail(s.calls), places |-> s.places]
  BY DEF VisitInv
<1>2. t.calls = Tail(s.calls) /\ t.places = s.places
  BY <1>1
<1>3. s.calls \in Seq(CardPlace)
  BY DEF VisitInv, CallsSound
<1>4. /\ Tail(s.calls) \in Seq(CardPlace) /\ Len(Tail(s.calls)) = Len(s.calls) - 1
      /\ \A n \in DOMAIN Tail(s.calls) : n + 1 \in DOMAIN s.calls /\ Tail(s.calls)[n] = s.calls[n + 1]
      /\ Named(s.calls) = {Head(s.calls).issue} \cup Named(Tail(s.calls))
  BY <1>3, CallsSplit DEF Through
<1>5. CallsSound(t.calls, t.places, G)
  BY <1>2, <1>4 DEF VisitInv, CallsSound
<1>6. Named(s.places) \cup Named(s.calls) \subseteq Named(t.places) \cup Named(t.calls)
  BY <1>2, <1>4
<1> QED BY <1>1, <1>2, <1>4, <1>5, <1>6 DEF VisitInv

\* Two lists of places.
LEMMA NamedJoined ==
    ASSUME NEW s \in Seq(CardPlace), NEW t \in Seq(CardPlace)
    PROVE  /\ s \o t \in Seq(CardPlace) /\ Len(s \o t) = Len(s) + Len(t)
           /\ Named(s \o t) = Named(s) \cup Named(t)
           /\ \A n \in DOMAIN (s \o t) :
                \/ \E k \in DOMAIN s : (s \o t)[n] = s[k]
                \/ \E k \in DOMAIN t : (s \o t)[n] = t[k]
<1> DEFINE j == s \o t
<1>1. j \in Seq(CardPlace) /\ Len(j) = Len(s) + Len(t)
  OBVIOUS
<1>2. Range(j) = Range(s) \cup Range(t)
  BY JoinedRange
<1> HIDE DEF j
<1>3. \A n \in DOMAIN j : (\E k \in DOMAIN s : j[n] = s[k]) \/ (\E k \in DOMAIN t : j[n] = t[k])
  BY <1>2 DEF Range
<1>4. \A k \in DOMAIN s : \E n \in DOMAIN j : j[n] = s[k]
  BY <1>2 DEF Range
<1>5. \A k \in DOMAIN t : \E n \in DOMAIN j : j[n] = t[k]
  BY <1>2 DEF Range
<1>6. Named(j) \subseteq Named(s) \cup Named(t)
  BY <1>3 DEF Named
<1>7. Named(s) \subseteq Named(j)
  BY <1>4 DEF Named
<1>8. Named(t) \subseteq Named(j)
  BY <1>5 DEF Named
<1> QED BY <1>1, <1>3, <1>6, <1>7, <1>8 DEF j

\* What such a call leaves: the calls for the children first, and one more place.
Opened(s, moved, ranked) ==
    LET next == Head(s.calls)
        children == Children(next.issue, moved, ranked)
    IN  [calls |-> [n \in DOMAIN children |-> Place(children[n], next.issue, next.depth + 1)]
                   \o Tail(s.calls),
         places |-> Append(s.places, next)]

\* There is one more place, and there are calls for the children.
OneMore(s, after, i, moved, ranked) ==
    /\ Named(after.places) = Named(s.places) \cup {i}
    /\ Len(after.calls) = Len(s.calls) - 1 + Len(Children(i, moved, ranked))

\* A call that gives its issue a place.
LEMMA CallPlaced ==
    ASSUME NEW ranked, IsRanking(ranked), NEW moved \in Seq(Move), NEW G, NEW K, NEW s,
           VisitInv(s, G, K, moved), ~Through(s),
           NEW j, j = Head(s.calls).issue, j \notin Named(s.places),
           NEW after, after = Opened(s, moved, ranked)
    PROVE  /\ VisitInv(after, G, K, moved) /\ j \in Issues
           /\ OneMore(s, after, j, moved, ranked)
<1> DEFINE next == Head(s.calls)
           i == next.issue
           children == Children(i, moved, ranked)
           inside == [n \in DOMAIN children |-> Place(children[n], i, next.depth + 1)]
           tail == Tail(s.calls)
           calls == inside \o tail
           places == Append(s.places, next)
           t == [calls |-> calls, places |-> places]
           L == Len(s.places)
<1>1. s.calls \in Seq(CardPlace) /\ s.places \in Seq(CardPlace)
  BY DEF VisitInv, CallsSound, PlacesSound
<1>2. /\ next \in CardPlace /\ next = s.calls[1] /\ 1 \in DOMAIN s.calls
      /\ tail \in Seq(CardPlace) /\ Len(tail) = Len(s.calls) - 1
      /\ \A n \in DOMAIN tail : n + 1 \in DOMAIN s.calls /\ tail[n] = s.calls[n + 1]
      /\ Named(s.calls) = {i} \cup Named(tail)
  BY <1>1, CallsSplit DEF Through
<1> HIDE DEF next, tail
<1>3. i \in Issues /\ next.depth \in Nat
  BY <1>2 DEF CardPlace
<1> HIDE DEF i
<1>4. /\ children \in Seq(Issues) /\ Range(children) = ShownUnder(i, moved)
  BY <1>3, ChildrenKnown
<1> HIDE DEF children
<1>5. DOMAIN children = 1..Len(children) /\ Len(children) \in Nat
  BY <1>4
<1>6. /\ inside \in Seq(CardPlace) /\ Len(inside) = Len(children) /\ DOMAIN inside = DOMAIN children
      /\ \A n \in DOMAIN inside : inside[n] = Place(children[n], i, next.depth + 1)
  <2>1. \A n \in DOMAIN children : Place(children[n], i, next.depth + 1) \in CardPlace
    BY <1>3, <1>4 DEF Place, CardPlace
  <2>2. inside \in [1..Len(children) -> CardPlace]
    BY <1>5, <2>1
  <2> QED BY <1>5, <2>2
<1>7. Named(inside) = ShownUnder(i, moved)
  <2>1. \A n \in DOMAIN inside : inside[n].issue = children[n]
    BY <1>6 DEF Place
  <2> HIDE DEF inside
  <2>2. Named(inside) = {children[n] : n \in DOMAIN children}
    BY <1>6, <2>1 DEF Named
  <2> QED BY <1>4, <2>2 DEF Range
<1> HIDE DEF inside
<1>8. /\ calls \in Seq(CardPlace) /\ Len(calls) = Len(inside) + Len(tail)
      /\ Named(calls) = Named(inside) \cup Named(tail)
      /\ \A n \in DOMAIN calls : \/ \E k \in DOMAIN inside : calls[n] = inside[k]
                                 \/ \E k \in DOMAIN tail : calls[n] = tail[k]
  BY <1>2, <1>6, NamedJoined
<1>9. /\ L \in Nat /\ DOMAIN s.places = 1..L
      /\ places \in Seq(CardPlace) /\ Len(places) = L + 1 /\ DOMAIN places = 1..(L + 1)
      /\ places[L + 1] = next /\ \A n \in 1..L : places[n] = s.places[n]
  BY <1>1, <1>2
<1> HIDE DEF calls, places, L
<1>10. Named(places) = Named(s.places) \cup {i}
  <2>1. \A n \in 1..(L + 1) : n = L + 1 \/ n \in 1..L
    BY <1>9
  <2>2. L + 1 \in DOMAIN places /\ places[L + 1].issue = i
    BY <1>9 DEF i
  <2>3. \A n \in 1..L : n \in DOMAIN places
    BY <1>9
  <2>4. Named(places) \subseteq Named(s.places) \cup {i}
    BY <1>9, <2>1, <2>2 DEF Named
  <2>5. Named(s.places) \subseteq Named(places)
    BY <1>9, <2>3 DEF Named
  <2>6. i \in Named(places)
    BY <2>2 DEF Named
  <2> QED BY <2>4, <2>5, <2>6
<1>11. WellPlaced(next, s.places, L, G)
  <2>1. WellPlaced(next, s.places, L, G \cup Named(s.places))
    BY <1>2 DEF VisitInv, CallsSound, L
  <2>2. i \notin Named(s.places)
    BY DEF i, next
  <2> QED BY <2>1, <2>2 DEF WellPlaced, i
<1>12. PlacesSound(places, G)
  <2>1. ASSUME NEW m \in DOMAIN places, NEW n \in DOMAIN places, places[m].issue = places[n].issue
        PROVE  m = n
    <3>1. \A k \in 1..L : places[k].issue \in Named(s.places)
      BY <1>9 DEF Named
    <3>2. places[L + 1].issue \notin Named(s.places)
      BY <1>9 DEF next
    <3>3. \A k \in DOMAIN places : k = L + 1 \/ k \in 1..L
      BY <1>9
    <3>4. CASE m \in 1..L /\ n \in 1..L
      BY <1>9, <2>1, <3>4 DEF VisitInv, PlacesSound
    <3> QED BY <2>1, <3>1, <3>2, <3>3, <3>4
  <2>2. ASSUME NEW n \in DOMAIN places PROVE WellPlaced(places[n], places, n - 1, G)
    <3>1. CASE n = L + 1
      <4>1. n - 1 = L /\ places[n] = next
        BY <1>9, <3>1
      <4> QED BY <1>9, <1>11, <4>1, StaysWellPlaced
    <3>2. CASE n # L + 1
      <4>1. n \in 1..L /\ n - 1 \in Nat /\ n - 1 <= L
        BY <1>9, <3>2
      <4>2. WellPlaced(s.places[n], s.places, n - 1, G)
        BY <1>9, <4>1 DEF VisitInv, PlacesSound
      <4>3. places[n] = s.places[n] /\ \A m \in 1..n - 1 : places[m] = s.places[m]
        BY <1>9, <4>1
      <4> QED BY <4>1, <4>2, <4>3, StaysWellPlaced
    <3> QED BY <3>1, <3>2
  <2> QED BY <1>9, <2>1, <2>2 DEF PlacesSound
<1>13. CallsSound(calls, places, G)
  <2>1. ASSUME NEW k \in DOMAIN inside
        PROVE  WellPlaced(inside[k], places, L + 1, G \cup Named(places))
    <3>1. inside[k].parent = i /\ inside[k].depth = next.depth + 1
      BY <1>6 DEF Place
    <3>2. places[L + 1].issue = i /\ places[L + 1].depth = next.depth /\ L + 1 \in 1..L + 1
      BY <1>9 DEF i
    <3>3. i # NoParent
      BY <1>3, NoParentNoIssue
    <3> QED BY <3>1, <3>2, <3>3 DEF WellPlaced
  <2>2. ASSUME NEW k \in DOMAIN tail
        PROVE  WellPlaced(tail[k], places, L + 1, G \cup Named(places))
    <3>1. k + 1 \in DOMAIN s.calls /\ tail[k] = s.calls[k + 1]
      BY <1>2
    <3>2. WellPlaced(tail[k], s.places, L, G \cup Named(s.places))
      BY <3>1 DEF VisitInv, CallsSound, L
    <3>3. G \cup Named(s.places) \subseteq G \cup Named(places) /\ L + 1 \in Nat /\ L <= L + 1
      BY <1>9, <1>10
    <3> QED BY <1>9, <3>2, <3>3, StaysWellPlaced
  <2>3. \A n \in DOMAIN calls : WellPlaced(calls[n], places, L + 1, G \cup Named(places))
    BY <1>8, <2>1, <2>2
  <2> QED BY <1>8, <1>9, <2>3 DEF CallsSound
<1>14. Named(s.places) \cup Named(s.calls) \subseteq Named(places) \cup Named(calls)
  BY <1>2, <1>8, <1>10
<1>15. \A k \in Named(places) : ShownUnder(k, moved) \subseteq Named(places) \cup Named(calls)
  <2>1. ShownUnder(i, moved) \subseteq Named(calls)
    BY <1>7, <1>8
  <2>2. \A k \in Named(s.places) : ShownUnder(k, moved) \subseteq Named(s.places) \cup Named(s.calls)
    BY DEF VisitInv
  <2> QED BY <1>10, <1>14, <2>1, <2>2
<1>16. K \subseteq Named(places) \cup Named(calls)
  BY <1>14 DEF VisitInv
<1>17. VisitInv(t, G, K, moved)
  BY <1>12, <1>13, <1>15, <1>16 DEF VisitInv
<1>18. Len(calls) = Len(s.calls) - 1 + Len(children)
  <2>1. Len(s.calls) \in Nat
    BY <1>1
  <2> QED BY <1>2, <1>5, <1>6, <1>8, <2>1
<1>19. after = t
  BY DEF Opened, next, i, children, inside, tail, calls, places
<1>20. t.calls = calls /\ t.places = places
  OBVIOUS
<1> HIDE DEF t
<1>21. j = i
  BY DEF i, next
<1> QED BY <1>3, <1>10, <1>17, <1>18, <1>19, <1>20, <1>21 DEF children, OneMore

----------------------------------------------------------------------------
\* Two parts of a set of places in a list.
LEMMA PartsCounted ==
    ASSUME NEW X, NEW s \in Seq(X), NEW A, NEW B, NEW C,
           A \in SUBSET (DOMAIN s), C = A \cup B, A \cap B = {}, B \in SUBSET (DOMAIN s)
    PROVE  /\ Cardinality(A) \in Nat /\ Cardinality(B) \in Nat /\ Cardinality(C) \in Nat
           /\ Cardinality(C) = Cardinality(A) + Cardinality(B)
           /\ Cardinality(C) <= Len(s)
<1>1. DOMAIN s = 1..Len(s) /\ Len(s) \in Nat
  OBVIOUS
<1>2. IsFiniteSet(1..Len(s)) /\ Cardinality(1..Len(s)) = Len(s)
  <2> DEFINE L == Len(s)
  <2>1. L \in Nat
    BY <1>1
  <2> HIDE DEF L
  <2>2. IsFiniteSet(1..L) /\ Cardinality(1..L) = L
    BY <2>1, FS_Interval
  <2> QED BY <2>2 DEF L
<1>3. A \in SUBSET (1..Len(s)) /\ B \in SUBSET (1..Len(s)) /\ C \in SUBSET (1..Len(s))
  BY <1>1
<1>4. /\ IsFiniteSet(A) /\ IsFiniteSet(B) /\ IsFiniteSet(C)
      /\ Cardinality(C) <= Cardinality(1..Len(s))
  BY <1>2, <1>3, FS_Subset
<1>5. Cardinality(A) \in Nat /\ Cardinality(B) \in Nat /\ Cardinality(C) \in Nat
  BY <1>4, FS_CardinalityType
<1>6. Cardinality(A \cup B) = Cardinality(A) + Cardinality(B) - Cardinality(A \cap B)
  BY <1>4, FS_Union
<1>7. Cardinality(A \cap B) = 0
  BY FS_EmptySet
<1> QED BY <1>2, <1>4, <1>5, <1>6, <1>7

\* An issue that gets its place takes the calls of its children from those that are open.
LEMMA OpenShrinks ==
    ASSUME NEW ranked, IsRanking(ranked), NEW moved \in Seq(Move),
           NEW places, NEW more, NEW i \in Issues, i \notin Named(places),
           Named(more) = Named(places) \cup {i}
    PROVE  /\ Cardinality(OpenOwn(more, ranked)) \in Nat
           /\ Cardinality(OpenMoved(more, moved)) \in Nat
           /\ Cardinality(OpenOwn(places, ranked))
                = Cardinality(OpenOwn(more, ranked)) + Cardinality(OwnAt(i, ranked))
           /\ Cardinality(OpenMoved(places, moved))
                = Cardinality(OpenMoved(more, moved)) + Cardinality(MovedAt(i, moved))
<1>1. ranked.order \in Seq(Issues)
  BY DEF IsRanking
<1>2. /\ OpenOwn(more, ranked) \in SUBSET (DOMAIN ranked.order)
      /\ OwnAt(i, ranked) \in SUBSET (DOMAIN ranked.order)
      /\ OpenOwn(places, ranked) = OpenOwn(more, ranked) \cup OwnAt(i, ranked)
      /\ OpenOwn(more, ranked) \cap OwnAt(i, ranked) = {}
  BY DEF OpenOwn, OwnAt
<1>3. /\ OpenMoved(more, moved) \in SUBSET (DOMAIN moved)
      /\ MovedAt(i, moved) \in SUBSET (DOMAIN moved)
      /\ OpenMoved(places, moved) = OpenMoved(more, moved) \cup MovedAt(i, moved)
      /\ OpenMoved(more, moved) \cap MovedAt(i, moved) = {}
  BY DEF OpenMoved, MovedAt
<1>4. /\ Cardinality(OpenOwn(more, ranked)) \in Nat
      /\ Cardinality(OpenOwn(places, ranked))
           = Cardinality(OpenOwn(more, ranked)) + Cardinality(OwnAt(i, ranked))
  <2> DEFINE A == OpenOwn(more, ranked)
             B == OwnAt(i, ranked)
             C == OpenOwn(places, ranked)
             order == ranked.order
  <2>1. order \in Seq(Issues) /\ A \in SUBSET (DOMAIN order) /\ B \in SUBSET (DOMAIN order)
        /\ C = A \cup B /\ A \cap B = {}
    BY <1>1, <1>2
  <2> HIDE DEF A, B, C, order
  <2>2. Cardinality(A) \in Nat /\ Cardinality(C) = Cardinality(A) + Cardinality(B)
    BY <2>1, PartsCounted
  <2> QED BY <2>2 DEF A, B, C
<1>5. /\ Cardinality(OpenMoved(more, moved)) \in Nat
      /\ Cardinality(OpenMoved(places, moved))
           = Cardinality(OpenMoved(more, moved)) + Cardinality(MovedAt(i, moved))
  <2> DEFINE A == OpenMoved(more, moved)
             B == MovedAt(i, moved)
             C == OpenMoved(places, moved)
  <2>1. A \in SUBSET (DOMAIN moved) /\ B \in SUBSET (DOMAIN moved) /\ C = A \cup B /\ A \cap B = {}
    BY <1>3
  <2> HIDE DEF A, B, C
  <2>2. Cardinality(A) \in Nat /\ Cardinality(C) = Cardinality(A) + Cardinality(B)
    BY <2>1, PartsCounted
  <2> QED BY <2>2 DEF A, B, C
<1> QED BY <1>4, <1>5

\* What is open when the calls begin.
LEMMA OpenBounded ==
    ASSUME NEW ranked, IsRanking(ranked), NEW moved \in Seq(Move), NEW places
    PROVE  /\ Cardinality(OpenOwn(places, ranked)) \in 0..NIssues
           /\ Cardinality(OpenMoved(places, moved)) \in 0..Len(moved)
<1>1. ranked.order \in Seq(Issues) /\ Len(ranked.order) = NIssues
  BY DEF IsRanking
<1>2. OpenOwn(places, ranked) \in SUBSET (DOMAIN ranked.order)
  BY DEF OpenOwn
<1>3. OpenMoved(places, moved) \in SUBSET (DOMAIN moved)
  BY DEF OpenMoved
<1>4. \A A : A = A \cup {} /\ A \cap {} = {}
  OBVIOUS
<1>5. /\ Cardinality(OpenOwn(places, ranked)) \in Nat
      /\ Cardinality(OpenOwn(places, ranked)) <= Len(ranked.order)
  <2> DEFINE A == OpenOwn(places, ranked)
             order == ranked.order
  <2>1. order \in Seq(Issues) /\ A \in SUBSET (DOMAIN order) /\ A = A \cup {} /\ A \cap {} = {}
        /\ {} \in SUBSET (DOMAIN order)
    BY <1>1, <1>2
  <2> HIDE DEF A, order
  <2>2. Cardinality(A) \in Nat /\ Cardinality(A) <= Len(order)
    BY <2>1, PartsCounted
  <2> QED BY <2>2 DEF A, order
<1>6. /\ Cardinality(OpenMoved(places, moved)) \in Nat
      /\ Cardinality(OpenMoved(places, moved)) <= Len(moved)
  <2> DEFINE A == OpenMoved(places, moved)
  <2>1. A \in SUBSET (DOMAIN moved) /\ A = A \cup {} /\ A \cap {} = {} /\ {} \in SUBSET (DOMAIN moved)
    BY <1>3
  <2> HIDE DEF A
  <2>2. Cardinality(A) \in Nat /\ Cardinality(A) <= Len(moved)
    BY <2>1, PartsCounted
  <2> QED BY <2>2 DEF A
<1> QED BY <1>1, <1>5, <1>6

\* A step of the loop: fewer calls are left, if any.
LEMMA MakeCardSound ==
    ASSUME NEW ranked, IsRanking(ranked), NEW moved \in Seq(Move), NEW G, NEW K, NEW s,
           VisitInv(s, G, K, moved)
    PROVE  LET t == MakeCard(s, moved, ranked)
           IN  /\ VisitInv(t, G, K, moved) /\ Named(s.places) \subseteq Named(t.places)
               /\ Through(s) => t = s
               /\ ~Through(s) => /\ CallsLeft(s, moved, ranked) \in Nat
                                    /\ CallsLeft(t, moved, ranked) = CallsLeft(s, moved, ranked) - 1
<1> DEFINE t == MakeCard(s, moved, ranked)
           next == Head(s.calls)
<1>1. CASE Through(s)
  <2>1. t = s
    BY <1>1 DEF MakeCard, Through
  <2> HIDE DEF t
  <2> QED BY <1>1, <2>1 DEF t
<1>2. CASE ~Through(s) /\ next.issue \in Named(s.places)
  <2>1. \E n \in DOMAIN s.places : s.places[n].issue = next.issue
    BY <1>2 DEF Named
  <2>2. t = [s EXCEPT !.calls = Tail(@)]
    BY <1>2, <2>1 DEF MakeCard, Through
  <2> HIDE DEF t
  <2>3. VisitInv(t, G, K, moved) /\ t.places = s.places /\ Len(t.calls) = Len(s.calls) - 1
    BY <1>2, <2>2, CallSkipped
  <2>4. Len(s.calls) \in Nat
    BY DEF VisitInv, CallsSound
  <2>5. /\ Cardinality(OpenOwn(s.places, ranked)) \in Nat
        /\ Cardinality(OpenMoved(s.places, moved)) \in Nat
    BY OpenBounded
  <2> QED BY <1>2, <2>3, <2>4, <2>5 DEF CallsLeft, t
<1>3. CASE ~Through(s) /\ next.issue \notin Named(s.places)
  <2> DEFINE i == next.issue
             children == Children(i, moved, ranked)
             u == Opened(s, moved, ranked)
  <2>1. ~ \E n \in DOMAIN s.places : s.places[n].issue = next.issue
    BY <1>3 DEF Named
  <2>2. t = u
    BY <1>3, <2>1 DEF MakeCard, Opened, Through
  <2> HIDE DEF u, t
  <2>8. u = Opened(s, moved, ranked) /\ i = Head(s.calls).issue
    BY DEF u
  <2> HIDE DEF i
  <2>9. VisitInv(u, G, K, moved) /\ i \in Issues /\ OneMore(s, u, i, moved, ranked)
    BY <1>3, <2>8, CallPlaced
  <2>3. /\ VisitInv(u, G, K, moved) /\ i \in Issues
        /\ Named(u.places) = Named(s.places) \cup {i}
        /\ Len(u.calls) = Len(s.calls) - 1 + Len(children)
    BY <2>9 DEF OneMore
  <2>4. /\ Cardinality(OwnAt(i, ranked)) \in Nat
        /\ Cardinality(MovedAt(i, moved)) \in Nat
        /\ Len(children) = Cardinality(OwnAt(i, ranked))
                             + Cardinality(MovedAt(i, moved))
    BY <2>3, ChildrenKnown
  <2> HIDE DEF children
  <2>10. i \notin Named(s.places)
    BY <1>3, <2>8
  <2>5. /\ Cardinality(OpenOwn(u.places, ranked)) \in Nat
        /\ Cardinality(OpenMoved(u.places, moved)) \in Nat
        /\ Cardinality(OpenOwn(s.places, ranked))
             = Cardinality(OpenOwn(u.places, ranked)) + Cardinality(OwnAt(i, ranked))
        /\ Cardinality(OpenMoved(s.places, moved))
             = Cardinality(OpenMoved(u.places, moved)) + Cardinality(MovedAt(i, moved))
    BY <2>3, <2>10, OpenShrinks
  <2>6. Len(s.calls) \in Nat
    BY DEF VisitInv, CallsSound
  <2>7. /\ CallsLeft(s, moved, ranked) \in Nat
        /\ CallsLeft(u, moved, ranked) = CallsLeft(s, moved, ranked) - 1
    <3> DEFINE a == Len(s.calls)
               b == Len(u.calls)
               c == Len(children)
               own == Cardinality(OwnAt(i, ranked))
               shifted == Cardinality(MovedAt(i, moved))
               d == Cardinality(OpenOwn(s.places, ranked))
               e == Cardinality(OpenMoved(s.places, moved))
               f == Cardinality(OpenOwn(u.places, ranked))
               g == Cardinality(OpenMoved(u.places, moved))
    <3>1. CallsLeft(s, moved, ranked) = a + d + e /\ CallsLeft(u, moved, ranked) = b + f + g
      BY DEF CallsLeft
    <3>2. /\ a \in Nat /\ own \in Nat /\ shifted \in Nat /\ c = own + shifted
          /\ f \in Nat /\ g \in Nat /\ d = f + own /\ e = g + shifted
      BY <2>4, <2>5, <2>6
    <3>3. b = a - 1 + c
      BY <2>3
    <3> HIDE DEF a, b, c, d, e, f, g, own, shifted
    <3> QED BY <3>1, <3>2, <3>3
  <2> QED BY <1>3, <2>2, <2>3, <2>7 DEF t
<1> QED BY <1>1, <1>2, <1>3

----------------------------------------------------------------------------
\* The states of the loop up to its turn N.
MakeCards(start, moved, ranked, N, f) ==
    f = [n \in 0..N |-> IF n = 0 THEN start ELSE MakeCard(f[n - 1], moved, ranked)]

\* The loop has a state after any number of turns.
LEMMA MakeCardsExist ==
    ASSUME NEW start, NEW moved, NEW ranked, NEW N \in Nat
    PROVE  \E f : MakeCards(start, moved, ranked, N, f)
<1> DEFINE Without == {m \in Nat : ~ \E f : MakeCards(start, moved, ranked, m, f)}
<1> SUFFICES ASSUME Without # {} PROVE FALSE
  OBVIOUS
<1>1. PICK m \in Without : \A k \in Without : m <= k
  <2>1. Without \in SUBSET Nat
    OBVIOUS
  <2> HIDE DEF Without
  <2> QED BY <2>1, LeastNumber
<1>2. m \in Nat /\ ~ \E f : MakeCards(start, moved, ranked, m, f)
  OBVIOUS
<1>3. CASE m = 0
  <2> DEFINE f == [n \in 0..0 |-> start]
  <2>1. f = [n \in 0..0 |-> IF n = 0 THEN start ELSE MakeCard(f[n - 1], moved, ranked)]
    OBVIOUS
  <2>2. MakeCards(start, moved, ranked, 0, f)
    BY <2>1 DEF MakeCards
  <2> QED BY <1>2, <1>3, <2>2
<1>4. CASE m > 0
  <2>1. m - 1 \in Nat /\ m - 1 < m
    BY <1>2, <1>4
  <2>2. PICK g : MakeCards(start, moved, ranked, m - 1, g)
    BY <1>1, <1>2, <2>1
  <2> DEFINE f == [n \in 0..m |-> IF n = m THEN MakeCard(g[m - 1], moved, ranked) ELSE g[n]]
  <2>3. \A n \in 0..(m - 1) : g[n] = IF n = 0 THEN start ELSE MakeCard(g[n - 1], moved, ranked)
    BY <2>2 DEF MakeCards
  <2>4. \A n \in 0..m : f[n] = IF n = 0 THEN start ELSE MakeCard(f[n - 1], moved, ranked)
    <3> SUFFICES ASSUME NEW n \in 0..m
                 PROVE  f[n] = IF n = 0 THEN start ELSE MakeCard(f[n - 1], moved, ranked)
      OBVIOUS
    <3>1. CASE n = 0
      BY <1>2, <1>4, <2>3, <3>1
    <3>2. CASE n > 0 /\ n < m
      <4>1. n \in 0..(m - 1) /\ n - 1 \in 0..m /\ n - 1 # m /\ n # 0 /\ n # m
        BY <1>2, <3>2
      <4>2. f[n] = g[n] /\ f[n - 1] = g[n - 1]
        BY <4>1
      <4> HIDE DEF f
      <4> QED BY <2>3, <4>1, <4>2
    <3>3. CASE n = m
      <4>1. m - 1 \in 0..m /\ m - 1 # m /\ n # 0
        BY <1>2, <1>4, <3>3
      <4>2. f[n] = MakeCard(g[m - 1], moved, ranked) /\ f[n - 1] = g[m - 1]
        BY <3>3, <4>1
      <4> HIDE DEF f
      <4> QED BY <4>1, <4>2
    <3> QED BY <1>2, <3>1, <3>2, <3>3
  <2>5. f = [n \in 0..m |-> IF n = 0 THEN start ELSE MakeCard(f[n - 1], moved, ranked)]
    <3>1. f = [n \in 0..m |-> f[n]]
      OBVIOUS
    <3> HIDE DEF f
    <3> QED BY <2>4, <3>1
  <2> HIDE DEF f
  <2>6. MakeCards(start, moved, ranked, m, f)
    BY <2>5 DEF MakeCards
  <2> QED BY <1>2, <2>6
<1> QED BY <1>2, <1>3, <1>4

\* The calls all come to their end.
LEMMA MakeCardsSound ==
    ASSUME NEW ranked, IsRanking(ranked), NEW moved \in Seq(Move), NEW G, NEW K,
           NEW start, VisitInv(start, G, K, moved),
           NEW N \in Nat, CallsLeft(start, moved, ranked) \in 0..N,
           NEW f, MakeCards(start, moved, ranked, N, f)
    PROVE  /\ VisitInv(f[N], G, K, moved) /\ Through(f[N])
           /\ Named(start.places) \subseteq Named(f[N].places)
<1> DEFINE Good(n) == /\ VisitInv(f[n], G, K, moved)
                      /\ Named(start.places) \subseteq Named(f[n].places)
                      /\ ~Through(f[n]) =>
                            /\ CallsLeft(f[n], moved, ranked) \in Nat
                            /\ CallsLeft(f[n], moved, ranked) <= N - n
           Bad == {n \in 0..N : ~Good(n)}
<1>1. \A n \in 0..N : f[n] = IF n = 0 THEN start ELSE MakeCard(f[n - 1], moved, ranked)
  BY DEF MakeCards
<1>2. Good(0)
  <2>1. f[0] = start
    BY <1>1
  <2>2. CallsLeft(start, moved, ranked) \in Nat /\ CallsLeft(start, moved, ranked) <= N - 0
    OBVIOUS
  <2> QED BY <2>1, <2>2
<1>3. ASSUME NEW n \in 1..N, Good(n - 1) PROVE Good(n)
  <2> DEFINE s == f[n - 1]
             t == f[n]
  <2>1. n \in 0..N /\ n # 0 /\ t = MakeCard(s, moved, ranked)
    BY <1>1
  <2>2. /\ VisitInv(s, G, K, moved) /\ Named(start.places) \subseteq Named(s.places)
        /\ ~Through(s) => CallsLeft(s, moved, ranked) \in Nat
                             /\ CallsLeft(s, moved, ranked) <= N - (n - 1)
    BY <1>3
  <2> HIDE DEF s, t
  <2>3. /\ VisitInv(t, G, K, moved) /\ Named(s.places) \subseteq Named(t.places)
        /\ Through(s) => t = s
        /\ ~Through(s) => /\ CallsLeft(s, moved, ranked) \in Nat
                             /\ CallsLeft(t, moved, ranked) = CallsLeft(s, moved, ranked) - 1
    BY <2>1, <2>2, MakeCardSound
  <2>4. Len(t.calls) \in Nat /\ (~Through(t) => Len(t.calls) > 0)
    BY <2>3 DEF VisitInv, CallsSound, Through
  <2>5. ~Through(t) => CallsLeft(t, moved, ranked) \in Nat
    <3>1. /\ Cardinality(OpenOwn(t.places, ranked)) \in Nat
          /\ Cardinality(OpenMoved(t.places, moved)) \in Nat
      BY OpenBounded
    <3> QED BY <2>4, <3>1 DEF CallsLeft
  <2>6. ~Through(t) => CallsLeft(t, moved, ranked) <= N - n
    <3>1. ~Through(t) => ~Through(s)
      BY <2>3
    <3> QED BY <2>2, <2>3, <3>1
  <2>7. VisitInv(t, G, K, moved) /\ Named(start.places) \subseteq Named(t.places)
    BY <2>2, <2>3
  <2> QED BY <2>5, <2>6, <2>7 DEF t
<1> HIDE DEF Good
<1>4. Good(N)
  <2> SUFFICES ASSUME Bad # {} PROVE FALSE
    OBVIOUS
  <2>1. PICK n \in Bad : \A k \in Bad : n <= k
    <3>1. Bad \in SUBSET Nat
      OBVIOUS
    <3> HIDE DEF Bad
    <3> QED BY <3>1, LeastNumber
  <2>2. n \in 0..N /\ ~Good(n)
    OBVIOUS
  <2>3. n # 0
    BY <1>2, <2>2
  <2>4. n \in 1..N /\ n - 1 \in 0..N /\ ~(n <= n - 1)
    BY <2>2, <2>3
  <2>5. Good(n - 1)
    BY <2>1, <2>4
  <2> QED BY <1>3, <2>2, <2>4, <2>5
<1>5. Through(f[N])
  <2> SUFFICES ASSUME ~Through(f[N]) PROVE FALSE
    OBVIOUS
  <2> DEFINE s == f[N]
  <2>1. CallsLeft(s, moved, ranked) <= N - N
    BY <1>4 DEF Good
  <2>2. Len(s.calls) \in Nat /\ Len(s.calls) > 0
    BY <1>4 DEF Good, VisitInv, CallsSound, Through
  <2> HIDE DEF s
  <2>3. /\ Cardinality(OpenOwn(s.places, ranked)) \in Nat
        /\ Cardinality(OpenMoved(s.places, moved)) \in Nat
    BY OpenBounded
  <2> QED BY <2>1, <2>2, <2>3 DEF CallsLeft
<1> QED BY <1>4, <1>5 DEF Good

\* A visit gives a place to all that it begins with and all that is under what has one,
\* each once, and below its parent.
LEMMA VisitSound ==
    ASSUME NEW ranked, IsRanking(ranked), NEW moved \in Seq(Move), NEW G,
           NEW issues \in Seq(Issues), NEW places, PlacesSound(places, G),
           Range(issues) \subseteq G \cup Named(places),
           \A i \in Named(places) : ShownUnder(i, moved) \subseteq Named(places)
    PROVE  LET v == Visit(issues, places, moved, ranked)
           IN  /\ PlacesSound(v, G)
               /\ Named(places) \cup Range(issues) \subseteq Named(v)
               /\ \A i \in Named(v) : ShownUnder(i, moved) \subseteq Named(v)
<1> DEFINE calls == [m \in DOMAIN issues |-> Place(issues[m], NoParent, 0)]
           start == [calls |-> calls, places |-> places]
           N == Len(issues) + NIssues + Len(moved)
           K == Named(places) \cup Range(issues)
           state[n \in 0..N] == IF n = 0 THEN start ELSE MakeCard(state[n - 1], moved, ranked)
<1>1. NIssues \in Nat /\ Len(issues) \in Nat /\ Len(moved) \in Nat /\ N \in Nat
  BY AnalysisAssumption DEF AnalysisAssumption
<1>2. state = CHOOSE f : f = [n \in 0..N |-> IF n = 0 THEN start ELSE MakeCard(f[n - 1], moved, ranked)]
  BY DEF state
<1>3. Visit(issues, places, moved, ranked) = state[N].places
  BY DEF Visit
<1> HIDE DEF state, N
<1>4. /\ calls \in Seq(CardPlace) /\ Len(calls) = Len(issues) /\ DOMAIN calls = DOMAIN issues
      /\ \A n \in DOMAIN calls : calls[n] = Place(issues[n], NoParent, 0)
  <2>1. DOMAIN issues = 1..Len(issues)
    OBVIOUS
  <2>2. \A m \in DOMAIN issues : Place(issues[m], NoParent, 0) \in CardPlace
    BY DEF Place, CardPlace
  <2>3. calls \in [1..Len(issues) -> CardPlace]
    BY <2>1, <2>2
  <2> QED BY <1>1, <2>1, <2>3
<1> HIDE DEF calls
<1>5. \A n \in DOMAIN calls : /\ calls[n].issue = issues[n] /\ calls[n].parent = NoParent
                              /\ calls[n].depth = 0
  BY <1>4 DEF Place
<1>6. Named(calls) = Range(issues)
  BY <1>4, <1>5 DEF Named, Range
<1>7. VisitInv(start, G, K, moved)
  <2>1. \A n \in DOMAIN calls : WellPlaced(calls[n], places, Len(places), G \cup Named(places))
    <3>1. \A n \in DOMAIN calls : calls[n].issue \in Range(issues)
      BY <1>4, <1>5 DEF Range
    <3> QED BY <1>5, <3>1 DEF WellPlaced
  <2>2. CallsSound(calls, places, G)
    BY <1>4, <2>1 DEF CallsSound
  <2> QED BY <1>6, <2>2 DEF VisitInv
<1>8. CallsLeft(start, moved, ranked) \in 0..N
  <2>1. /\ Cardinality(OpenOwn(places, ranked)) \in 0..NIssues
        /\ Cardinality(OpenMoved(places, moved)) \in 0..Len(moved)
    BY OpenBounded
  <2>2. CallsLeft(start, moved, ranked)
          = Len(issues) + Cardinality(OpenOwn(places, ranked)) + Cardinality(OpenMoved(places, moved))
    BY <1>4 DEF CallsLeft
  <2> HIDE DEF start
  <2> QED BY <1>1, <2>1, <2>2 DEF N
<1>9. start.places = places
  OBVIOUS
<1> HIDE DEF start, K
<1>10. PICK g : MakeCards(start, moved, ranked, N, g)
  BY <1>1, MakeCardsExist
<1>11. MakeCards(start, moved, ranked, N, state)
  BY <1>2, <1>10 DEF MakeCards
<1>12. /\ VisitInv(state[N], G, K, moved) /\ Through(state[N])
       /\ Named(start.places) \subseteq Named(state[N].places)
  BY <1>1, <1>7, <1>8, <1>11, MakeCardsSound
<1>13. Named(<<>>) = {}
  BY DEF Named
<1>14. /\ PlacesSound(state[N].places, G) /\ K \subseteq Named(state[N].places)
       /\ \A i \in Named(state[N].places) : ShownUnder(i, moved) \subseteq Named(state[N].places)
  BY <1>12, <1>13 DEF VisitInv, Through
<1> QED BY <1>3, <1>14 DEF K

----------------------------------------------------------------------------
\* Places are of issues.
LEMMA NamedIssues ==
    ASSUME NEW places \in Seq(CardPlace)
    PROVE  Named(places) \subseteq Issues
<1>1. \A n \in DOMAIN places : places[n] \in CardPlace
  OBVIOUS
<1>2. \A n \in DOMAIN places : places[n].issue \in Issues
  BY <1>1 DEF CardPlace
<1> QED BY <1>2 DEF Named

\* What no root leads to are issues in a cycle of parents; these may be roots, too.
PlacesOfMap(m, below, places) ==
    LET left == Issues \ Named(below)
    IN  /\ m.roots \in Seq(Issues) /\ Len(m.roots) <= MaxRoots
        /\ PlacesSound(places, Range(m.roots) \cup left)
        /\ Named(places) = Issues
        /\ \A i \in left : Parent[i] \in left

\* The issues in the places of the map, and the issues that may be roots of it.
LEMMA PlacesKnown ==
    ASSUME NEW ranked, IsRanking(ranked), NEW m, m = Merged(ranked),
           NEW below, below = Visit(m.roots, <<>>, m.moved, ranked),
           NEW places, places = Visit(ranked.order, below, m.moved, ranked)
    PROVE  PlacesOfMap(m, below, places)
<1> DEFINE G == Range(m.roots)
           U == Issues \ Named(below)
<1>1. /\ m.roots \in Seq(Issues) /\ Len(m.roots) <= MaxRoots /\ m.moved \in Seq(Move)
      /\ \A i \in Issues : Parent[i] \notin Issues => UnderRoot(i, m)
  BY MergedSound
<1>2. ranked.order \in Seq(Issues) /\ Range(ranked.order) = Issues
  BY DEF IsRanking
<1>3. PlacesSound(<<>>, G) /\ Named(<<>>) = {}
  <2>1. <<>> \in Seq(CardPlace) /\ DOMAIN <<>> = {}
    OBVIOUS
  <2> QED BY <2>1 DEF PlacesSound, Named
<1>4. /\ PlacesSound(below, G) /\ G \subseteq Named(below)
      /\ \A i \in Named(below) : ShownUnder(i, m.moved) \subseteq Named(below)
  <2>1. /\ PlacesSound(Visit(m.roots, <<>>, m.moved, ranked), G)
        /\ Named(<<>>) \cup Range(m.roots) \subseteq Named(Visit(m.roots, <<>>, m.moved, ranked))
        /\ \A i \in Named(Visit(m.roots, <<>>, m.moved, ranked)) :
              ShownUnder(i, m.moved) \subseteq Named(Visit(m.roots, <<>>, m.moved, ranked))
    BY <1>1, <1>3, VisitSound
  <2> QED BY <2>1
<1>5. Named(below) \subseteq Issues
  BY <1>4, NamedIssues DEF PlacesSound
<1>6. \A i \in Issues : Parent[i] \notin Issues => i \in Named(below)
  <2> SUFFICES ASSUME NEW i \in Issues, Parent[i] \notin Issues PROVE i \in Named(below)
    OBVIOUS
  <2>1. UnderRoot(i, m)
    BY <1>1
  <2>2. ASSUME NEW n \in DOMAIN m.moved, m.moved[n].parent \in Named(below)
        PROVE  m.moved[n].issue \in Named(below)
    <3>1. m.moved[n].issue \in ShownUnder(m.moved[n].parent, m.moved)
      <4>1. m.moved[n] \in Move
        BY <1>1
      <4> QED BY <4>1 DEF ShownUnder, Move
    <3> QED BY <1>4, <2>2, <3>1
  <2> QED BY <1>4, <2>1, <2>2 DEF UnderRoot
<1>7. \A i \in U : Parent[i] \in U
  <2> SUFFICES ASSUME NEW i \in U PROVE Parent[i] \in U
    OBVIOUS
  <2>1. i \in Issues /\ Parent[i] \in Issues
    BY <1>6
  <2>2. i \in ShownUnder(Parent[i], m.moved)
    BY <2>1 DEF ShownUnder
  <2> QED BY <1>4, <2>1, <2>2
<1>8. PlacesSound(below, G \cup U)
  <2>1. \A n \in DOMAIN below : WellPlaced(below[n], below, n - 1, G \cup U)
    BY <1>4 DEF PlacesSound, WellPlaced
  <2> QED BY <1>4, <2>1 DEF PlacesSound
<1>9. Range(ranked.order) \subseteq (G \cup U) \cup Named(below)
  BY <1>2
<1>10. /\ PlacesSound(places, G \cup U) /\ Issues \subseteq Named(places)
  <2>1. /\ PlacesSound(Visit(ranked.order, below, m.moved, ranked), G \cup U)
        /\ Named(below) \cup Range(ranked.order)
             \subseteq Named(Visit(ranked.order, below, m.moved, ranked))
    <3> HIDE DEF G, U
    <3> QED BY <1>1, <1>2, <1>4, <1>8, <1>9, VisitSound
  <2> QED BY <1>2, <2>1
<1>11. Named(places) \subseteq Issues
  BY <1>10, NamedIssues DEF PlacesSound
<1> QED BY <1>1, <1>7, <1>10, <1>11 DEF PlacesOfMap

\* A list that has every issue once is as long as there are issues.
LEMMA EachOnceCounted ==
    ASSUME NEW places \in Seq(CardPlace), Named(places) = Issues,
           \A m, n \in DOMAIN places : places[m].issue = places[n].issue => m = n
    PROVE  Len(places) = NIssues
<1> DEFINE L == Len(places)
           f == [n \in 1..L |-> places[n].issue]
<1>1. L \in Nat /\ DOMAIN places = 1..L /\ NIssues \in Nat
  BY AnalysisAssumption DEF AnalysisAssumption
<1>2. \A n \in 1..L : f[n] \in Issues
  BY <1>1 DEF Named
<1>3. \A i \in Issues : \E n \in 1..L : f[n] = i
  BY <1>1 DEF Named
<1>4. \A m, n \in 1..L : f[m] = f[n] => m = n
  BY <1>1
<1> HIDE DEF L
<1>5. f \in [1..L -> Issues] /\ f \in Injection(1..L, Issues) /\ f \in Surjection(1..L, Issues)
  <2>1. f \in [1..L -> Issues]
    <3>1. f = [n \in 1..L |-> f[n]]
      OBVIOUS
    <3> HIDE DEF f
    <3> QED BY <1>2, <3>1
  <2> HIDE DEF f
  <2> QED BY <1>3, <1>4, <2>1 DEF Injection, Surjection, IsInjective
<1> HIDE DEF f
<1>6. ExistsBijection(1..L, Issues)
  BY <1>5 DEF ExistsBijection, Bijection
<1>7. IsFiniteSet(1..L) /\ Cardinality(1..L) = L
  BY <1>1, FS_Interval
<1>8. Cardinality(Issues) = L
  BY <1>6, <1>7, FS_Bijection
<1>9. Cardinality(Issues) = NIssues
  BY <1>1, FS_Interval DEF Issues
<1> QED BY <1>8, <1>9 DEF L

\* Places that begin trees are no more than the names that may begin one.
LEMMA FewRoots ==
    ASSUME NEW roots \in Seq(Issues), NEW places \in Seq(CardPlace),
           NEW R \in SUBSET (DOMAIN places), \A n \in R : places[n].issue \in Range(roots),
           \A m, n \in DOMAIN places : places[m].issue = places[n].issue => m = n
    PROVE  Cardinality(R) <= Len(roots)
<1> DEFINE L == Len(roots)
           at == [n \in R |-> CHOOSE k \in 1..L : roots[k] = places[n].issue]
<1>1. L \in Nat /\ DOMAIN roots = 1..L
  OBVIOUS
<1>2. \A n \in R : \E k \in 1..L : roots[k] = places[n].issue
  BY <1>1 DEF Range
<1> HIDE DEF L
<1>3. \A n \in R : at[n] \in 1..L /\ roots[at[n]] = places[n].issue
  <2> SUFFICES ASSUME NEW n \in R PROVE at[n] \in 1..L /\ roots[at[n]] = places[n].issue
    OBVIOUS
  <2>1. at[n] = CHOOSE k \in 1..L : roots[k] = places[n].issue
    OBVIOUS
  <2> HIDE DEF at
  <2> QED BY <1>2, <2>1
<1>4. at \in [R -> 1..L]
  <2>1. at = [n \in R |-> at[n]]
    OBVIOUS
  <2> HIDE DEF at
  <2> QED BY <1>3, <2>1
<1> HIDE DEF at
<1>5. \A m, n \in R : at[m] = at[n] => m = n
  BY <1>3
<1>6. at \in Injection(R, 1..L)
  BY <1>4, <1>5 DEF Injection, IsInjective
<1>7. IsFiniteSet(1..L) /\ Cardinality(1..L) = L
  BY <1>1, FS_Interval
<1>8. Cardinality(R) <= Cardinality(1..L)
  BY <1>6, <1>7, FS_Injection
<1> QED BY <1>7, <1>8 DEF L

\* Cards of a forest, each below its parent's, with every issue once and few roots.
IsForest(cards) ==
    /\ {cards[n].issue : n \in DOMAIN cards} = Issues
    /\ Len(cards) = NIssues
    /\ \A n \in DOMAIN cards :
          IF cards[n].parent = NoParent THEN cards[n].depth = 0
          ELSE \E m \in 1..n - 1 : /\ cards[m].issue = cards[n].parent
                                   /\ cards[n].depth = cards[m].depth + 1
    /\ Cardinality({n \in DOMAIN cards : cards[n].parent = NoParent}) <= MaxRoots \/ ParentsCycle

\* The map of any ranking is a forest that has every issue once.
LEMMA CardsSound ==
    ASSUME NEW ranked, IsRanking(ranked), NEW chain, NEW debate,
           NEW cards, cards = IssueCards(ranked, chain, debate)
    PROVE  IsForest(cards)
<1> DEFINE merged == Merged(ranked)
           below == Visit(merged.roots, <<>>, merged.moved, ranked)
           places == Visit(ranked.order, below, merged.moved, ranked)
           U == Issues \ Named(below)
           G == Range(merged.roots) \cup U
           L == Len(places)
           R == {n \in DOMAIN places : places[n].parent = NoParent}
<1>1. cards = [n \in DOMAIN places |-> MapCard(places[n], ranked, chain, debate)]
  BY DEF IssueCards, Orphans
<1>2. /\ merged.roots \in Seq(Issues) /\ Len(merged.roots) <= MaxRoots
      /\ PlacesSound(places, G) /\ Named(places) = Issues /\ \A i \in U : Parent[i] \in U
  <2> HIDE DEF U
  <2>1. merged = Merged(ranked)
    OBVIOUS
  <2> HIDE DEF merged
  <2>2. below = Visit(merged.roots, <<>>, merged.moved, ranked)
    OBVIOUS
  <2> HIDE DEF below
  <2>3. places = Visit(ranked.order, below, merged.moved, ranked)
    OBVIOUS
  <2> HIDE DEF places
  <2>4. PlacesOfMap(merged, below, places)
    BY <2>1, <2>2, <2>3, PlacesKnown
  <2> QED BY <2>4 DEF PlacesOfMap, U
<1> HIDE DEF merged, below, places
<1>3. /\ places \in Seq(CardPlace)
      /\ \A m, n \in DOMAIN places : places[m].issue = places[n].issue => m = n
      /\ \A n \in DOMAIN places : WellPlaced(places[n], places, n - 1, G)
  BY <1>2 DEF PlacesSound
<1>4. L \in Nat /\ DOMAIN places = 1..L
  BY <1>3
<1>5. /\ DOMAIN cards = DOMAIN places
      /\ \A n \in DOMAIN places : /\ cards[n].issue = places[n].issue
                                  /\ cards[n].parent = places[n].parent
                                  /\ cards[n].depth = places[n].depth
  BY <1>1 DEF MapCard
<1>6. Len(cards) = L
  BY <1>1, <1>4
<1>7. L = NIssues
  BY <1>2, <1>3, EachOnceCounted
<1> HIDE DEF L, U
<1>8. {cards[n].issue : n \in DOMAIN cards} = Issues
  BY <1>2, <1>5 DEF Named
<1>9. ASSUME NEW n \in DOMAIN cards
      PROVE  IF cards[n].parent = NoParent THEN cards[n].depth = 0
             ELSE \E m \in 1..n - 1 : /\ cards[m].issue = cards[n].parent
                                      /\ cards[n].depth = cards[m].depth + 1
  <2>1. WellPlaced(places[n], places, n - 1, G)
    BY <1>3, <1>5
  <2>2. n \in DOMAIN places /\ \A m \in 1..n - 1 : m \in DOMAIN places
    BY <1>4, <1>5
  <2>3. CASE cards[n].parent = NoParent
    BY <1>5, <2>1, <2>2, <2>3 DEF WellPlaced
  <2>4. CASE cards[n].parent # NoParent
    <3>1. PICK m \in 1..n - 1 : /\ places[m].issue = places[n].parent
                                /\ places[n].depth = places[m].depth + 1
      BY <1>5, <2>1, <2>2, <2>4 DEF WellPlaced
    <3> QED BY <1>5, <2>2, <2>4, <3>1
  <2> QED BY <2>3, <2>4
<1>10. CASE U # {}
  <2>1. U \in SUBSET Issues
    BY DEF U
  <2>2. ParentsCycle
    BY <1>2, <1>10, <2>1 DEF ParentsCycle
  <2> QED BY <1>6, <1>7, <1>8, <1>9, <2>2 DEF IsForest
<1>11. CASE U = {}
  <2>1. {n \in DOMAIN cards : cards[n].parent = NoParent} = R
    BY <1>5
  <2>2. R \in SUBSET (DOMAIN places)
    OBVIOUS
  <2>3. \A n \in R : places[n].issue \in Range(merged.roots)
    BY <1>3, <1>11 DEF WellPlaced
  <2> HIDE DEF R
  <2>4. Cardinality(R) <= Len(merged.roots)
    BY <1>2, <1>3, <2>2, <2>3, FewRoots
  <2>5. Cardinality(R) \in Nat /\ MaxRoots \in Nat /\ Len(merged.roots) \in Nat
    <3>1. IsFiniteSet(1..L)
      BY <1>4, FS_Interval DEF L
    <3>2. R \in SUBSET (1..L)
      BY <1>4, <2>2 DEF L
    <3>3. IsFiniteSet(R)
      BY <3>1, <3>2, FS_Subset
    <3>4. Cardinality(R) \in Nat
      BY <3>3, FS_CardinalityType
    <3>5. MaxRoots \in Nat
      BY MapAssumption DEF MapAssumption
    <3>6. Len(merged.roots) \in Nat
      BY <1>2
    <3> QED BY <3>4, <3>5, <3>6
  <2>6. Cardinality(R) <= MaxRoots
    BY <1>2, <2>4, <2>5
  <2> QED BY <1>6, <1>7, <1>8, <1>9, <2>1, <2>6 DEF IsForest
<1> QED BY <1>10, <1>11

----------------------------------------------------------------------------
\* The report that has just been built is the one of the process's perspective.
LEMMA BuiltIsReport ==
    ASSUME FilesInv, Built
    PROVE  /\ input \in Inputs /\ report = Report(input, perspective)
           /\ IsRanking(input.ranked) /\ IsDecisionPathTree(input.tree)
<1>1. input \in Inputs /\ report = Report(input, perspective)
  BY DEF FilesInv, StageSound, ReportSound, Built
<1> QED BY <1>1, CaseReportAssumption DEF CaseReportAssumption

\* The issue map of every report is a forest that has every issue once, and it has few
\* roots unless there is a cycle of parents.
THEOREM MapIsForestHolds == Spec => []MapIsForest
<1>1. FilesInv => MapIsForest
  <2> SUFFICES ASSUME FilesInv, Built PROVE MapIsForest
    BY DEF MapIsForest
  <2> DEFINE cards == report.core.issues
  <2>1. report = Report(input, perspective) /\ IsRanking(input.ranked)
    BY BuiltIsReport
  <2>2. cards = IssueCards(input.ranked, input.chain, input.debate)
    BY <2>1 DEF Report, Core
  <2> HIDE DEF cards
  <2>3. IsForest(cards)
    BY <2>1, <2>2, CardsSound
  <2> QED BY <2>3 DEF MapIsForest, IsForest, cards
<1> QED BY <1>1, AlwaysFiles, PTL

\* No process raises for a report that can be repaired.
THEOREM RepairableIsWrittenHolds == Spec => []RepairableIsWritten
<1>1. FilesInv => RepairableIsWritten
  <2> SUFFICES ASSUME FilesInv, stage = "raised", Repairable
               PROVE  perspective = "judge" /\ ckpt = "debate"
    BY DEF RepairableIsWritten
  <2> USE DEF FilesInv
  <2>1. ckpt = "debate" /\ (perspective = "judge"
          \/ (perspective \in Reportable /\ Refused(Report(input, perspective))))
    BY DEF RaisedSound
  <2>2. input \in Inputs
    BY DEF StageSound
  <2>3. ASSUME NEW p \in Reportable PROVE ~Refused(Report(input, p))
    <3>1. IsRanking(input.ranked)
      BY <2>2, CaseReportAssumption DEF CaseReportAssumption
    <3>2. Report(input, p).core.issues = IssueCards(input.ranked, input.chain, input.debate)
      BY DEF Report, Core
    <3>6. IsForest(Report(input, p).core.issues)
      BY <3>1, <3>2, CardsSound
    <3>3. {Report(input, p).core.issues[n].issue : n \in DOMAIN Report(input, p).core.issues} = Issues
      BY <3>6 DEF IsForest
    <3>4. Issues # {}
      BY DEF Repairable
    <3>5. Report(input, p).core.issues # <<>>
      <4> DEFINE cards == Report(input, p).core.issues
      <4>1. {cards[n].issue : n \in DOMAIN cards} = Issues
        BY <3>3
      <4> HIDE DEF cards
      <4>2. DOMAIN cards # {}
        BY <3>4, <4>1
      <4>3. DOMAIN <<>> = {}
        OBVIOUS
      <4>4. cards # <<>>
        BY <4>2, <4>3
      <4> QED BY <4>4 DEF cards
    <3> QED BY <2>2, <3>5, RepairableAccepted
  <2> QED BY <2>1, <2>3
<1> QED BY <1>1, AlwaysFiles, PTL

----------------------------------------------------------------------------
(* The scenario tree *)

\* Some paths of P, and the numbers from F on of the nodes that ask for them.
IsStretch(p, P, F) ==
    /\ p = Stretch(p.from, p.upto, p.first)
    /\ p.from \in 1..P /\ p.upto \in 1..P /\ p.from <= p.upto
    /\ p.first \in Nat /\ F <= p.first /\ p.first + (p.upto - p.from) < F + P

Numbers(p) == p.first..(p.first + (p.upto - p.from))

\* The calls that a call makes.
Halves(p) == {half \in {Before(p), After(p)} : Some(half)}

\* A half is shorter, inside, and its numbers come later.
HalfOf(h, p, P, F) ==
    /\ IsStretch(h, P, F)
    /\ h.upto - h.from < p.upto - p.from
    /\ h.first > p.first /\ Numbers(h) \subseteq Numbers(p)

\* A node and the two halves have every number and every path of a stretch.
Halved(p, P, F) ==
    /\ p.first \in Numbers(p) /\ Middle(p) \in p.from..p.upto
    /\ \A h \in Halves(p) : HalfOf(h, p, P, F)
    /\ \A x \in Numbers(p) : x = p.first \/ \E h \in Halves(p) : x \in Numbers(h)
    /\ \A k \in p.from..p.upto : k = Middle(p) \/ \E h \in Halves(p) : k \in h.from..h.upto
    /\ \A g, h \in Halves(p) : Numbers(g) \cap Numbers(h) # {} => g = h
    /\ Some(Before(p)) /\ Some(After(p)) => Before(p).first # After(p).first

\* The middle path and the halves make up the stretch.
LEMMA StretchHalved ==
    ASSUME NEW P \in Nat, NEW F \in Nat, NEW p, IsStretch(p, P, F)
    PROVE  Halved(p, P, F)
<1> DEFINE a == p.from
           z == p.upto
           f == p.first
           m == Middle(p)
           b == Before(p)
           c == After(p)
<1>1. a \in 1..P /\ z \in 1..P /\ a <= z /\ f \in Nat /\ F <= f /\ f + (z - a) < F + P
  BY DEF IsStretch
<1>2. m \in a..z
  <2>1. m = a + (z - a + 1) \div 2
    BY DEF Middle
  <2>2. ASSUME NEW k \in Nat, k > 0 PROVE k \div 2 \in Nat /\ k \div 2 < k
    BY <2>2
  <2>3. z - a + 1 \in Nat /\ z - a + 1 > 0
    BY <1>1
  <2> HIDE DEF a, z, m
  <2>4. (z - a + 1) \div 2 \in Nat /\ (z - a + 1) \div 2 < z - a + 1
    BY <2>2, <2>3
  <2> QED BY <1>1, <2>1, <2>4
<1>3. b = Stretch(a, m - 1, f + 1) /\ c = Stretch(m + 1, z, f + 1 + m - a)
  BY DEF Before, After
<1> HIDE DEF a, z, f, m, b, c
<1>4. /\ b.from = a /\ b.upto = m - 1 /\ b.first = f + 1 /\ (Some(b) <=> a <= m - 1)
      /\ b = Stretch(b.from, b.upto, b.first)
  BY <1>3 DEF Stretch, Some
<1>5. /\ c.from = m + 1 /\ c.upto = z /\ c.first = f + 1 + m - a /\ (Some(c) <=> m + 1 <= z)
      /\ c = Stretch(c.from, c.upto, c.first)
  BY <1>3 DEF Stretch, Some
<1>6. Numbers(p) = f..f + (z - a)
  BY DEF Numbers, f, a, z
<1>7. Numbers(b) = (f + 1)..(f + 1 + (m - 1 - a)) /\ Numbers(c) = (f + 1 + m - a)..(f + 1 + m - a + (z - (m + 1)))
  BY <1>4, <1>5 DEF Numbers
<1>8. Halves(p) = {h \in {b, c} : Some(h)}
  BY DEF Halves, b, c
<1>9. Some(b) => HalfOf(b, p, P, F)
  <2> SUFFICES ASSUME Some(b) PROVE HalfOf(b, p, P, F)
    OBVIOUS
  <2>1. IsStretch(b, P, F)
    <3>1. /\ a \in 1..P /\ m - 1 \in 1..P /\ a <= m - 1 /\ f + 1 \in Nat /\ F <= f + 1
          /\ f + 1 + (m - 1 - a) < F + P
      BY <1>1, <1>2, <1>4
    <3> QED BY <1>4, <3>1 DEF IsStretch
  <2>2. b.upto - b.from < z - a /\ b.first > f
    BY <1>1, <1>2, <1>4
  <2>3. Numbers(b) \subseteq Numbers(p)
    BY <1>1, <1>2, <1>6, <1>7
  <2> QED BY <2>1, <2>2, <2>3 DEF HalfOf, a, z, f
<1>10. Some(c) => HalfOf(c, p, P, F)
  <2> SUFFICES ASSUME Some(c) PROVE HalfOf(c, p, P, F)
    OBVIOUS
  <2>1. IsStretch(c, P, F)
    <3>1. /\ m + 1 \in 1..P /\ z \in 1..P /\ m + 1 <= z /\ f + 1 + m - a \in Nat
          /\ F <= f + 1 + m - a /\ f + 1 + m - a + (z - (m + 1)) < F + P
      BY <1>1, <1>2, <1>5
    <3> QED BY <1>5, <3>1 DEF IsStretch
  <2>2. c.upto - c.from < z - a /\ c.first > f
    BY <1>1, <1>2, <1>5
  <2>3. Numbers(c) \subseteq Numbers(p)
    BY <1>1, <1>2, <1>6, <1>7
  <2> QED BY <2>1, <2>2, <2>3 DEF HalfOf, a, z, f
<1>11. f \in Numbers(p)
  BY <1>1, <1>6
<1>12. ASSUME NEW x \in Numbers(p), x # f PROVE \E h \in Halves(p) : x \in Numbers(h)
  <2>1. CASE x <= f + (m - a)
    <3>1. a <= m - 1 /\ x \in Numbers(b)
      BY <1>1, <1>2, <1>6, <1>7, <1>12, <2>1
    <3> QED BY <1>4, <1>8, <3>1
  <2>2. CASE ~(x <= f + (m - a))
    <3>1. m + 1 <= z /\ x \in Numbers(c)
      BY <1>1, <1>2, <1>6, <1>7, <1>12, <2>2
    <3> QED BY <1>5, <1>8, <3>1
  <2> QED BY <2>1, <2>2
<1>13. ASSUME NEW k \in a..z, k # m PROVE \E h \in Halves(p) : k \in h.from..h.upto
  <2>1. CASE k < m
    <3>1. a <= m - 1 /\ k \in b.from..b.upto
      BY <1>1, <1>2, <1>4, <2>1
    <3> QED BY <1>4, <1>8, <3>1
  <2>2. CASE ~(k < m)
    <3>1. m + 1 <= z /\ k \in c.from..c.upto
      BY <1>1, <1>2, <1>5, <1>13, <2>2
    <3> QED BY <1>5, <1>8, <3>1
  <2> QED BY <2>1, <2>2
<1>14. Numbers(b) \cap Numbers(c) = {}
  BY <1>1, <1>2, <1>7
<1>15. \A g, h \in Halves(p) : Numbers(g) \cap Numbers(h) # {} => g = h
  BY <1>8, <1>14
<1>16. Some(b) => b.first # c.first
  BY <1>1, <1>2, <1>4, <1>5
<1> QED BY <1>2, <1>8, <1>9, <1>10, <1>11, <1>12, <1>13, <1>15, <1>16 DEF Halved, a, z, f, m, b, c

----------------------------------------------------------------------------
\* The calls after some rounds: every number and every path has its node or waits in one
\* open stretch; a node is no half, or the half of one node.
CallsInv(s, P, F) ==
    /\ \A p \in s.done \cup s.open : IsStretch(p, P, F)
    /\ \A p \in s.done \cup s.open : p.first = F \/ \E q \in s.done : p \in Halves(q)
    /\ \A q \in s.done : Halves(q) \subseteq s.done \cup s.open
    /\ \A p, q \in s.done : p.first = q.first => p = q
    /\ \A p \in s.done, q \in s.open : p.first \notin Numbers(q)
    /\ \A p, q \in s.open : Numbers(p) \cap Numbers(q) # {} => p = q
    /\ \A q, r \in s.done : \A g \in Halves(q), h \in Halves(r) : g.first = h.first => q = r
    /\ \A x \in F..(F + P - 1) : (\E p \in s.done : p.first = x) \/ \E p \in s.open : x \in Numbers(p)
    /\ \A k \in 1..P : (\E p \in s.done : Middle(p) = k) \/ \E p \in s.open : k \in p.from..p.upto

\* A round keeps this, and its stretches get shorter.
LEMMA SplitSound ==
    ASSUME NEW P \in Nat, NEW F \in Nat, NEW s, CallsInv(s, P, F),
           NEW N \in Int, \A p \in s.open : p.upto - p.from < N,
           NEW t, t = Split(s)
    PROVE  CallsInv(t, P, F) /\ \A p \in t.open : p.upto - p.from < N - 1
<1>1. /\ t.done = s.done \cup s.open
      /\ t.open = {half \in UNION {{Before(p), After(p)} : p \in s.open} : Some(half)}
  BY DEF Split
<1>2. \A h : h \in t.open <=> \E p \in s.open : h \in Halves(p)
  BY <1>1 DEF Halves
<1>3. \A p \in s.done \cup s.open : IsStretch(p, P, F) /\ Halved(p, P, F)
  BY StretchHalved DEF CallsInv
<1>4. ASSUME NEW p \in s.done \cup s.open, NEW h \in Halves(p)
      PROVE  /\ IsStretch(h, P, F) /\ h.upto - h.from < p.upto - p.from /\ h.first > p.first
             /\ Numbers(h) \subseteq Numbers(p) /\ h.first \in Numbers(h)
  <2>1. HalfOf(h, p, P, F)
    BY <1>3, <1>4 DEF Halved
  <2>2. IsStretch(h, P, F)
    BY <2>1 DEF HalfOf
  <2>3. h.first \in Numbers(h)
    BY <2>2, StretchHalved DEF Halved
  <2> QED BY <2>1, <2>3 DEF HalfOf
<1>5. \A p \in s.done \cup s.open : p.first \in Numbers(p) /\ p.first \in Nat
  BY <1>3 DEF Halved, IsStretch
<1>6. \A p \in t.done \cup t.open : IsStretch(p, P, F)
  BY <1>1, <1>2, <1>3, <1>4
<1>7. \A p \in t.done \cup t.open : p.first = F \/ \E q \in t.done : p \in Halves(q)
  <2>1. \A p \in s.done \cup s.open : p.first = F \/ \E q \in s.done : p \in Halves(q)
    BY DEF CallsInv
  <2> QED BY <1>1, <1>2, <2>1
<1>8. \A q \in t.done : Halves(q) \subseteq t.done \cup t.open
  <2>1. \A q \in s.done : Halves(q) \subseteq s.done \cup s.open
    BY DEF CallsInv
  <2> QED BY <1>1, <1>2, <2>1
<1>9. ASSUME NEW p \in t.done, NEW q \in t.done, p.first = q.first PROVE p = q
  <2>1. CASE p \in s.done /\ q \in s.done
    BY <1>9, <2>1 DEF CallsInv
  <2>2. CASE p \in s.open /\ q \in s.open
    <3>1. p.first \in Numbers(p) \cap Numbers(q)
      BY <1>5, <1>9, <2>2
    <3> QED BY <2>2, <3>1 DEF CallsInv
  <2>3. \A u \in s.done, v \in s.open : u.first # v.first
    BY <1>5 DEF CallsInv
  <2> QED BY <1>1, <1>9, <2>1, <2>2, <2>3
<1>10. ASSUME NEW p \in t.done, NEW h \in t.open PROVE p.first \notin Numbers(h)
  <2>1. PICK q \in s.open : h \in Halves(q)
    BY <1>2
  <2>2. Numbers(h) \subseteq Numbers(q) /\ h.first > q.first /\ IsStretch(h, P, F)
    BY <1>4, <2>1
  <2>3. CASE p \in s.done
    BY <2>1, <2>2, <2>3 DEF CallsInv
  <2>4. CASE p \in s.open /\ p # q
    <3>1. Numbers(p) \cap Numbers(q) = {}
      BY <2>1, <2>4 DEF CallsInv
    <3> QED BY <1>5, <2>2, <2>4, <3>1
  <2>5. CASE p = q
    <3>1. \A x \in Numbers(h) : x >= h.first
      BY <2>2 DEF Numbers, IsStretch
    <3>2. ~(q.first >= h.first)
      BY <1>5, <2>1, <2>2 DEF IsStretch
    <3> QED BY <2>5, <3>1, <3>2
  <2> QED BY <1>1, <2>3, <2>4, <2>5
<1>11. ASSUME NEW g \in t.open, NEW h \in t.open, Numbers(g) \cap Numbers(h) # {} PROVE g = h
  <2>1. PICK p \in s.open, q \in s.open : g \in Halves(p) /\ h \in Halves(q)
    BY <1>2
  <2>2. Numbers(g) \subseteq Numbers(p) /\ Numbers(h) \subseteq Numbers(q)
    BY <1>4, <2>1
  <2>3. p = q
    <3>1. Numbers(p) \cap Numbers(q) # {}
      BY <1>11, <2>2
    <3> QED BY <3>1 DEF CallsInv
  <2> QED BY <1>3, <1>11, <2>1, <2>3 DEF Halved
<1>12. ASSUME NEW q \in t.done, NEW r \in t.done, NEW g \in Halves(q), NEW h \in Halves(r),
              g.first = h.first
       PROVE  q = r
  <2>1. CASE q \in s.done /\ r \in s.done
    BY <1>12, <2>1 DEF CallsInv
  <2>2. CASE q \in s.open /\ r \in s.open
    <3>1. g.first \in Numbers(q) /\ h.first \in Numbers(r)
      BY <1>4, <2>2
    <3>2. Numbers(q) \cap Numbers(r) # {}
      BY <1>12, <3>1
    <3> QED BY <2>2, <3>2 DEF CallsInv
  \* What a node made is done or open before the stretch of the other is halved.
  <2>3. ASSUME NEW u \in s.done, NEW v \in s.open, NEW i \in Halves(u), NEW j \in Halves(v)
        PROVE  i.first # j.first
    <3> SUFFICES ASSUME i.first = j.first PROVE FALSE
      OBVIOUS
    <3>1. j.first \in Numbers(v) /\ j.first > v.first /\ i.first \in Numbers(i)
      BY <1>4
    <3>2. i \in s.done \cup s.open
      BY DEF CallsInv
    <3>3. CASE i \in s.done
      BY <3>1, <3>3 DEF CallsInv
    <3>4. CASE i \in s.open
      <4>1. Numbers(i) \cap Numbers(v) # {}
        BY <3>1
      <4>2. i = v
        BY <3>4, <4>1 DEF CallsInv
      <4>3. v.first \in Nat
        BY <1>5
      <4> QED BY <3>1, <4>2, <4>3
    <3> QED BY <3>2, <3>3, <3>4
  <2> QED BY <1>1, <1>12, <2>1, <2>2, <2>3
<1>13. ASSUME NEW x \in F..(F + P - 1)
       PROVE  (\E p \in t.done : p.first = x) \/ \E p \in t.open : x \in Numbers(p)
  <2>1. CASE \E p \in s.done : p.first = x
    BY <1>1, <2>1
  <2>2. CASE \E p \in s.open : x \in Numbers(p)
    <3>1. PICK p \in s.open : x \in Numbers(p)
      BY <2>2
    <3>2. x = p.first \/ \E h \in Halves(p) : x \in Numbers(h)
      BY <1>3, <3>1 DEF Halved
    <3> QED BY <1>1, <1>2, <3>2
  <2>3. (\E p \in s.done : p.first = x) \/ \E p \in s.open : x \in Numbers(p)
    BY DEF CallsInv
  <2> QED BY <2>1, <2>2, <2>3
<1>14. ASSUME NEW k \in 1..P
       PROVE  (\E p \in t.done : Middle(p) = k) \/ \E p \in t.open : k \in p.from..p.upto
  <2>1. CASE \E p \in s.done : Middle(p) = k
    BY <1>1, <2>1
  <2>2. CASE \E p \in s.open : k \in p.from..p.upto
    <3>1. PICK p \in s.open : k \in p.from..p.upto
      BY <2>2
    <3>2. k = Middle(p) \/ \E h \in Halves(p) : k \in h.from..h.upto
      BY <1>3, <3>1 DEF Halved
    <3> QED BY <1>1, <1>2, <3>2
  <2>3. (\E p \in s.done : Middle(p) = k) \/ \E p \in s.open : k \in p.from..p.upto
    BY DEF CallsInv
  <2> QED BY <2>1, <2>2, <2>3
<1>15. ASSUME NEW h \in t.open PROVE h.upto - h.from < N - 1
  <2>1. PICK p \in s.open : h \in Halves(p)
    BY <1>2
  <2>2. h.upto - h.from < p.upto - p.from /\ p.upto - p.from < N
    BY <1>4, <2>1
  <2>3. p.upto - p.from \in Int /\ h.upto - h.from \in Int
    BY <1>3, <1>6, <2>1 DEF IsStretch
  <2> QED BY <2>2, <2>3
<1>16. CallsInv(t, P, F)
  BY <1>6, <1>7, <1>8, <1>9, <1>10, <1>11, <1>12, <1>13, <1>14 DEF CallsInv
<1> QED BY <1>15, <1>16

----------------------------------------------------------------------------
\* The rounds of the calls up to round N.
Rounds(start, N, f) == f = [n \in 0..N |-> IF n = 0 THEN start ELSE Split(f[n - 1])]

\* There are any number of rounds.
LEMMA RoundsExist ==
    ASSUME NEW start, NEW N \in Nat
    PROVE  \E f : Rounds(start, N, f)
<1> DEFINE Without == {m \in Nat : ~ \E f : Rounds(start, m, f)}
<1> SUFFICES ASSUME Without # {} PROVE FALSE
  OBVIOUS
<1>1. PICK m \in Without : \A k \in Without : m <= k
  <2>1. Without \in SUBSET Nat
    OBVIOUS
  <2> HIDE DEF Without
  <2> QED BY <2>1, LeastNumber
<1>2. m \in Nat /\ ~ \E f : Rounds(start, m, f)
  OBVIOUS
<1>3. CASE m = 0
  <2> DEFINE f == [n \in 0..0 |-> start]
  <2>1. f = [n \in 0..0 |-> IF n = 0 THEN start ELSE Split(f[n - 1])]
    OBVIOUS
  <2>2. Rounds(start, 0, f)
    BY <2>1 DEF Rounds
  <2> QED BY <1>2, <1>3, <2>2
<1>4. CASE m > 0
  <2>1. m - 1 \in Nat /\ m - 1 < m
    BY <1>2, <1>4
  <2>2. PICK g : Rounds(start, m - 1, g)
    BY <1>1, <1>2, <2>1
  <2> DEFINE f == [n \in 0..m |-> IF n = m THEN Split(g[m - 1]) ELSE g[n]]
  <2>3. \A n \in 0..(m - 1) : g[n] = IF n = 0 THEN start ELSE Split(g[n - 1])
    BY <2>2 DEF Rounds
  <2>4. \A n \in 0..m : f[n] = IF n = 0 THEN start ELSE Split(f[n - 1])
    <3> SUFFICES ASSUME NEW n \in 0..m PROVE f[n] = IF n = 0 THEN start ELSE Split(f[n - 1])
      OBVIOUS
    <3>1. CASE n = 0
      BY <1>2, <1>4, <2>3, <3>1
    <3>2. CASE n > 0 /\ n < m
      <4>1. n \in 0..(m - 1) /\ n - 1 \in 0..m /\ n - 1 # m /\ n # 0 /\ n # m
        BY <1>2, <3>2
      <4>2. f[n] = g[n] /\ f[n - 1] = g[n - 1]
        BY <4>1
      <4> HIDE DEF f
      <4> QED BY <2>3, <4>1, <4>2
    <3>3. CASE n = m
      <4>1. m - 1 \in 0..m /\ m - 1 # m /\ n # 0
        BY <1>2, <1>4, <3>3
      <4>2. f[n] = Split(g[m - 1]) /\ f[n - 1] = g[m - 1]
        BY <3>3, <4>1
      <4> HIDE DEF f
      <4> QED BY <4>1, <4>2
    <3> QED BY <1>2, <3>1, <3>2, <3>3
  <2>5. f = [n \in 0..m |-> IF n = 0 THEN start ELSE Split(f[n - 1])]
    <3>1. f = [n \in 0..m |-> f[n]]
      OBVIOUS
    <3> HIDE DEF f
    <3> QED BY <2>4, <3>1
  <2> HIDE DEF f
  <2>6. Rounds(start, m, f)
    BY <2>5 DEF Rounds
  <2> QED BY <1>2, <2>6
<1> QED BY <1>2, <1>3, <1>4

\* What the nodes of the paths are: one for each number and for each path, and each but
\* the first is the half of one other.
Tiled(all, P, F) ==
    /\ \A p \in all : IsStretch(p, P, F) /\ Halved(p, P, F)
    /\ \A p \in all : p.first = F \/ \E q \in all : p \in Halves(q)
    /\ \A q \in all : Halves(q) \subseteq all
    /\ \A p, q \in all : p.first = q.first => p = q
    /\ \A q, r \in all : \A g \in Halves(q), h \in Halves(r) : g.first = h.first => q = r
    /\ \A x \in F..(F + P - 1) : \E p \in all : p.first = x
    /\ \A k \in 1..P : \E p \in all : Middle(p) = k

\* The calls all come to their end, and make such nodes.
LEMMA StretchesTile ==
    ASSUME NEW paths, Len(paths) \in Nat, NEW F \in Nat
    PROVE  Tiled(Stretches(paths, F), Len(paths), F)
<1> DEFINE P == Len(paths)
           whole == Stretch(1, P, F)
           start == [done |-> {}, open |-> {p \in {whole} : Some(p)}]
           state[n \in 0..P] == IF n = 0 THEN start ELSE Split(state[n - 1])
<1>1. P \in Nat
  OBVIOUS
<1>2. state = CHOOSE f : f = [n \in 0..P |-> IF n = 0 THEN start ELSE Split(f[n - 1])]
  BY DEF state
<1>3. Stretches(paths, F) = state[P].done
  BY DEF Stretches
<1> HIDE DEF state, P
<1>4. CallsInv(start, P, F) /\ \A p \in start.open : p.upto - p.from < P
  <2>1. whole.from = 1 /\ whole.upto = P /\ whole.first = F /\ (Some(whole) <=> P >= 1)
        /\ whole = Stretch(whole.from, whole.upto, whole.first)
    BY DEF Stretch, Some
  <2> HIDE DEF whole
  <2>2. start.done = {} /\ start.open = IF P >= 1 THEN {whole} ELSE {}
    BY <2>1
  <2> HIDE DEF start
  <2>3. P >= 1 => IsStretch(whole, P, F)
    BY <1>1, <2>1 DEF IsStretch
  <2>4. Numbers(whole) = F..(F + P - 1)
    BY <1>1, <2>1 DEF Numbers
  <2>5. \A x \in F..(F + P - 1) : P >= 1
    BY <1>1
  <2>6. \A k \in 1..P : P >= 1 /\ k \in whole.from..whole.upto
    BY <1>1, <2>1
  <2>7. CallsInv(start, P, F)
    BY <2>1, <2>2, <2>3, <2>4, <2>5, <2>6 DEF CallsInv
  <2>8. \A p \in start.open : p.upto - p.from < P
    BY <1>1, <2>1, <2>2
  <2> QED BY <2>7, <2>8
<1> HIDE DEF start
<1>5. PICK g : Rounds(start, P, g)
  BY <1>1, RoundsExist
<1>6. Rounds(start, P, state)
  BY <1>2, <1>5 DEF Rounds
<1>7. \A n \in 0..P : state[n] = IF n = 0 THEN start ELSE Split(state[n - 1])
  BY <1>6 DEF Rounds
<1> DEFINE Good(n) == /\ CallsInv(state[n], P, F)
                      /\ \A p \in state[n].open : p.upto - p.from < P - n
           Bad == {n \in 0..P : ~Good(n)}
<1>8. Good(0)
  <2>1. state[0] = start
    BY <1>1, <1>7
  <2>2. P - 0 = P
    BY <1>1
  <2> QED BY <1>4, <2>1, <2>2
<1>9. ASSUME NEW n \in 1..P, Good(n - 1) PROVE Good(n)
  <2> DEFINE s == state[n - 1]
             t == state[n]
             N == P - (n - 1)
  <2>1. t = Split(s) /\ N \in Int /\ N - 1 = P - n
    BY <1>1, <1>7
  <2>2. CallsInv(s, P, F) /\ \A p \in s.open : p.upto - p.from < N
    BY <1>9
  <2> HIDE DEF s, t, N
  <2>3. CallsInv(t, P, F) /\ \A p \in t.open : p.upto - p.from < N - 1
    BY <1>1, <2>1, <2>2, SplitSound
  <2> QED BY <2>1, <2>3 DEF t
<1> HIDE DEF Good
<1>10. Good(P)
  <2> SUFFICES ASSUME Bad # {} PROVE FALSE
    BY <1>1
  <2>1. PICK n \in Bad : \A k \in Bad : n <= k
    <3>1. Bad \in SUBSET Nat
      BY <1>1
    <3> HIDE DEF Bad
    <3> QED BY <3>1, LeastNumber
  <2>2. n \in 0..P /\ ~Good(n)
    OBVIOUS
  <2>3. n # 0
    BY <1>8, <2>2
  <2>4. n \in 1..P /\ n - 1 \in 0..P /\ ~(n <= n - 1)
    BY <1>1, <2>2, <2>3
  <2>5. Good(n - 1)
    BY <2>1, <2>4
  <2> QED BY <1>9, <2>2, <2>4, <2>5
<1> DEFINE s == state[P]
<1>11. CallsInv(s, P, F) /\ \A p \in s.open : p.upto - p.from < P - P
  BY <1>10 DEF Good
<1> HIDE DEF s
<1>12. s.open = {}
  <2> SUFFICES ASSUME NEW p \in s.open PROVE FALSE
    OBVIOUS
  <2>1. p.from \in 1..P /\ p.upto \in 1..P /\ p.from <= p.upto
    BY <1>11 DEF CallsInv, IsStretch
  <2>2. p.upto - p.from < P - P
    BY <1>11
  <2> QED BY <1>1, <2>1, <2>2
<1>13. \A p \in s.done : IsStretch(p, P, F) /\ Halved(p, P, F)
  BY <1>1, <1>11, StretchHalved DEF CallsInv
<1>14. Tiled(s.done, P, F)
  BY <1>11, <1>12, <1>13 DEF CallsInv, Tiled
<1> QED BY <1>3, <1>14 DEF s, P

----------------------------------------------------------------------------
\* Every question but the first follows one that comes before it, each condition and
\* each path is asked for.
IsTree(scenario, tree) ==
    /\ DOMAIN scenario = 1..(Len(tree.blocking) + Len(tree.paths))
    /\ \A n \in DOMAIN scenario :
          LET before == {m \in DOMAIN scenario : n \in Following(scenario, m)}
          IN  /\ n # 1 => \E m \in DOMAIN scenario : before = {m}
              /\ \A m \in before : m < n
              /\ scenario[n].yes[1] = "question" => scenario[n].yes # scenario[n].no
    /\ \A k \in DOMAIN tree.paths : \E n \in DOMAIN scenario :
          scenario[n].about = <<"path", tree.paths[k].id>>

\* Questions and outcomes are told apart.
LEMMA AnswersApart ==
    /\ \A m, n : Question(m) = Question(n) => m = n
    /\ \A n, what : Question(n) # Outcome(what)
    /\ \A n : Question(n)[1] = "question"
    /\ \A what : Outcome(what)[1] # "question"
BY DEF Question, Outcome

\* The decision paths as a tree of questions, whatever they and the conditions are.
LEMMA ScenarioSound ==
    ASSUME NEW tree, IsDecisionPathTree(tree), NEW scenario, scenario = Scenario(tree)
    PROVE  IsTree(scenario, tree)
<1> DEFINE B == Len(tree.blocking)
           P == Len(tree.paths)
           F == B + 1
           all == Stretches(tree.paths, F)
           firsts == {s.first : s \in all}
           N == B + P
           at(n) == CHOOSE s \in all : s.first = n
<1>1. B \in Nat /\ P \in Nat /\ F \in Nat /\ DOMAIN tree.paths = 1..P /\ (tree.paths # <<>> <=> P > 0)
  BY DEF IsDecisionPathTree
<1>2. Tiled(all, P, F)
  BY <1>1, StretchesTile
<1>3. scenario = [n \in (1..B) \cup firsts |->
                    IF n <= B THEN Blocking(tree, n) ELSE PathNode(at(n), tree.paths)]
  BY DEF Scenario
<1> HIDE DEF B, P, F, all
<1>4. \A s \in all : /\ s.first \in Nat /\ s.first >= F /\ s.first < F + P /\ s.from <= s.upto
                     /\ s.first \in firsts
  <2>1. \A s \in all : IsStretch(s, P, F)
    BY <1>2 DEF Tiled
  <2>2. \A s \in all : s.first \in Nat /\ F <= s.first /\ s.from <= s.upto
    BY <2>1 DEF IsStretch
  <2>3. ASSUME NEW s \in all PROVE s.first < F + P
    <3>1. /\ s.from \in 1..P /\ s.upto \in 1..P /\ s.from <= s.upto /\ s.first \in Nat
          /\ s.first + (s.upto - s.from) < F + P
      BY <2>1 DEF IsStretch
    <3> QED BY <1>1, <3>1
  <2>4. \A s \in all : s.first \in firsts
    OBVIOUS
  <2> HIDE DEF firsts
  <2>5. \A s \in all : s.first >= F
    BY <1>1, <2>2
  <2> QED BY <2>2, <2>3, <2>4, <2>5
<1>5. \A x \in F..(F + P - 1) : x \in firsts
  BY <1>2 DEF Tiled
<1>6. (1..B) \cup firsts = 1..N
  <2>1. \A n \in 1..N : n \in 1..B \/ n \in F..(F + P - 1)
    BY <1>1 DEF F
  <2>2. \A n \in 1..B : n \in 1..N
    BY <1>1
  <2>3. \A n \in firsts : n \in 1..N
    BY <1>1, <1>4 DEF F
  <2> HIDE DEF firsts, N
  <2> QED BY <1>5, <2>1, <2>2, <2>3
<1>7. \A s \in all : at(s.first) = s
  <2>1. \A p, q \in all : p.first = q.first => p = q
    BY <1>2 DEF Tiled
  <2> QED BY <2>1
<1> HIDE DEF firsts, at
<1>8. DOMAIN scenario = 1..N
  BY <1>3, <1>6
<1>9. \A n \in 1..B : n \in DOMAIN scenario /\ scenario[n] = Blocking(tree, n)
  BY <1>1, <1>3, <1>6
<1>10. \A s \in all : s.first \in DOMAIN scenario /\ scenario[s.first] = PathNode(s, tree.paths)
  <2>1. \A s \in all : s.first \in 1..N /\ ~(s.first <= B)
    BY <1>1, <1>4 DEF F
  <2> HIDE DEF N
  <2> QED BY <1>3, <1>6, <1>7, <2>1
<1>11. \A n \in DOMAIN scenario : n \in 1..B \/ \E s \in all : s.first = n
  BY <1>8, <1>6 DEF firsts
<1> HIDE DEF N
\* What follows a blocking condition and what follows a path.
<1>12. ASSUME NEW m \in 1..B
       PROVE  /\ scenario[m].yes[1] # "question"
              /\ \A n \in DOMAIN scenario :
                   n \in Following(scenario, m) <=> n = m + 1 /\ (m < B \/ P > 0)
  <2>1. /\ scenario[m].yes = Outcome("blocked")
        /\ scenario[m].no = IF m < B \/ P > 0 THEN Question(m + 1) ELSE Outcome("nothing more")
    <3>1. scenario[m] = Blocking(tree, m)
      BY <1>9
    <3>2. /\ Blocking(tree, m).yes = Outcome("blocked")
          /\ Blocking(tree, m).no = IF m < B \/ tree.paths # <<>> THEN Question(m + 1)
                                   ELSE Outcome("nothing more")
      BY DEF Blocking, B
    <3> QED BY <1>1, <3>1, <3>2
  <2>2. \A n \in DOMAIN scenario :
           n \in Following(scenario, m) <=> Question(n) = scenario[m].yes \/ Question(n) = scenario[m].no
    BY DEF Following
  <2>3. scenario[m].yes[1] # "question"
    BY <2>1, AnswersApart
  <2>4. \A n : Question(n) # scenario[m].yes
    BY <2>1, AnswersApart
  <2>5. \A n : Question(n) = scenario[m].no <=> n = m + 1 /\ (m < B \/ P > 0)
    <3>1. CASE m < B \/ P > 0
      BY <2>1, <3>1, AnswersApart
    <3>2. CASE ~(m < B \/ P > 0)
      BY <2>1, <3>2, AnswersApart
    <3> QED BY <3>1, <3>2
  <2> QED BY <2>2, <2>3, <2>4, <2>5
<1>13. ASSUME NEW s \in all
       PROVE  /\ scenario[s.first].yes[1] = "question" => scenario[s.first].yes # scenario[s.first].no
              /\ \A n \in DOMAIN scenario :
                   n \in Following(scenario, s.first) <=> \E h \in Halves(s) : n = h.first
              /\ scenario[s.first].about = <<"path", tree.paths[Middle(s)].id>>
  <2> DEFINE b == Before(s)
             c == After(s)
             yes == scenario[s.first].yes
             no == scenario[s.first].no
             favours == tree.paths[Middle(s)].favours
  <2>1. /\ yes = IF Some(b) THEN Question(b.first) ELSE Outcome(favours)
        /\ no = IF Some(c) THEN Question(c.first) ELSE Outcome("uncertain")
        /\ scenario[s.first].about = <<"path", tree.paths[Middle(s)].id>>
    <3>1. scenario[s.first] = PathNode(s, tree.paths)
      BY <1>10
    <3>2. /\ PathNode(s, tree.paths).yes = IF Some(b) THEN Question(b.first) ELSE Outcome(favours)
          /\ PathNode(s, tree.paths).no = IF Some(c) THEN Question(c.first) ELSE Outcome("uncertain")
          /\ PathNode(s, tree.paths).about = <<"path", tree.paths[Middle(s)].id>>
      BY DEF PathNode
    <3> QED BY <3>1, <3>2
  <2>2. \A h : h \in Halves(s) <=> (h = b \/ h = c) /\ Some(h)
    BY DEF Halves
  <2>3. Some(b) /\ Some(c) => b.first # c.first
    BY <1>2 DEF Tiled, Halved
  <2>4. \A n \in DOMAIN scenario :
           n \in Following(scenario, s.first) <=> Question(n) = yes \/ Question(n) = no
    BY DEF Following
  <2> HIDE DEF b, c, yes, no
  <2>5. yes[1] = "question" => yes # no
    BY <2>1, <2>3, AnswersApart
  <2>6. \A n \in DOMAIN scenario :
           n \in Following(scenario, s.first) <=> \E h \in Halves(s) : n = h.first
    BY <2>1, <2>2, <2>4, AnswersApart
  <2> QED BY <2>1, <2>5, <2>6 DEF yes, no
<1>14. \A s \in all : \A h \in Halves(s) : h \in all /\ h.first > s.first
  BY <1>2 DEF Tiled, Halved, HalfOf
<1>15. ASSUME NEW n \in DOMAIN scenario
       PROVE  LET before == {m \in DOMAIN scenario : n \in Following(scenario, m)}
              IN  /\ n # 1 => \E m \in DOMAIN scenario : before = {m}
                  /\ \A m \in before : m < n
                  /\ scenario[n].yes[1] = "question" => scenario[n].yes # scenario[n].no
  <2> DEFINE before == {m \in DOMAIN scenario : n \in Following(scenario, m)}
  <2>1. ASSUME NEW m \in DOMAIN scenario, n \in Following(scenario, m) PROVE m < n
    <3>1. CASE m \in 1..B
      BY <1>1, <1>12, <2>1, <3>1
    <3>2. CASE \E s \in all : s.first = m
      BY <1>13, <1>14, <2>1, <3>2
    <3> QED BY <1>11, <3>1, <3>2
  <2>2. scenario[n].yes[1] = "question" => scenario[n].yes # scenario[n].no
    <3>1. CASE n \in 1..B
      BY <1>12, <3>1
    <3>2. CASE \E s \in all : s.first = n
      BY <1>13, <3>2
    <3> QED BY <1>11, <3>1, <3>2
  <2>3. ASSUME n # 1 PROVE \E m \in DOMAIN scenario : before = {m}
    <3>1. n \in Nat /\ n > 1
      BY <1>1, <1>8, <2>3 DEF N
    \* A condition, or the first path, follows the condition before it.
    <3>2. CASE n <= F /\ n - 1 \in 1..B
      <4>1. n - 1 \in DOMAIN scenario /\ (n - 1 < B \/ P > 0)
        <5>1. n - 1 < B \/ P > 0
          BY <1>1, <1>8, <3>2 DEF N, F
        <5> QED BY <1>9, <3>2, <5>1
      <4>2. n \in Following(scenario, n - 1)
        BY <1>12, <3>1, <3>2, <4>1
      <4>3. ASSUME NEW m \in DOMAIN scenario, n \in Following(scenario, m) PROVE m = n - 1
        <5>1. CASE m \in 1..B
          BY <1>12, <3>1, <4>3, <5>1
        <5>2. CASE \E s \in all : s.first = m
          <6>1. m >= F
            BY <1>4, <5>2
          <6>2. m < n /\ m \in Nat
            BY <1>4, <2>1, <4>3, <5>2
          <6> QED BY <1>1, <3>1, <3>2, <6>1, <6>2
        <5> QED BY <1>11, <5>1, <5>2
      <4>4. before = {n - 1}
        BY <4>1, <4>2, <4>3
      <4> QED BY <4>1, <4>4
    <3>3. CASE ~(n <= F /\ n - 1 \in 1..B)
      <4>1. n > F
        <5>1. n \in 1..N
          BY <1>8
        <5>2. CASE n \in 1..B
          BY <1>1, <3>1, <3>3, <5>2 DEF F
        <5>3. CASE \E s \in all : s.first = n
          <6>1. n >= F
            BY <1>4, <5>3
          <6>2. n # F
            BY <1>1, <3>1, <3>3 DEF F
          <6> QED BY <1>1, <3>1, <6>1, <6>2
        <5> QED BY <1>11, <5>2, <5>3
      <4>2. n \notin 1..B
        BY <1>1, <4>1 DEF F
      <4>3. PICK p \in all : p.first = n
        BY <1>11, <4>2
      <4>4. PICK q \in all : p \in Halves(q)
        <5>1. p.first # F
          BY <1>1, <4>1, <4>3
        <5> QED BY <1>2, <5>1 DEF Tiled
      <4>5. q.first \in DOMAIN scenario /\ n \in Following(scenario, q.first)
        BY <1>10, <1>13, <4>3, <4>4
      <4>6. ASSUME NEW m \in DOMAIN scenario, n \in Following(scenario, m) PROVE m = q.first
        <5>1. CASE m \in 1..B
          <6>1. n = m + 1
            BY <1>12, <4>6, <5>1
          <6> QED BY <1>1, <4>1, <5>1, <6>1 DEF F
        <5>2. CASE \E s \in all : s.first = m
          <6>1. PICK r \in all : r.first = m
            BY <5>2
          <6>2. PICK h \in Halves(r) : h.first = n
            BY <1>13, <4>6, <6>1
          <6>3. q = r
            BY <1>2, <4>3, <4>4, <6>2 DEF Tiled
          <6> QED BY <6>1, <6>3
        <5> QED BY <1>11, <5>1, <5>2
      <4>7. before = {q.first}
        BY <4>5, <4>6
      <4> QED BY <4>5, <4>7
    <3> QED BY <3>2, <3>3
  <2> QED BY <2>1, <2>2, <2>3
<1>16. ASSUME NEW k \in DOMAIN tree.paths
       PROVE  \E n \in DOMAIN scenario : scenario[n].about = <<"path", tree.paths[k].id>>
  <2>1. PICK s \in all : Middle(s) = k
    BY <1>1, <1>2 DEF Tiled
  <2> QED BY <1>10, <1>13, <2>1
<1>17. DOMAIN scenario = 1..(Len(tree.blocking) + Len(tree.paths))
  BY <1>8 DEF N, B, P
<1> QED BY <1>15, <1>16, <1>17 DEF IsTree

\* The scenario tree of every report is one tree that asks for everything.
THEOREM ScenarioTreeSoundHolds == Spec => []ScenarioTreeSound
<1>1. FilesInv => ScenarioTreeSound
  <2> SUFFICES ASSUME FilesInv, Built PROVE ScenarioTreeSound
    BY DEF ScenarioTreeSound
  <2> DEFINE scenario == report.core.scenario
             tree == input.tree
             about == [n \in DOMAIN scenario |-> scenario[n].about]
             before(n) == {m \in DOMAIN scenario : n \in Following(scenario, m)}
  <2>1. report = Report(input, perspective) /\ IsDecisionPathTree(tree)
    BY BuiltIsReport
  <2>2. scenario = Scenario(tree)
    BY <2>1 DEF Report, Core
  <2>3. Len(tree.paths) \in Nat /\ Len(tree.blocking) \in Nat
    BY <2>1 DEF IsDecisionPathTree
  <2>4. IsTree(scenario, tree)
    <3> HIDE DEF scenario, tree
    <3> QED BY <2>1, <2>2, ScenarioSound
  <2>5. ASSUME NEW n \in DOMAIN scenario
        PROVE  /\ n # 1 => Cardinality(before(n)) = 1
               /\ \A m \in before(n) : m < n
               /\ scenario[n].yes[1] = "question" => scenario[n].yes # scenario[n].no
    <3>1. \A m : Cardinality({m}) = 1
      BY FS_Singleton
    <3>2. /\ n # 1 => \E m \in DOMAIN scenario : before(n) = {m}
          /\ \A m \in before(n) : m < n
          /\ scenario[n].yes[1] = "question" => scenario[n].yes # scenario[n].no
      <4> HIDE DEF scenario
      <4> QED BY <2>4 DEF IsTree
    <3> HIDE DEF scenario, before
    <3> QED BY <3>1, <3>2
  <2>6. Len(scenario) = Len(tree.paths) + Len(tree.blocking)
    <3>1. DOMAIN scenario = 1..(Len(tree.blocking) + Len(tree.paths))
      BY <2>4 DEF IsTree
    <3>2. scenario = [n \in DOMAIN scenario |-> scenario[n]]
      BY <2>2 DEF Scenario
    <3> DEFINE b == Len(tree.blocking)
               p == Len(tree.paths)
               k == b + p
    <3>3. b \in Nat /\ p \in Nat
      BY <2>3
    <3>4. DOMAIN scenario = 1..k
      BY <3>1
    <3> HIDE DEF scenario, b, p
    <3>5. k \in Nat /\ k = p + b
      BY <3>3
    <3> HIDE DEF k
    <3>6. scenario = [n \in 1..k |-> scenario[n]]
      BY <3>2, <3>4
    <3> DEFINE f == [n \in 1..k |-> scenario[n]]
    <3>7. Len(f) = k
      BY <3>5
    <3> HIDE DEF f
    <3>8. Len(scenario) = k
      BY <3>6, <3>7 DEF f
    <3> QED BY <3>5, <3>8 DEF b, p
  <2>7. \A k \in DOMAIN tree.paths : <<"path", tree.paths[k].id>> \in Range(about)
    <3>1. \A k \in DOMAIN tree.paths : \E n \in DOMAIN scenario :
             scenario[n].about = <<"path", tree.paths[k].id>>
      <4> HIDE DEF scenario, tree
      <4> QED BY <2>4 DEF IsTree
    <3> HIDE DEF scenario, tree
    <3> QED BY <3>1 DEF Range
  <2> QED BY <2>5, <2>6, <2>7 DEF ScenarioTreeSound
<1> QED BY <1>1, AlwaysFiles, PTL
=============================================================================
