------------------------------ MODULE Ordering ------------------------------
(***************************************************************************)
(* What Python does to lists everywhere in this program.                   *)
(***************************************************************************)
EXTENDS Integers, SequencesExt, FiniteSetsExt

\* The members of a finite set in the order of a relation, a set of pairs.
Arranged(S, before) ==
    [n \in 1..Cardinality(S) |->
        CHOOSE x \in S : Cardinality({y \in S : <<y, x>> \in before}) = n - 1]

Ascending(places) == Arranged(places, {s \in places \X places : s[1] < s[2]})

\* [x for x in s if ...]: what s has at these places.
At(s, places) == LET kept == Ascending(places) IN [n \in DOMAIN kept |-> s[kept[n]]]

\* Pairs of numbers as two loops, one in the other, go through them.
Nested(pairs) ==
    {s \in pairs \X pairs :
        s[1][1] < s[2][1] \/ (s[1][1] = s[2][1] /\ s[1][2] < s[2][2])}

\* sorted(s, key=...), which is stable; key[n] is the key of s[n].
Earlier(s, key) ==
    {p \in (DOMAIN s) \X (DOMAIN s) :
        key[p[1]] < key[p[2]] \/ (key[p[1]] = key[p[2]] /\ p[1] < p[2])}

StableSort(s, key) ==
    LET position == Arranged(DOMAIN s, Earlier(s, key))
    IN  [n \in DOMAIN position |-> s[position[n]]]

\* s[:n]
FirstOf(s, n) == SubSeq(s, 1, Min({n, Len(s)}))
=============================================================================
