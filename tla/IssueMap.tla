------------------------------- MODULE IssueMap -------------------------------
(***************************************************************************)
(* issue_map.py: the issues as a forest of few roots.  Roots that share    *)
(* evidence are merged, what is over the limit is put under the first      *)
(* root, and the forest is written as cards, a parent before its children. *)
(***************************************************************************)
EXTENDS ReportInput

CONSTANT MaxRoots       \* _MAX_ROOTS

ASSUME MapAssumption == MaxRoots \in Nat \ {0}

\* The Jaccard overlap of the evidence is at least 0.30.
Overlap(i, j) ==
    LET union == EvidenceFor[i] \cup EvidenceFor[j]
    IN  /\ union # {}
        /\ 10 * Cardinality(EvidenceFor[i] \cap EvidenceFor[j]) >= 3 * Cardinality(union)

\* The issues without a parent, then those with an unknown one, by score.
Roots(ranked) ==
    LET with(parents) == At(ranked.order, {n \in DOMAIN ranked.order :
                                              Parent[ranked.order[n]] \in parents})
    IN  ByScore(with({NoParent}) \o with(MadeUp), ranked)

\* Where the groups of _merge_roots begin: at each root that overlaps with none before
\* it at which a group begins.
Heads(roots) ==
    CHOOSE heads \in SUBSET (DOMAIN roots) :
        \A p \in DOMAIN roots :
            p \in heads <=> \A h \in heads : h < p => ~Overlap(roots[h], roots[p])

\* The first group that takes the root at p, which begins none.
GroupOf(roots, p) == Min({h \in Heads(roots) : h < p /\ Overlap(roots[h], roots[p])})

\* _merge_roots: the roots that remain, and the new parent of the others, in order.
\* No group is merged while there are few roots.
Merged(ranked) ==
    LET roots == Roots(ranked)
        places == Ascending(DOMAIN roots \ Heads(roots))
        members == StableSort(places, [n \in DOMAIN places |-> GroupOf(roots, places[n])])
        heads == ByScore(At(roots, Heads(roots)), ranked)
        demoted == SubSeq(heads, MaxRoots + 1, Len(heads))
    IN  IF Len(roots) <= MaxRoots THEN [roots |-> roots, moved |-> <<>>]
        ELSE [roots |-> FirstOf(heads, MaxRoots),
              moved |-> [n \in DOMAIN members |->
                           [issue |-> roots[members[n]],
                            parent |-> roots[GroupOf(roots, members[n])]]]
                        \o [n \in DOMAIN demoted |->
                              [issue |-> demoted[n], parent |-> heads[1]]]]

\* The children of an issue: its own and those moved under it.
Children(i, moved, ranked) ==
    LET own == At(ranked.order, {n \in DOMAIN ranked.order : Parent[ranked.order[n]] = i})
        here == At(moved, {n \in DOMAIN moved : moved[n].parent = i})
    IN  ByScore(own \o [n \in DOMAIN here |-> here[n].issue], ranked)

----------------------------------------------------------------------------
(* The cards *)

\* What the card says for a party: its strongest argument of the summary, or else
\* its best one of the debate.  Of two on one issue the last of the summary counts.
Thesis(i, p, debate) ==
    IF debate.summarised /\ i \in Range(debate.strongest[p]) THEN "strongest"
    ELSE IF \E n \in DOMAIN debate.best[p] : debate.best[p][n].issue = i THEN "best"
    ELSE "missing"

Sensitivity(issue) ==
    IF ~issue.judged THEN "unrated"
    ELSE IF issue.score > 70 THEN "high" ELSE IF issue.score > 40 THEN "medium" ELSE "low"

\* current_gaps: the last attack on the issue and the action that has a label.
Gaps(i, ranked, chain) ==
    LET attacks == SelectSeq(chain.attacks, LAMBDA a : a.issue = i)
    IN  (IF attacks = <<>> THEN {} ELSE {<<"attack", Last(attacks).id>>})
        \cup {<<"action", d>> : d \in {ranked.issue[i].action} \cap {"supplement_evidence"}}

MapCard(place, ranked, chain, debate) ==
    [issue |-> place.issue, parent |-> place.parent, depth |-> place.depth,
     thesis |-> [p \in Parties |-> Thesis(place.issue, p, debate)],
     gaps |-> Gaps(place.issue, ranked, chain),
     sensitivity |-> Sensitivity(ranked.issue[place.issue])]

Place(i, parent, depth) == [issue |-> i, parent |-> parent, depth |-> depth]

\* One call of _make_card, those that are still to come, and the places given so far;
\* an issue that has one is not visited again.
MakeCard(s, moved, ranked) ==
    LET next == Head(s.calls)
        children == Children(next.issue, moved, ranked)
        inside == [n \in DOMAIN children |-> Place(children[n], next.issue, next.depth + 1)]
    IN  IF s.calls = <<>> THEN s
        ELSE IF \E n \in DOMAIN s.places : s.places[n].issue = next.issue
        THEN [s EXCEPT !.calls = Tail(@)]
        ELSE [calls |-> inside \o Tail(s.calls), places |-> Append(s.places, next)]

\* The places after all calls that begin with these issues.  There is one call for each
\* of them, and at most one more for each issue and for each moved one, by its parent.
Visit(issues, places, moved, ranked) ==
    LET turns == Len(issues) + NIssues + Len(moved)
        state[n \in 0..turns] ==
            IF n = 0 THEN [calls |-> [m \in DOMAIN issues |-> Place(issues[m], NoParent, 0)],
                           places |-> places]
            ELSE MakeCard(state[n - 1], moved, ranked)
    IN  state[turns].places

\* Mutant: what no root leads to is left out.
Orphans_LeftOut(ranked) == <<>>

\* What is visited after the roots: everything, in case that no root leads to it, as to
\* a cycle of parents.
Orphans(ranked) == ranked.order

\* build_issue_map
IssueCards(ranked, chain, debate) ==
    LET merged == Merged(ranked)
        below == Visit(merged.roots, <<>>, merged.moved, ranked)
        places == Visit(Orphans(ranked), below, merged.moved, ranked)
    IN  [n \in DOMAIN places |-> MapCard(places[n], ranked, chain, debate)]
=============================================================================
