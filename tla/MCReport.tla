------------------------------ MODULE MCReport ------------------------------
(* CaseReport with seven issues, two of which are each other's parent, and four    *)
(* pieces of evidence.                                                              *)
EXTENDS CaseReport

CONSTANTS e1, e2, e3, e4, x1, k1, k2, k3, u1

MCNone == [i \in 1..7 |-> {}]
MCNoClaims == [i \in 1..7 |-> <<>>]
MCNoConditions == <<>>
MCPhaseOf == [i \in 1..7 |-> "factual"]
MCParent == <<NoParent, NoParent, NoParent, x1, 2, 7, 6>>
MCEvidenceFor == <<{e1, e2}, {e1}, {e3}, {}, {e2, x1}, {e4}, {}>>
MCTargets == e1 :> {1, 2} @@ e2 :> {1, 5} @@ e3 :> {3} @@ e4 :> {}
MCBurdenOf == <<{"plaintiff"}, {"defendant"}, {"plaintiff", "defendant"}, {}, {}, {}, {}>>
MCEvidenceList == <<e1, e2, e3, e4>>
MCKind == e1 :> "documentary" @@ e2 :> "electronic_data" @@ e3 :> "audio_visual"
            @@ e4 :> "witness_statement"
MCOrigin == e1 :> "authority" @@ e2 :> "screen" @@ e3 :> "other" @@ e4 :> "other"
MCNature == [e \in {e1, e2, e3, e4} |-> "other"]
MCOwner == e1 :> "plaintiff" @@ e2 :> "plaintiff" @@ e3 :> "defendant" @@ e4 :> "defendant"
MCRating == e1 :> 10 @@ e2 :> 6 @@ e3 :> 4 @@ e4 :> 10
Dated(n) == [date |-> n, text |-> "happened"]
MCMentions == e1 :> <<Dated(2)>> @@ e2 :> <<>> @@ e3 :> <<Dated(2), Dated(1)>> @@ e4 :> <<>>
MCResembles == x1 :> {4}

----------------------------------------------------------------------------
Judged(base) == [impact |-> "low", grounded |-> TRUE, action |-> "supplement_evidence",
                 basis |-> TRUE, base |-> base]

\* With the later roots before the first; Unranked has the issues as the tree does.
Reordered == Ranked(2 :> Judged(60) @@ 3 :> Judged(75) @@ 7 :> Judged(30))

MCPathItems ==
    {[id |-> n, issues |-> {n}, mentions |-> {}, key |-> {e1}, counter |-> {},
      gate |-> {}, fallback |-> 0, favours |-> "plaintiff", whole |-> TRUE] : n \in 1..4}
ItemOf(n) == CHOOSE p \in MCPathItems : p.id = n

MCAttackItems ==
    {[id |-> 1, issue |-> 1, evidence |-> {e2, x1}, whole |-> TRUE]}

Trees == {EmptyTree} \cup
         {Tree([m \in 1..n |-> ItemOf(m)], [m \in 1..c |-> "delta"]) : n \in {0, 1, 4}, c \in {0, 2}}

----------------------------------------------------------------------------
NoArguments == [p \in Parties |-> <<>>]
Plain ==
    [summarised |-> FALSE, verdict |-> "none", strongest |-> NoArguments, best |-> NoArguments,
     conflicts |-> <<>>, unresolved |-> <<>>, headings |-> <<>>, flaws |-> {}]
Heading(title, text) == [title |-> title, text |-> text]

\* Both parties rely on e4, which they also dispute; two speeches have the same
\* headings, one of which is also a heading of the report.
Rich ==
    [Plain EXCEPT !.summarised = TRUE, !.verdict = "defendant",
        !.strongest["defendant"] = <<2>>,
        !.best["plaintiff"] = <<[issue |-> 1, evidence |-> {e1, e4}]>>,
        !.best["defendant"] = <<[issue |-> x1, evidence |-> {e4}]>>,
        !.conflicts = <<[issue |-> 1, plaintiff |-> {e4, x1}, defendant |-> {e3}]>>,
        !.unresolved = <<2, 1>>,
        !.headings = <<Heading(<<"facts">>, TRUE), Heading(<<"2.1">>, FALSE),
                       Heading(<<"facts">>, TRUE)>>,
        !.flaws = {"known_id", "ragged"}]

Odd == [Plain EXCEPT !.flaws = {"odd_id"}]
Colliding == [Plain EXCEPT !.headings = <<Heading(<<"facts", 2>>, TRUE), Heading(<<"facts">>, TRUE),
                                          Heading(<<"facts">>, TRUE)>>]

----------------------------------------------------------------------------
Dates == [events |-> <<Dated(3), Dated(2)>>, milestones |-> <<Dated(4)>>]
NoDates == [events |-> <<>>, milestones |-> <<>>]

OfTree(r, t, a) ==
    [debate |-> Rich, ranked |-> r, tree |-> t, chain |-> a, supply |-> <<2, 1>>, case |-> Dates]
OfText(d, c) ==
    [debate |-> d, ranked |-> Unranked, tree |-> EmptyTree, chain |-> EmptyChain,
     supply |-> <<>>, case |-> c]

MCInputs ==
    {OfTree(Reordered, t, Chain(<<CHOOSE a \in MCAttackItems : TRUE>>)) : t \in Trees}
        \cup {OfTree(Unranked, EmptyTree, EmptyChain)}
        \cup {OfText(d, c) : d \in {Plain, Odd, Colliding}, c \in {Dates, NoDates}}

----------------------------------------------------------------------------
Answer(block, whole, braces, cut) ==
    [block |-> block, whole |-> whole, braces |-> braces, cut |-> cut]
InBlock(object) == Answer(Clean(object), Nothing, Clean(object), Nothing)
Refusal == Answer(Nothing, Nothing, Nothing, Nothing)

MCCourtCases == <<k1, k2, k3>>
MCMatch == <<k1 :> 2 @@ k2 :> 0 @@ k3 :> 5>>
MCKeywordAnswers == {Refusal, InBlock([whole |-> TRUE, about |-> 1])}
Item(number, overall) == [number |-> number, overall |-> overall]
MCRankAnswers ==
    {InBlock([whole |-> TRUE, items |-> <<Item(k1, 4), Item(u1, 10), Item(k3, 9)>>]),
     Answer(Nothing, Nothing, Mendable([whole |-> TRUE, items |-> <<Item(k1, 12)>>]), Nothing)}

Drafted(cites, opinions) == [whole |-> TRUE, cites |-> cites, opinions |-> opinions]
MCDraftAnswers ==
    {InBlock(Drafted(<<e1, x1, e3>>, <<e3>>)),
     Answer(Nothing, Nothing, Nothing, Clean(Drafted(<<>>, <<>>)))}
=============================================================================
