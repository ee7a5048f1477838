---------------------------- MODULE ActionAdvice ----------------------------
(***************************************************************************)
(* EvidenceGapROIRanker and ActionRecommender: what is missing, in which   *)
(* order to supply it, and what each party is advised to do.               *)
(***************************************************************************)
EXTENDS IssueRanking, DecisionPaths

CONSTANTS
    Missing,        \* missing_evidence_report: <<issue, party>>
    Focus,          \* focus_list of the cross-examination: <<evidence, issue>>
    Category        \* the titles fall into a category with keywords

ASSUME AdviceAssumption == Missing \in Seq(Issues \X {"plaintiff", "defendant"})
                           /\ Focus \in Seq(Evidence \X Issues) /\ Category \in BOOLEAN

----------------------------------------------------------------------------
(* Evidence gaps *)

\* A gap by its id: "missing-issue-party" or "xexam-evidence-issue".
GapIds == [n \in DOMAIN Missing |-> <<"missing">> \o Missing[n]]
          \o [n \in DOMAIN Focus |-> <<"xexam">> \o Focus[n]]

\* _build_gap_descriptors_from_adversarial keeps the first gap of each id.
GapDescriptors ==
    At(GapIds, {n \in DOMAIN GapIds : \A m \in DOMAIN GapIds : m < n => GapIds[m] # GapIds[n]})

\* The command line gives every gap the same cost, impact and obtainability: the
\* stable sort of the ROI ranker keeps their order, and roi_rank is the position.
RankedGaps == GapDescriptors

----------------------------------------------------------------------------
(* Advice *)

Advised(ranked, action) ==
    At(ranked.order, {n \in DOMAIN ranked.order : ranked.issue[ranked.order[n]].action = action})

\* _build_amendments and _build_abandon_suggestions: one for each related claim,
\* named here by its issue and claim.
PerClaim(issues) ==
    LET places == UNION {{n} \X (DOMAIN ClaimsOf[issues[n]]) : n \in DOMAIN issues}
        order == Arranged(places, Nested(places))
    IN  [n \in DOMAIN order |->
            <<issues[order[n][1]], ClaimsOf[issues[order[n][1]]][order[n][2]]>>]

\* _build_amendments also copies the issue's evidence_ids, as the extraction left them.
Amendments(issues) ==
    LET claims == PerClaim(issues)
    IN  [n \in DOMAIN claims |->
            <<claims[n][1], claims[n][2], EvidenceFor[claims[n][1]]>>]

\* _inject_category_specific_actions: up to three more, when there are fewer than
\* three.
Injected(ranked, existing) ==
    IF ~Category \/ Len(existing) >= 3 THEN <<>>
    ELSE FirstOf(At(ranked.order, {n \in DOMAIN ranked.order :
                                      ranked.order[n] \in Keyworded \ Range(existing)}), 3)

Explained(ranked) ==
    LET existing == Advised(ranked, "explain_in_trial")
    IN  existing \o Injected(ranked, existing)

\* How far the LLM's headline and its advice to the plaintiff go; "none" when the
\* call fails or there is no such advice.
Claim == {"none", "measured", "whole", "insistent", "more"}

\* _OVERCONFIDENT and _AGGRESSIVE: the headline is searched for the words of the
\* first list, the plan for those of the second.  "insistent" has words of both (it
\* insists on the whole claim), "whole" (it expects it) and "more" (it extends the
\* claim) only of one.
Overconfident == {"whole", "insistent"}
Aggressive == {"insistent", "more"}

\* _align_with_path_tree
Aligned(strategy, tree) ==
    IF Winner(tree) # "defendant" THEN strategy
    ELSE [headline |-> IF strategy.headline \in Overconfident THEN "measured"
                       ELSE strategy.headline,
          plan |-> IF strategy.plan \in Aggressive THEN "measured" ELSE strategy.plan]

\* _annotate_path_ids
PathsOn(issue, tree) ==
    {tree.paths[n].id : n \in {m \in DOMAIN tree.paths : issue \in tree.paths[m].issues}}

\* recommend, with each suggestion named by its issue.
Advice(ranked, tree, strategy) ==
    [amend |-> Amendments(Advised(ranked, "amend_claim")),
     abandon |-> PerClaim(Advised(ranked, "abandon")),
     explain |-> Explained(ranked),
     supply |-> RankedGaps,
     paths |-> [i \in Issues |-> PathsOn(i, tree)],
     strategy |-> Aligned(strategy, tree)]

\* ActionRecommendation: each suggestion names an issue and one of its claims, an
\* amendment gives the issue's evidence_ids, whatever they are, each gap is one that
\* exists, once, and each path is one of the tree.
Amendment == UNION {{i} \X Range(ClaimsOf[i]) \X {EvidenceFor[i]} : i \in Issues}
Suggestion == UNION {{i} \X Range(ClaimsOf[i]) : i \in Issues}

IsRecommendation(a, tree) ==
    /\ a.amend \in Seq(Amendment) /\ a.abandon \in Seq(Suggestion)
    /\ a.explain \in Seq(Issues)
    /\ a.supply \in Seq(Range(GapIds)) /\ IsInjective(a.supply)
    /\ a.paths \in [Issues -> SUBSET {tree.paths[n].id : n \in DOMAIN tree.paths}]
    /\ a.strategy \in [headline : Claim, plan : Claim]

NoAdvice == [amend |-> <<>>, abandon |-> <<>>, explain |-> <<>>, supply |-> <<>>,
             paths |-> [i \in Issues |-> {}], strategy |-> [headline |-> "none", plan |-> "none"]]
=============================================================================
