-------------------------- MODULE ExecutiveSummary --------------------------
(***************************************************************************)
(* ExecutiveSummarizer: one page from the results of the other engines,    *)
(* and what its model, ExecutiveSummaryArtifact, accepts of it.  No LLM.   *)
(*                                                                         *)
(* Amounts that are shares of a claim are in hundredths.                   *)
(***************************************************************************)
EXTENDS AmountCheck, ActionAdvice

NoIssue == 0
NoEntry == 0

\* The first five by score and then by impact; the sort is that of the ranker
\* without its last keys.
DecisiveIssues(r) ==
    FirstOf(StableSort(r.order, [n \in DOMAIN r.order |-> RankKey(r.issue[r.order[n]])]), 5)

\* claims_to_abandon, evidence_supplement_priorities, recommended_claim_amendments,
\* trial_explanation_priorities, in this order.
Actions(a) == FirstOf(a.abandon \o a.supply \o a.amend \o a.explain, 3)

OptimalAttacks(c) == FirstOf([n \in DOMAIN c.attacks |-> c.attacks[n].id], 3)

CriticalGaps(a) == FirstOf(a.supply, 3)

\* The claim, by its place in the table, that the calculation bears out best: the
\* first of those that differ least from it, or the first one if none can be
\* calculated.
MostStableClaim(table) ==
    LET known == {n \in DOMAIN table : table[n].known}
        distance(n) == IF Delta(table[n]) < 0 THEN -Delta(table[n]) ELSE Delta(table[n])
        nearest == {n \in known : \A m \in known : distance(n) <= distance(m)}
    IN  IF table = <<>> THEN NoEntry ELSE IF known = {} THEN 1 ELSE Min(nearest)

Formal(table) == SumOf([n \in DOMAIN table |-> table[n].claimed])

\* _build_claim_decomposition: what can be calculated as calculated, the rest as
\* claimed; 70 % of it when the defendant is likely to win.
Anchor(table, winner) ==
    LET total == SumOf([n \in DOMAIN table |-> IF table[n].known THEN table[n].calculated
                                               ELSE table[n].claimed])
        share == IF winner = "defendant" THEN 70 ELSE 100
    IN  Min({share * total, 100 * Formal(table)})

Decomposition(table, winner) ==
    LET anchor == Anchor(table, winner)
    IN  [formal |-> 100 * Formal(table), anchor |-> anchor,
         lower |-> Max({0, (70 * anchor) \div 100}),
         upper |-> Min({100 * Formal(table), (120 * anchor) \div 100})]

\* The ge=0 of ClaimDecomposition's fields and _validate_ranges.
ValidDecomposition(d) ==
    /\ d.formal >= 0 /\ d.anchor >= 0 /\ d.lower >= 0 /\ d.upper >= 0
    /\ d.anchor <= d.formal
    /\ d.lower <= d.upper

\* _build_internal_decision_summary
InternalDecision(t, gaps) ==
    [winner |-> Winner(t), first |-> FirstOf(gaps, 1)]

HighIssues(r) == {n \in DOMAIN r.order : r.issue[r.order[n]].impact = "high"}

\* _compute_primary_risk: the first issue of high impact.
PrimaryRisk(r) == IF HighIssues(r) = {} THEN NoIssue ELSE r.order[Min(HighIssues(r))]

\* _compute_next_best_action
NextBestAction(actions, gaps) ==
    IF actions # <<>> THEN FirstOf(actions, 1) ELSE FirstOf(gaps, 1)

\* The confidence_metrics of _build_structured_output, in percent.
Confidence(r, gaps) ==
    LET evaluated == Cardinality({i \in Issues : r.issue[i].impact # "none"})
        complete == IF NIssues = 0 THEN 0 ELSE (100 * evaluated) \div NIssues
        clear == Max({0, 100 - 15 * Len(gaps)})
    IN  [complete |-> complete, clear |-> clear, overall |-> (complete + clear) \div 2]

\* _build_structured_output: its findings are the decisive issues, its actions the
\* immediate ones.
Structured(r, a, c, d) ==
    [issues |-> NIssues, high |-> Cardinality(HighIssues(r)), findings |-> DecisiveIssues(r),
     attacks |-> Len(OptimalAttacks(c)), gaps |-> Len(CriticalGaps(a)),
     defences |-> Len(d.points), actions |-> Actions(a),
     confidence |-> Confidence(r, CriticalGaps(a))]

\* summarize; without an amount report there is no decomposition.
Summary(report, r, t, c, a, d) ==
    [top |-> DecisiveIssues(r), actions |-> Actions(a), attacks |-> OptimalAttacks(c),
     gaps |-> CriticalGaps(a), stable |-> MostStableClaim(report.table),
     claim |-> Decomposition(report.table, Winner(t)),
     strategy |-> a.strategy.headline,
     internal |-> InternalDecision(t, CriticalGaps(a)),
     risk |-> PrimaryRisk(r), next |-> NextBestAction(Actions(a), CriticalGaps(a)),
     structured |-> Structured(r, a, c, d)]

\* ConfidenceMetrics, in percent.
ConfidenceMetrics == [complete : 0..100, clear : 0..100, overall : 0..100]

\* The lengths that an ExecutiveSummaryArtifact takes.
Traceable(s) ==
    /\ Len(s.top) <= 5 /\ Len(s.actions) <= 3 /\ Len(s.attacks) <= 3 /\ Len(s.gaps) <= 3
    /\ s.structured.confidence \in ConfidenceMetrics

\* Nobody catches the error of a model that refuses its values.
Valid(report, s) ==
    /\ report # NoReport => ValidDecomposition(s.claim)
    /\ Traceable(s)
=============================================================================
