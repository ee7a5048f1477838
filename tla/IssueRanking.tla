---------------------------- MODULE IssueRanking ----------------------------
(***************************************************************************)
(* IssueImpactRanker: the LLM judges the issues in batches, the rules take *)
(* from its answers what is valid, score every judged issue and sort.      *)
(*                                                                         *)
(* The five sub-scores of a judgement are one weighted base score.         *)
(***************************************************************************)
EXTENDS AnalysisInput

CONSTANTS
    BatchSize,      \* _BATCH_SIZE
    Judgements,     \* the judgements that the LLM may give of an issue
    Resembles       \* Resembles[m]: the issues whose ids end in the digits of m

Judgement ==
    [impact : {"high", "medium", "low", "invalid"},
     grounded : BOOLEAN,        \* both strengths cite known evidence
     action : {"amend_claim", "abandon", "explain_in_trial", "supplement_evidence", "none"},
     basis : BOOLEAN,           \* recommended_action_basis is not blank
     base : Nat]

ASSUME RankingAssumption ==
    /\ BatchSize \in Nat \ {0}
    /\ Judgements \subseteq Judgement
    /\ Resembles \in [MadeUp -> SUBSET Issues]

Unjudged == [impact |-> "none", action |-> "none", score |-> 0, judged |-> FALSE]

Batches == {{i \in Issues : i > n /\ i <= n + BatchSize} : n \in {m \in 0..NIssues : m % BatchSize = 0}}
               \ {{}}

\* LLMSingleIssueEvaluation; nothing keeps an answer to the issues of its batch.
Evaluation == [issue : Issues \cup MadeUp, judgement : Judgements]

KnownIn(evaluations) == {evaluations[n].issue : n \in DOMAIN evaluations} \cap Issues

\* The places of the evaluations that eval_map keeps, by issue: the last one that
\* names it.
Exactly(evaluations) ==
    {at \in [KnownIn(evaluations) -> DOMAIN evaluations] :
        \A i \in DOMAIN at :
            /\ evaluations[at[i]].issue = i
            /\ \A n \in DOMAIN evaluations : evaluations[n].issue = i => n <= at[i]}

\* When none names a known issue, each evaluation in turn goes to an issue that ends
\* in the same digits and is still free, whichever the set yields first.
Fuzzily(evaluations) ==
    {at \in UNION {[S -> DOMAIN evaluations] : S \in SUBSET Issues} :
        /\ IsInjective(at)
        /\ \A i \in DOMAIN at : i \in Resembles[evaluations[at[i]].issue]
        /\ \A n \in DOMAIN evaluations \ Range(at) :
              \A i \in Resembles[evaluations[n].issue] : i \in DOMAIN at /\ at[i] < n}

\* eval_map
Matched(evaluations) ==
    {[i \in DOMAIN at |-> evaluations[at[i]].judgement] :
        at \in IF KnownIn(evaluations) # {} THEN Exactly(evaluations) ELSE Fuzzily(evaluations)}

Bonus(impact) == CASE impact = "high" -> 20 [] impact = "medium" -> 10 [] OTHER -> 0

\* all(... for eid in issue.evidence_ids if eid in evidence_map)
AllKnownIn(i, S) == EvidenceFor[i] # {} /\ EvidenceFor[i] \cap Evidence \subseteq S

\* The admissibility gate, then the demotion of contested issues.
Gated(i, score) ==
    LET capped == IF score > 40 /\ AllKnownIn(i, Doubtful) THEN 40 ELSE score
    IN  IF Evidence = {} THEN score
        ELSE IF AllKnownIn(i, Contested) THEN capped \div 2 ELSE capped

\* recommended_action, which needs a basis.
Action(j) == IF j.basis THEN j.action ELSE "none"

Impact(j) == IF j.impact = "invalid" THEN "none" ELSE j.impact

Enriched(i, j) ==
    [impact |-> Impact(j), action |-> Action(j),
     score |-> Gated(i, j.base + Bonus(Impact(j))), judged |-> TRUE]

Degraded(j) == j.impact = "invalid" \/ ~j.grounded \/ Action(j) # j.action

\* _sort_issues; the sub-scores that break a further tie are part of the base.
ImpactOrder(impact) ==
    CASE impact = "high" -> 0 [] impact = "medium" -> 1 [] impact = "low" -> 2 [] OTHER -> 3

RankKey(issue) == ImpactOrder(issue.impact) - 10 * issue.score

TreeOrder == [i \in Issues |-> i]

\* The result without a single successful batch.
Unranked ==
    [order |-> TreeOrder, issue |-> [i \in Issues |-> Unjudged], unevaluated |-> Issues]

\* _apply_evaluations and _sort_issues.
Ranked(judged) ==
    LET issue == [i \in Issues |->
                    IF i \in DOMAIN judged THEN Enriched(i, judged[i]) ELSE Unjudged]
    IN  [order |-> StableSort(TreeOrder, [i \in Issues |-> RankKey(issue[i])]), issue |-> issue,
         unevaluated |-> {i \in Issues : i \in DOMAIN judged => Degraded(judged[i])}]
=============================================================================
