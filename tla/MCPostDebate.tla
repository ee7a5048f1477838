---------------------------- MODULE MCPostDebate ----------------------------
(* PostDebate with four issues in two batches and three pieces of evidence. *)
EXTENDS PostDebate

CONSTANTS e1, e2, e3, x1, Returned

MCDependsOn == <<{2}, {}, {3}, {3}>>
MCPhaseOf == <<"factual", "factual", "legal", "legal">>
MCClaimsOf == <<<<"c1">>, <<"c2", "c3">>, <<>>, <<"c1">>>>
MCEvidenceFor == <<{e1}, {e2, e3}, {}, {x1}>>
MCTargets == e1 :> {3} @@ e2 :> {2} @@ e3 :> {}
MCResembles == x1 :> {2, 4}

Sound == [impact |-> "high", grounded |-> TRUE, action |-> "abandon", basis |-> TRUE, base |-> 60]
Weak == [impact |-> "invalid", grounded |-> TRUE, action |-> "amend_claim", basis |-> FALSE,
         base |-> 20]
MCJudgements == {Sound, Weak}

MCPathItems ==
    {[id |-> 1, issues |-> {3, x1}, mentions |-> {}, key |-> {}, counter |-> {e1},
      gate |-> {e2, e3}, fallback |-> 2, favours |-> "plaintiff", whole |-> TRUE],
     [id |-> 2, issues |-> {x1}, mentions |-> {2}, key |-> {x1}, counter |-> {e3},
      gate |-> {}, fallback |-> 0, favours |-> "defendant", whole |-> TRUE]}

MCAttackItems ==
    {[id |-> 1, issue |-> 1, evidence |-> {e2, x1}, whole |-> TRUE],
     [id |-> 1, issue |-> x1, evidence |-> {e3}, whole |-> TRUE]}

MCStrategies ==
    {[headline |-> "none", plan |-> "none"], [headline |-> "insistent", plan |-> "insistent"],
     [headline |-> "more", plan |-> "whole"]}

\* A low score with and without the challenge that it needs.
MCAssessmentItems ==
    {[evidence |-> e1, score |-> 3, challenged |-> TRUE],
     [evidence |-> e1, score |-> 3, challenged |-> FALSE]}

\* Takes the id of the first conflict's own condition.
MCConditionItems ==
    <<[automatic |-> 1, issues |-> {1, x1}, evidence |-> {e1, e3}, proper |-> TRUE],
      [automatic |-> 2, issues |-> {2}, evidence |-> {}, proper |-> FALSE]>>

MCDefenceItems ==
    {[issue |-> 1, evidence |-> {e1, x1}, whole |-> TRUE, priority |-> 2],
     [issue |-> 2, evidence |-> {}, whole |-> FALSE, priority |-> 1]}

MCMissing == <<<<1, "plaintiff">>, <<2, "defendant">>>>
MCFocus == <<<<e2, 2>>, <<e2, 2>>>>

\* Seven of the ten that were lent count as principal.
MCFinancials ==
    {[loans |-> <<[amount |-> 7, principal |-> TRUE], [amount |-> 3, principal |-> FALSE]>>,
      repayments |-> <<[amount |-> Returned, to |-> "principal"], [amount |-> 1, to |-> "none"]>>,
      disputed |-> 1,
      claims |-> <<[type |-> "principal", amount |-> 10], [type |-> "interest", amount |-> 2]>>]}
=============================================================================
