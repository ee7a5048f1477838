----------------------------- MODULE PostDebate -----------------------------
(***************************************************************************)
(* _run_post_debate of scripts/run_case.py: the engines that work on the   *)
(* result of the debate, one after the other, two of them at the same      *)
(* time, and the executive summary that puts their results together.       *)
(*                                                                         *)
(* An action is the code from one LLM answer to the next call.  A call     *)
(* that has used up its retries has failed; every engine with a call goes  *)
(* on with a lesser result then.                                           *)
(***************************************************************************)
EXTENDS ExecutiveSummary, HearingPlan

CONSTANTS
    Strategies,     \* the strategies that the LLM may advise
    AssessmentItems,    \* the assessments of evidence that it may return
    DefenceItems    \* the defence points that it may return

DefenceItem == [issue : Issues \cup MadeUp, evidence : SUBSET (Evidence \cup MadeUp),
                whole : BOOLEAN, priority : Int]

\* An item of LLMAdmissibilityOutput, its score in tenths.
AssessmentItem == [evidence : Evidence \cup MadeUp, score : Int, challenged : BOOLEAN]

ASSUME PostDebateAssumption ==
    /\ Strategies \subseteq [headline : Claim, plan : Claim]
    /\ AssessmentItems \subseteq AssessmentItem
    /\ DefenceItems \subseteq DefenceItem

VARIABLES
    stage,      \* the LLM call it waits for, "done", or "raised"
    amount,     \* amount_report; NoReport if the YAML file has no figures
    batches,    \* batches that the ranker still has to send
    failed,     \* whether every batch so far has failed
    answers,    \* all_evaluations: what the batches have returned
    ranked,     \* ranked_tree
    tree,       \* decision_tree
    chain,      \* attack_chain
    advice,     \* action_rec
    assessed,   \* admissibility_result: the scores it has added to the evidence
    hearing,    \* issue_presentation_order
    defence,    \* defense_chain
    summary     \* exec_summary

vars == <<stage, amount, batches, failed, answers, ranked, tree, chain, advice,
          assessed, hearing, defence, summary>>

NoTree == [EmptyTree EXCEPT !.likely = -1]
NoChain == [EmptyChain EXCEPT !.attacks = <<"none">>]
NoDefence == [points |-> <<>>, unevaluated |-> {}]
NoSummary == Summary(NoReport, Unranked, EmptyTree, EmptyChain, NoAdvice, NoDefence)

----------------------------------------------------------------------------
(* AdmissibilityEvaluator *)

\* The rules accept an item on evidence of the index, with a score from 0 to 1 and,
\* if that is below one half, with a challenge.
Acceptable(item) ==
    /\ item.evidence \in Evidence
    /\ item.score \in 0..10
    /\ item.score < 5 => item.challenged

\* _build_assessed_map: of two items on one piece of evidence the last one counts.
Assessed(items) ==
    LET kept == At(items, {n \in DOMAIN items : Acceptable(items[n])})
        of(e) == {n \in DOMAIN kept : kept[n].evidence = e}
    IN  [e \in {kept[n].evidence : n \in DOMAIN kept} |->
            [score |-> kept[Max(of(e))].score, challenged |-> kept[Max(of(e))].challenged]]

\* evaluate: the scores in the copy of the index that it returns; none when the
\* call or the parsing fails.
Assessments == {<<>>} \cup {Assessed(items) : items \in Answers(AssessmentItems)}

----------------------------------------------------------------------------
(* DefenseChainOptimizer *)

\* The chain when the call or the parsing fails.
FailedDefence == [points |-> <<>>, unevaluated |-> Issues]

\* _apply_defense_points: the known issues' points that have strategy and argument;
\* a point without makes its issue unevaluated, whether or not another is kept.
DefensePoints(items) ==
    LET kept == At(items, {n \in DOMAIN items : items[n].issue \in Issues /\ items[n].whole})
    IN  [n \in DOMAIN kept |->
            [issue |-> kept[n].issue, evidence |-> kept[n].evidence \cap Evidence,
             priority |-> Max({1, kept[n].priority})]]

Unevaluated(items) ==
    {p.issue : p \in {q \in Range(items) : q.issue \in Issues /\ ~q.whole}}
        \cup (Issues \ {p.issue : p \in {q \in Range(items) : q.issue \in Issues /\ q.whole}})

\* optimize: the points in the order of their priority, and numbered anew.
Defence(items) ==
    LET points == DefensePoints(items)
        sorted == StableSort(points, [n \in DOMAIN points |-> points[n].priority])
    IN  [points |-> [n \in DOMAIN sorted |-> [sorted[n] EXCEPT !.priority = n]],
         unevaluated |-> Unevaluated(items)]

\* PlaintiffDefenseChain, with what its docstring guarantees.
DefensePoint == [issue : Issues, evidence : SUBSET Evidence, priority : Nat \ {0}]

IsDefenceChain(d) ==
    /\ d.points \in Seq(DefensePoint)
    /\ \A n \in DOMAIN d.points : d.points[n].priority = n
    /\ d.unevaluated \subseteq Issues

----------------------------------------------------------------------------
(* The stages *)

\* Evidence gaps and amounts, and the first batch of the ranker.
Start ==
    /\ stage = "start"
    /\ stage' = "ranking"
    /\ amount' \in {NoReport} \cup {Report(f) : f \in Financials}
    /\ UNCHANGED <<batches, failed, answers, ranked, tree, chain, advice, assessed, hearing,
                   defence, summary>>

\* The last batch has been answered: what has been collected makes the tree.
RankingEnds(found, allFailed) ==
    /\ stage' = "paths"
    /\ IF allFailed THEN ranked' = Unranked
       ELSE \E judged \in Matched(found) : ranked' = Ranked(judged)

\* The answer to the next batch, or its failure.
BatchReturns ==
    /\ stage = "ranking"
    /\ LET batch == CHOOSE b \in batches : \A c \in batches : Min(b) <= Min(c)
       IN  \E ok \in BOOLEAN, answer \in Answers(Evaluation) :
             /\ ~ok => answer = <<>>
             /\ LET found == answers \o answer
                IN  /\ answers' = IF batches = {batch} THEN <<>> ELSE found
                    /\ failed' = (failed /\ ~ok)
                    /\ batches' = batches \ {batch}
                    /\ IF batches = {batch} THEN RankingEnds(found, failed /\ ~ok)
                       ELSE UNCHANGED <<stage, ranked>>
    /\ UNCHANGED <<amount, tree, chain, advice, assessed, hearing, defence, summary>>

\* Of the two calls of asyncio.gather the last to return lets the advice begin.
PathsReturn ==
    /\ stage = "paths" /\ tree = NoTree
    /\ tree' \in {EmptyTree} \cup {Tree(items, amount.conflicts) : items \in Answers(PathItems)}
    /\ stage' = IF chain = NoChain THEN stage ELSE "advice"
    /\ UNCHANGED <<amount, batches, failed, answers, ranked, chain, advice, assessed, hearing,
                   defence, summary>>

AttacksReturn ==
    /\ stage = "paths" /\ chain = NoChain
    /\ chain' \in {EmptyChain} \cup {Chain(items) : items \in Answers(AttackItems)}
    /\ stage' = IF tree = NoTree THEN stage ELSE "advice"
    /\ UNCHANGED <<amount, batches, failed, answers, ranked, tree, advice, assessed, hearing,
                   defence, summary>>

\* Only the strategy comes from the LLM.
AdviceReturns ==
    /\ stage = "advice" /\ stage' = "admissibility"
    /\ \E strategy \in Strategies :
          advice' = Advice(ranked, tree, strategy)
    /\ UNCHANGED <<amount, batches, failed, answers, ranked, tree, chain, assessed,
                   hearing, defence, summary>>

\* The assessed copy of the index is saved and read by no later step; then the
\* issues are ordered for the hearing.
AdmissibilityReturns ==
    /\ stage = "admissibility" /\ stage' = "defence"
    /\ assessed' \in Assessments
    /\ hearing' = HearingOrder(ranked.order)
    /\ UNCHANGED <<amount, batches, failed, answers, ranked, tree, chain, advice, defence,
                   summary>>

\* The last call, and the summary.
DefenceReturns ==
    /\ stage = "defence"
    /\ \E d \in {FailedDefence} \cup {Defence(items) : items \in Answers(DefenceItems)} :
          LET s == Summary(amount, ranked, tree, chain, advice, d)
          IN  /\ defence' = d
              /\ IF Valid(amount, s)
                 THEN summary' = s /\ stage' = "done"
                 ELSE stage' = "raised" /\ UNCHANGED summary
    /\ UNCHANGED <<amount, batches, failed, answers, ranked, tree, chain, advice,
                   assessed, hearing>>

----------------------------------------------------------------------------
Init ==
    /\ stage = "start" /\ amount = NoReport
    /\ batches = Batches /\ failed = TRUE /\ answers = <<>>
    /\ ranked = Unranked
    /\ tree = NoTree /\ chain = NoChain
    /\ advice = NoAdvice /\ assessed = <<>> /\ hearing = <<>> /\ defence = NoDefence /\ summary = NoSummary

Next == Start \/ BatchReturns \/ PathsReturn \/ AttacksReturn \/ AdviceReturns
        \/ AdmissibilityReturns \/ DefenceReturns

Spec == Init /\ [][Next]_vars

----------------------------------------------------------------------------
(* Properties *)

\* Whatever the LLM makes up: the issues, key and counter evidence and gates of every
\* path, the issues and evidence of conditions, attacks and defence points, the issue,
\* claim and paths of every suggestion, its gaps and the lines of the summary refer to
\* issues of the tree, to evidence that the engine may use, to a path of the tree and
\* to a gap that exists; and every conflict of the amounts has become a blocking
\* condition, unless the call for the tree has failed, after which there are none (the
\* filters of the engines, and their order).  Two references are copied unfiltered and
\* not covered: a path's fallback and an amendment's evidence (CopiedReferencesResolve).
ReferencesResolve ==
    /\ tree # NoTree => IsDecisionPathTree(tree)
    /\ tree # NoTree /\ ~tree.failed =>
          DOMAIN amount.conflicts \subseteq {tree.blocking[n].automatic : n \in DOMAIN tree.blocking}
    /\ chain # NoChain => IsAttackChain(chain)
    /\ IsRecommendation(advice, tree)
    /\ DOMAIN assessed \subseteq Evidence
    /\ \A e \in DOMAIN assessed : assessed[e].score < 5 => assessed[e].challenged
    /\ IsDefenceChain(defence)
    /\ stage = "done" =>
          /\ Range(summary.attacks) \subseteq {chain.attacks[n].id : n \in DOMAIN chain.attacks}
          /\ summary.risk # NoIssue => ranked.issue[summary.risk].impact = "high"
          /\ (Missing # <<>> \/ Focus # <<>>) => summary.next # <<>>

\* No issue gets lost, whichever batches fail and whatever is left out of an
\* answer: the ranked tree and the hearing have every issue once, and the defence
\* chain answers it or says that it does not.
EveryIssueKept ==
    /\ Range(ranked.order) = Issues /\ IsInjective(ranked.order)
    /\ stage \in {"defence", "done"} => Range(hearing) = Issues /\ IsInjective(hearing)
    /\ stage = "done" =>
          Issues \subseteq defence.unevaluated
                           \cup {defence.points[n].issue : n \in DOMAIN defence.points}

\* The issue waits, directly or not, for issues that wait for one another.
Blocked(i) ==
    \E waiting \in SUBSET Issues :
        i \in waiting /\ \A j \in waiting : DependsOn[j] \cap waiting # {}

\* Of two issues of one phase the one that the other depends on is heard first,
\* unless a cycle is in the way ("the issue that is depended on is heard first").
DependenciesFirst ==
    \A m, n \in DOMAIN hearing :
        /\ hearing[n] \in DependsOn[hearing[m]]
        /\ PhaseOf[hearing[m]] = PhaseOf[hearing[n]]
        /\ ~Blocked(hearing[m])
        => n < m

(* What a model, a docstring or a comment of the code says and the code does not keep. *)

\* The path to fall back to (`本路径失败时降级到哪条路径的 path_id`, pipeline.py:254) is one of
\* the tree and the evidence for an amendment exists.  Both are copied without a check
\* (generator.py:801, recommender.py:530), also to a path that was left out.
CopiedReferencesResolve ==
    /\ \A n \in DOMAIN tree.paths :
          tree.paths[n].fallback \in {NoPath} \cup {tree.paths[m].id : m \in DOMAIN tree.paths}
    /\ \A n \in DOMAIN advice.amend : advice.amend[n][3] \subseteq Evidence

\* With the defendant likely to win, what goes for the whole claim or more is taken out
\* of headline and plan (`若最可能路径对被告有利，原告建议自动下调（去除攻击性表述）`,
\* recommender.py:305).  Each is searched for words of its own only.
AdviceFollowsTree ==
    stage = "done" /\ summary.internal.winner = "defendant" =>
        {summary.strategy, advice.strategy.plan} \subseteq {"none", "measured"}

\* The anchor of the claim lies between nothing and the claim, so that the summary
\* can be built (`..., ge=0, description="保底锚点`, analysis.py:752).
AnchorWithinClaim == stage # "raised" /\ summary.claim.anchor <= summary.claim.formal
=============================================================================
