---------------------------- MODULE ReportLayers ----------------------------
(***************************************************************************)
(* build_four_layer_report: the cover, the neutral core, what each party   *)
(* is advised, and the appendix.  No LLM; a report is a function of the    *)
(* results that it is made of.                                             *)
(***************************************************************************)
EXTENDS EvidenceCards, IssueMap, ScenarioTree

----------------------------------------------------------------------------
(* fact_base.py *)

\* The evidence of a party's best arguments; the arguments of the summary have no
\* evidence of their own.
Supporting(p, debate) == UNION {debate.best[p][n].evidence : n \in DOMAIN debate.best[p]}

MutuallyReferenced(debate) == Supporting("plaintiff", debate) \cap Supporting("defendant", debate)

ThirdPartyVerifiable(e) == Origin[e] = "authority" /\ Kind[e] \in {"documentary", "physical"}

\* disputed_ev_ids: the evidence_ids of the conflicts.  A ConflictEntry has no such
\* field, its evidence is that of either party, and getattr makes of it no evidence.
Disputed(debate) == {}

\* Evidence that a third party can confirm or that both parties rely on; then the
\* payment records, challenged or not.  No issue has fact propositions with a status.
FactBase(debate) ==
    LET agreed(e) == /\ e \notin Challenged \cup Disputed(debate)
                     /\ ThirdPartyVerifiable(e) \/ e \in MutuallyReferenced(debate)
        paid(e) == e \in Payments \ Disputed(debate) /\ ~agreed(e)
    IN  SelectSeq(EvidenceList, agreed) \o SelectSeq(EvidenceList, paid)

----------------------------------------------------------------------------
(* layer1_cover.py *)

\* _build_winning_move.  An argument counts through its issue: its cited_evidence_ids,
\* which would put evidence first, do not exist.
WinningMove(debate) ==
    LET defended == debate.verdict = "defendant" /\ debate.strongest["defendant"] # <<>>
        args == IF defended \/ debate.strongest["plaintiff"] = <<>>
                THEN debate.strongest["defendant"] ELSE debate.strongest["plaintiff"]
    IN  IF debate.summarised /\ args # <<>> THEN {Head(args)}
        ELSE {i \in Issues : i = 1}

\* _build_blocking_conditions: the first question and those that follow it, then what
\* the debate left unresolved; four at most.
BlockingConditions(debate, scenario) ==
    LET next(answer) == IF answer[1] = "question" THEN <<answer[2]>> ELSE <<>>
        asked == IF scenario = <<>> THEN <<>>
                 ELSE <<1>> \o next(scenario[1].yes) \o next(scenario[1].no)
        about(name, s) == [n \in DOMAIN s |-> <<name, s[n]>>]
    IN  FirstOf(about("question", asked) \o about("unresolved", debate.unresolved), 4)

\* The events of the timeline; those of an issue tree are not read.
Sourced(events, source, disputed) ==
    [n \in DOMAIN events |-> [event |-> events[n], source |-> source, disputed |-> disputed]]

ByDate(events) == StableSort(events, [n \in DOMAIN events |-> events[n].event.date])

Found(case) ==
    LET places == UNION {{n} \X DOMAIN Mentions[EvidenceList[n]] : n \in DOMAIN EvidenceList}
        mentioned == Arranged(places, Nested(places))
        mention(n, e) == Sourced(Mentions[e], e, e \in Challenged)[n]
    IN  Sourced(case.events, "case", FALSE)
          \o [n \in DOMAIN mentioned |-> mention(mentioned[n][2], EvidenceList[mentioned[n][1]])]

\* auto_generate_timeline: each event once, as it was found first; the milestones of
\* the case only when there are few events, and then whether they are there or not.
Timeline(case) ==
    LET found == Found(case)
        unique == At(found, {n \in DOMAIN found :
                                \A m \in 1..n - 1 : found[m].event # found[n].event})
    IN  IF Len(unique) >= 5 THEN ByDate(unique)
        ELSE ByDate(ByDate(unique) \o Sourced(case.milestones, "case", FALSE))

----------------------------------------------------------------------------
(* layer3_perspective.py *)

Own(p) == SelectSeq(EvidenceList, LAMBDA e : Owner[e] = p)
Weak(p) == SelectSeq(Own(p), LAMBDA e : Rating[e] < 7)

\* _fill_supplement_checklist_plaintiff and _defendant.
Supplement(p, supply) ==
    LET advised == FirstOf([n \in DOMAIN supply |-> <<"gap", supply[n]>>],
                           IF p = "plaintiff" THEN 5 ELSE 3)
    IN  IF Len(advised) >= 3 THEN advised
        ELSE FirstOf(advised \o [n \in DOMAIN Weak(p) |-> <<"weak", Weak(p)[n]>>], 5)

\* _fill_cross_exam: the opponent's cards, core evidence first.
CardOrder(card) ==
    CASE card.priority = "core" -> 0 [] card.priority = "supporting" -> 1 [] OTHER -> 2

OpponentCards(p, cards) ==
    LET theirs == SelectSeq(cards, LAMBDA c : Owner[c.evidence] = Opponent(p))
    IN  StableSort(theirs, [n \in DOMAIN theirs |-> CardOrder(theirs[n])])

CrossExamination(p, cards) ==
    LET attacked == SelectSeq(FirstOf(OpponentCards(p, cards), 5), LAMBDA c : c.attack # {})
    IN  [n \in DOMAIN attacked |-> attacked[n].evidence]

\* _fill_trial_questions: the conflicts, and if they are few the issues on which the
\* opponent has the burden.
OpponentBurdened(p) == SelectSeq([i \in Issues |-> i], LAMBDA i : Opponent(p) \in BurdenOf[i])

TrialQuestions(p, debate) ==
    LET conflicts == FirstOf([n \in DOMAIN debate.conflicts |-> debate.conflicts[n].issue], 5)
    IN  IF Len(conflicts) >= 3 THEN conflicts ELSE FirstOf(conflicts \o OpponentBurdened(p), 5)

ContingencyPlans(scenario) ==
    IF scenario = <<>> THEN <<>> ELSE FirstOf(Contingencies(scenario), 5)

\* _fill_over_assertion_boundaries: what is open, or else the party's own contested evidence.
Doubted(p) == FirstOf(SelectSeq(Own(p), LAMBDA e : e \in Contested), 3)

OverAssertion(p, debate) ==
    LET open == FirstOf(debate.unresolved, 3)
    IN  IF open # <<>> THEN [n \in DOMAIN open |-> <<"issue", open[n]>>]
        ELSE [n \in DOMAIN Doubted(p) |-> <<"evidence", Doubted(p)[n]>>]

\* A PerspectiveOutput; its strategy is that for electronic evidence of layer 2.
Output(p, input, cards, scenario) ==
    [party |-> p, supplement |-> Supplement(p, input.supply),
     cross |-> CrossExamination(p, cards), questions |-> TrialQuestions(p, input.debate),
     plans |-> ContingencyPlans(scenario), boundaries |-> OverAssertion(p, input.debate),
     strategy |-> CommonActions]

\* The party or parties that a report of this perspective advises.
OutputParties(perspective) ==
    IF perspective = "neutral" THEN <<"plaintiff", "defendant">> ELSE <<perspective>>

----------------------------------------------------------------------------
(* The report *)

\* The perspectives of the command line, of which a FourLayerReport has no "judge".
Perspectives == {"neutral", "plaintiff", "defendant", "judge"}
Reportable == Perspectives \ {"judge"}

\* build_layer1: what is passed in is shown as it is; a neutral conclusion is always there.
Cover(debate, scenario, timeline) ==
    [winning |-> WinningMove(debate), blocking |-> BlockingConditions(debate, scenario),
     timeline |-> timeline,
     priorities |-> [n \in DOMAIN EvidenceList |-> Priority(EvidenceList[n])]]

\* build_layer2, with no perspective in it.
Core(input, scenario) ==
    [facts |-> FactBase(input.debate),
     issues |-> IssueCards(input.ranked, input.chain, input.debate),
     cards |-> Cards(input.chain), matrix |-> BattleMatrix, strategy |-> CommonActions,
     scenario |-> scenario]

\* build_layer3: a report for one party advises that party only.
Outputs(perspective, input, cards, scenario) ==
    LET parties == OutputParties(perspective)
    IN  [n \in DOMAIN parties |-> Output(parties[n], input, cards, scenario)]

\* build_layer4: the transcripts, with the headings and flaws of the LLM's prose; the
\* other parts are tables.
Appendix(debate) == [headings |-> debate.headings, flaws |-> debate.flaws]

\* build_four_layer_report.  ranked, tree and chain are what the engines returned,
\* supply the gaps that are advised, case what the case file says of dates.
Report(input, perspective) ==
    LET scenario == Scenario(input.tree)
        core == Core(input, scenario)
    IN  [perspective |-> perspective,
         cover |-> Cover(input.debate, scenario, Timeline(input.case)),
         core |-> core,
         outputs |-> Outputs(perspective, input, core.cards, scenario),
         appendix |-> Appendix(input.debate)]

\* What report_v3.json keeps of it.
Saved(report) ==
    [report EXCEPT !.core.cards = [n \in DOMAIN report.core.cards |-> SavedCard(report.core.cards[n])]]
=============================================================================
