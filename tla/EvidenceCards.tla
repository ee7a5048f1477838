---------------------------- MODULE EvidenceCards ----------------------------
(***************************************************************************)
(* evidence_classifier.py and evidence_battle_matrix.py: how much a piece  *)
(* of evidence matters, how it can be attacked, and how to strengthen it.  *)
(***************************************************************************)
EXTENDS ReportInput

\* _get_l1_issue_ids: the issues without a parent id.
TopIssues == {i \in Issues : Parent[i] = NoParent}

\* classify_evidence_priority
InBackground(e) ==
    \/ Nature[e] = "identity"
    \/ Nature[e] = "procedural" /\ Kind[e] = "documentary"
    \/ Targets[e] \subseteq AboutCosts

Priority(e) ==
    CASE InBackground(e) -> "background"
      [] ~InBackground(e) /\ Targets[e] \cap TopIssues # {}
           /\ (Rating[e] >= 5 \/ e \notin Challenged) -> "core"
      [] OTHER -> "supporting"

\* classify_evidence_risk; is_copy_only is set by nobody.
Risk(e) ==
    CASE e \in Challenged -> IF Rating[e] < 5 THEN "red" ELSE "yellow"
      [] e \notin Challenged /\ (Rating[e] < 3 \/ Kind[e] = "audio_visual") -> "red"
      [] e \notin Challenged /\ Rating[e] >= 3 /\ Kind[e] # "audio_visual"
           /\ (Origin[e] = "authority" \/ Kind[e] = "documentary") -> "green"
      [] OTHER -> "yellow"

\* What the answers of a card say when too little is known of the evidence
\* (_has_sufficient_observability): a text like any other.
Unknown == "see the original"

\* _build_key_risk; of its risks only the score is ever assessed.
KeyRisk(e) ==
    IF e \notin Described THEN {Unknown}
    ELSE IF Rating[e] < 7 THEN {"score"} ELSE {}

\* The kinds that can be attacked as such, and what strengthens evidence of each.
Strategies ==
    [electronic_data |-> {"forensics", "platform records"},
     audio_visual |-> {"full recording", "voice analysis"},
     witness_statement |-> {"testimony", "second witness"}]

\* _build_best_attack
BestAttack(e, chain) ==
    IF e \notin Described THEN {<<Unknown>>}
    ELSE {<<"attack", a.id>> : a \in {b \in Range(chain.attacks) : e \in b.evidence}}
         \cup {<<"kind", k>> : k \in {Kind[e]} \cap DOMAIN Strategies}

\* _build_reinforce_strategy
Reinforce(e) ==
    IF e \notin Described THEN {Unknown}
    ELSE (IF Kind[e] \in DOMAIN Strategies THEN Strategies[Kind[e]] ELSE {})
         \cup (IF Rating[e] < 7 THEN {"support the score"} ELSE {})

\* _build_failure_impact: the issues to assess again.
FailureImpact(e) == IF e \notin Described THEN {<<Unknown>>} ELSE {<<"issue", i>> : i \in Targets[e]}

\* _extract_unified_electronic_strategy: what is advised for most of the electronic
\* evidence, or for three pieces of it.
Electronic == {e \in Described : Kind[e] = "electronic_data"}

CommonActions ==
    LET advised(a) == {e \in Electronic : a \in Reinforce(e)}
    IN  {a \in UNION {Reinforce(e) : e \in Electronic} :
            Cardinality(advised(a)) >= Min({3, Cardinality(Electronic) \div 2 + 1})}

\* An EvidenceKeyCard if key, or else an EvidenceBasicCard, which has no answers to
\* the last two questions.
Card(e, chain) ==
    LET key == Priority(e) = "core"
        own == IF e \in Electronic THEN Reinforce(e) \ CommonActions ELSE Reinforce(e)
    IN  [evidence |-> e, priority |-> Priority(e), key |-> key,
         target |-> Targets[e], risk |-> KeyRisk(e), attack |-> BestAttack(e, chain),
         reinforce |-> IF key THEN own ELSE {},
         impact |-> IF key THEN FailureImpact(e) ELSE {}]

\* build_evidence_cards
Cards(chain) == [n \in DOMAIN EvidenceList |-> Card(EvidenceList[n], chain)]

\* build_evidence_battle_matrix, which is shown only when there are no cards.
BattleMatrix ==
    [n \in DOMAIN EvidenceList |-> [evidence |-> EvidenceList[n], risk |-> Risk(EvidenceList[n])]]

\* Layer2Core.evidence_cards is a list of EvidenceBasicCard: what is saved of a key
\* card are the fields of a basic one.
SavedCard(card) == [card EXCEPT !.key = FALSE, !.reinforce = {}, !.impact = {}]
=============================================================================
