---------------------------- MODULE AnalysisInput ----------------------------
(***************************************************************************)
(* What the post-debate engines are given: the issue tree, the evidence    *)
(* index after the pretrial step, the findings of the debate and of the    *)
(* cross-examination, and the figures of the YAML file.                    *)
(*                                                                         *)
(* Issues are numbered in the order of the tree, which is also the order   *)
(* of their ids.                                                           *)
(***************************************************************************)
EXTENDS Ordering

CONSTANTS
    NIssues,        \* issue_tree.issues is 1..NIssues
    DependsOn,      \* DependsOn[i]: depends_on, without unknown ids
    PhaseOf,        \* PhaseOf[i]: what _classify_phase makes of type and title
    ClaimsOf,       \* ClaimsOf[i]: related_claim_ids
    Keyworded,      \* issues whose title has a word of the dispute category
    EvidenceFor,    \* EvidenceFor[i]: evidence_ids
    Evidence,       \* the evidence index
    Targets,        \* Targets[e]: target_issue_ids
    Admitted,       \* its admitted_for_discussion part
    Doubtful,       \* admissibility_status uncertain, weak or excluded, ...
    Contested,      \* ... and dispute_ratio above 0.6, which no step of the pipeline
                    \* sets before these engines run
    MadeUp,         \* ids that the LLM invents, of issues or of evidence
    MaxItems        \* bound on the items of one answer of the LLM

Issues == 1..NIssues
Phases == <<"procedural", "factual", "legal", "damages">>

ASSUME AnalysisAssumption ==
    /\ NIssues \in Nat
    /\ DependsOn \in [Issues -> SUBSET Issues]
    /\ PhaseOf \in [Issues -> Range(Phases)]
    /\ ClaimsOf \in [Issues -> Seq(STRING)]
    /\ Keyworded \subseteq Issues
    /\ EvidenceFor \in [Issues -> SUBSET (Evidence \cup MadeUp)]
    /\ Targets \in [Evidence -> SUBSET Issues]
    /\ Admitted \subseteq Evidence
    /\ Doubtful \subseteq Evidence /\ Contested \subseteq Evidence
    /\ MaxItems \in Nat
    /\ IsFiniteSet(Evidence) /\ MadeUp \cap (Issues \cup Evidence) = {}

\* The lists of items that the LLM may return.
Answers(Items) == UNION {[1..n -> Items] : n \in 0..MaxItems}
=============================================================================
