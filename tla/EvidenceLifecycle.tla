-------------------------- MODULE EvidenceLifecycle --------------------------
(***************************************************************************)
(* The evidence state machine as operators on one item and on a board      *)
(* (the evidence index: one item per evidence id).                         *)
(***************************************************************************)
EXTENDS FiniteSets

CONSTANTS
    Evidence,           \* evidence ids
    Parties,            \* party ids
    Owner,              \* owner_party_id of each evidence
    NoParty             \* submitted_by_party_id is None

ASSUME EvidenceAssumption ==
    /\ Owner \in [Evidence -> Parties]
    /\ NoParty \notin Parties

EvidenceStatus == {"private", "submitted", "challenged", "admitted_for_discussion"}
AccessDomain == {"owner_private", "shared_common", "admitted_record"}

\* _LEGAL_TRANSITIONS
LegalTransitions ==
    [private |-> {"submitted"},
     submitted |-> {"challenged", "admitted_for_discussion"},
     challenged |-> {"admitted_for_discussion", "submitted"},
     admitted_for_discussion |-> {}]

\* Mutant: a challenge takes the evidence off the shared table.
DomainMap_ChallengeHides ==
    [private |-> "owner_private", submitted |-> "shared_common",
     challenged |-> "owner_private", admitted_for_discussion |-> "admitted_record"]

\* _DOMAIN_MAP
DomainMap ==
    [private |-> "owner_private", submitted |-> "shared_common",
     challenged |-> "shared_common", admitted_for_discussion |-> "admitted_record"]

Item == [status : EvidenceStatus, domain : AccessDomain,
         submittedBy : Parties \cup {NoParty}, challengedBy : SUBSET Parties]

\* What the indexer produces.
PrivateItem == [status |-> "private", domain |-> "owner_private",
                submittedBy |-> NoParty, challengedBy |-> {}]

\* transition() raises IllegalTransitionError exactly when this is false.
CanTransition(e, item, new, actor) ==
    /\ new \in LegalTransitions[item.status]
    /\ item.status = "private" => actor = Owner[e]
    /\ new = "challenged" => actor # Owner[e]

\* transition(): the access domain follows the status.
Transition(item, new, actor) ==
    [status |-> new,
     domain |-> DomainMap[new],
     submittedBy |-> IF item.status = "private" THEN actor ELSE item.submittedBy,
     challengedBy |-> item.challengedBy \cup (IF new = "challenged" THEN {actor} ELSE {})]

Submit(item, party) == Transition(item, "submitted", party)
Challenge(item, party) == Transition(item, "challenged", party)
Admit(item) == Transition(item, "admitted_for_discussion", NoParty)

\* Mutant: nobody checks whose evidence a party submits.
BulkSubmitRaises_Never(board, party, ids) == FALSE

\* bulk_submit: only private items move, and each must be the party's own.
BulkSubmitRaises(board, party, ids) ==
    \E e \in ids : board[e].status = "private" /\ Owner[e] # party
BulkSubmit(board, party, ids) ==
    [e \in Evidence |-> IF e \in ids /\ board[e].status = "private"
                        THEN Submit(board[e], party) ELSE board[e]]
=============================================================================
