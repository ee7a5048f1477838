----------------------------- MODULE CaseIntake -----------------------------
(***************************************************************************)
(* EvidenceIndexer and IssueExtractor: what the rules make of the evidence *)
(* items and of the issue tree that the LLM returns.  An answer is         *)
(* arbitrary; what is not accepted raises, and the whole step with it.     *)
(***************************************************************************)
EXTENDS Naturals, SequencesExt, FiniteSetsExt, LlmAnswer

CONSTANTS
    PlaintiffMaterials, DefendantMaterials,     \* source ids of the materials
    Claims, Defenses,   \* claim and defence ids
    MadeUp,         \* ids of sources, evidence and issues that the LLM invents
    Names,          \* temporary names that it gives to issues
    Blank,          \* an empty string
    EvidenceItems,  \* the evidence items that it may return, ...
    IssueItems,     \* ... the issues, ...
    MaxItems        \* ... and how many of either at a time

Materials == PlaintiffMaterials \cup DefendantMaterials
Parties == {"plaintiff", "defendant"}

\* An evidence item is whole if it has the fields that LLMEvidenceItem requires,
\* an issue if it has a title.
EvidenceItem == [source : Materials \cup MadeUp \cup {Blank}, whole : BOOLEAN]
EvidenceId == (Parties \X Nat) \cup MadeUp
Reference == Names \cup MadeUp \cup ({"issue"} \X Nat)
IssueItem == [name : Names \cup {Blank}, parent : Reference \cup {Blank},
              evidence : SUBSET EvidenceId, whole : BOOLEAN]

ASSUME IntakeAssumption ==
    /\ PlaintiffMaterials # {} /\ DefendantMaterials # {} /\ Claims # {}
    /\ Claims \cap Defenses = {}
    /\ Blank \notin Materials \cup MadeUp \cup Names
    /\ EvidenceItems \subseteq EvidenceItem
    /\ IssueItems \subseteq IssueItem
    /\ MaxItems \in Nat

Answers(Items) == UNION {[1..n -> Items] : n \in 0..MaxItems}

----------------------------------------------------------------------------
(* EvidenceIndexer *)

\* The sources of the items, in order; item n gets the id <<party, n>>.
Sources(items) ==
    [n \in DOMAIN items |-> IF items[n].source = Blank THEN <<"material", n>> ELSE items[n].source]

\* One bad item or one material without evidence refuses the whole answer.
IndexAccepted(items, materials) ==
    /\ \A n \in DOMAIN items : items[n].whole
    /\ materials \subseteq Range(Sources(items))

IdsOf(index) == UNION {{p} \X DOMAIN index[p] : p \in Parties}

----------------------------------------------------------------------------
(* IssueExtractor *)

\* The name by which an answer refers to its issue n, given or by default.
NameOf(items, n) == IF items[n].name = Blank THEN <<"tmp", n>> ELSE items[n].name

\* tmp_to_proper, as a set: the number of the last issue of that name, or that of a
\* proper id <<"issue", n>>.  Issues of one name so get one id.
Proper(items, ref) ==
    LET named == {n \in DOMAIN items : NameOf(items, n) = ref}
    IN  IF named # {} THEN {Max(named)} ELSE {n \in DOMAIN items : ref = <<"issue", n>>}

IdOf(items, n) == Max({m \in DOMAIN items : NameOf(items, m) = NameOf(items, n)})

\* Mutant: the fallback is for answers without any burden.
Burdened_AllOrNothing(items, burdens) ==
    IF burdens = {} THEN {IdOf(items, n) : n \in DOMAIN items}
    ELSE UNION {Proper(items, b) : b \in burdens}

\* The issues that some burden is about.  An issue at the top that no burden names
\* gets one whose party is unknown.
Burdened(items, burdens) ==
    (UNION {Proper(items, b) : b \in burdens})
        \cup {IdOf(items, n) : n \in {m \in DOMAIN items :
                 Proper(items, items[m].parent) = {} /\ NameOf(items, m) \notin burdens}}

\* What a claim or a defence is mapped to: what the answer says, unknown references
\* included, or the first issue.
MappedTo(items, mapping) ==
    IF mapping # {}
    THEN UNION {IF Proper(items, r) = {} THEN {r} ELSE Proper(items, r) : r \in mapping}
    ELSE IF items = <<>> THEN {} ELSE {IdOf(items, 1)}

\* No title, or a burden of an unknown issue: the models refuse it.
TreeAccepted(items, burdens) ==
    /\ \A n \in DOMAIN items : items[n].whole
    /\ \A b \in burdens : Proper(items, b) # {}

\* _build_issue_tree.  A claim or defence that is mapped to nothing has no mapping.
Tree(items, burdens, mapping, known) ==
    LET mapped(names) == [c \in {d \in names : MappedTo(items, mapping[d]) # {}} |->
                            MappedTo(items, mapping[c])]
    IN  [ids |-> [n \in DOMAIN items |-> IdOf(items, n)],
         parent |-> [n \in DOMAIN items |-> Proper(items, items[n].parent)],
         evidence |-> [n \in DOMAIN items |-> items[n].evidence \cap known],
         burdened |-> Burdened(items, burdens),
         claims |-> mapped(Claims), defenses |-> mapped(Defenses)]

\* validate_issue_tree, which the tests call and the pipeline does not: the errors
\* that it finds in a tree.
IssueTreeErrors(tree) ==
    LET issues == DOMAIN tree.ids
    IN  {<<"duplicate", n>> : n \in {m \in issues : \E k \in 1..m - 1 : tree.ids[k] = tree.ids[m]}}
        \cup {<<"dangling", n>> : n \in {m \in issues : ~tree.parent[m] \subseteq Range(tree.ids)}}
        \cup {<<"no burden", n>> :
                n \in {m \in issues : tree.parent[m] = {} /\ tree.ids[m] \notin tree.burdened}}
        \cup {<<"unmapped", c>> : c \in {d \in DOMAIN tree.claims : tree.claims[d] = {}}}
        \cup {<<"unmapped", c>> : c \in {d \in DOMAIN tree.defenses : tree.defenses[d] = {}}}
=============================================================================
