----------------------------- MODULE ReportInput -----------------------------
(***************************************************************************)
(* What the four-layer report is made of: the case and its evidence as the *)
(* report looks at them, the result of the debate, and the results of the  *)
(* engines after the debate.                                               *)
(*                                                                         *)
(* Text is what the report tells apart: whether it is there, which ids it  *)
(* mentions, and the flaws that the render contract looks for.             *)
(***************************************************************************)
EXTENDS IssueRanking, DecisionPaths, Functions

CONSTANTS
    NoParent,
    Parent,         \* Parent[i]: parent_issue_id or NoParent
    AboutCosts,     \* issues whose title is about costs
    BurdenOf,       \* BurdenOf[i]: the parties with a burden on the issue
    EvidenceList,   \* the evidence index in its order
    Kind,           \* Kind[e]: evidence_type
    Origin,         \* Origin[e]: what source and title say of where it is from
    Nature,         \* Nature[e]: what the title says it is
    Payments,       \* evidence whose metadata calls it bank or payment records
    Owner,          \* Owner[e]: owner_party_id
    Rating,         \* Rating[e]: admissibility_score in tenths, 10 unless assessed
    Challenged,     \* challenged_by_party_ids is not empty
    Described,      \* evidence with a long summary and a named source
    Mentions        \* Mentions[e]: the dated events in its summary and title

Parties == {"plaintiff", "defendant"}
Opponent(p) == IF p = "plaintiff" THEN "defendant" ELSE "plaintiff"

Kinds == {"documentary", "physical", "witness_statement", "electronic_data",
          "expert_opinion", "audio_visual", "other"}

\* Flaws of a text that the LLM wrote: an id that humanize_text knows or one that it
\* does not, raw JSON, a citation of unknown evidence, a table row of empty cells, a
\* table row with too many or too few cells, but with text in the first.
Flaw == {"known_id", "odd_id", "json", "orphan", "blank_row", "ragged"}

Event == [date : Nat, text : STRING]

\* What the case file says of dates: its timeline and summary, and its filing,
\* acceptance, hearing and later dates.
IsCase(c) == c.events \in Seq(Event) /\ c.milestones \in Seq(Event)

\* A RankedIssues: every issue once, each with its score.
IsRanking(r) ==
    /\ r.order \in Seq(Issues) /\ Range(r.order) = Issues /\ IsInjective(r.order)
    /\ Len(r.order) = NIssues
    /\ \A i \in Issues : r.issue[i].score \in Int

\* An AdversarialResult.  headings: the "## " lines within what the agents wrote,
\* with whether text follows, as it does the last one; a title "X (2)" is <<"X", 2>>.
IsDebate(d) ==
    /\ d.summarised \in BOOLEAN
    /\ d.verdict \in {"none", "plaintiff", "defendant"}
    /\ d.strongest \in [Parties -> Seq(Issues \cup MadeUp)]
    /\ d.best \in [Parties -> Seq([issue : Issues \cup MadeUp, evidence : SUBSET Evidence])]
    /\ d.conflicts \in Seq([issue : Issues \cup MadeUp, plaintiff : SUBSET (Evidence \cup MadeUp),
                            defendant : SUBSET (Evidence \cup MadeUp)])
    /\ d.unresolved \in Seq(Issues)
    /\ d.headings \in Seq(Range(d.headings))
    /\ \A n \in DOMAIN d.headings : d.headings[n].text \in BOOLEAN
    /\ d.headings # <<>> => Last(d.headings).text
    /\ d.flaws \subseteq Flaw

ASSUME ReportAssumption ==
    /\ NoParent \notin Issues \cup MadeUp
    /\ Parent \in [Issues -> Issues \cup MadeUp \cup {NoParent}]
    /\ AboutCosts \subseteq Issues
    /\ BurdenOf \in [Issues -> SUBSET Parties]
    /\ EvidenceList \in Seq(Evidence) /\ Range(EvidenceList) = Evidence
    /\ Len(EvidenceList) = Cardinality(Evidence)
    /\ Kind \in [Evidence -> Kinds]
    /\ Origin \in [Evidence -> {"authority", "screen", "other"}]
    /\ Nature \in [Evidence -> {"identity", "procedural", "other"}]
    /\ Owner \in [Evidence -> Parties]
    /\ Rating \in [Evidence -> 0..10]
    /\ Payments \cup Challenged \cup Described \subseteq Evidence
    /\ Mentions \in [Evidence -> Seq(Event)]

\* composite_score, which only the ranked issues have.
Score(ranked, i) == ranked.issue[i].score

\* sort(key=_get_composite_score, reverse=True), which keeps ties in order.
ByScore(issues, ranked) ==
    StableSort(issues, [n \in DOMAIN issues |-> -Score(ranked, issues[n])])
=============================================================================
