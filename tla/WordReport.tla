----------------------------- MODULE WordReport -----------------------------
(***************************************************************************)
(* docx_generator.py: the Word report that is made of report_v3.json and   *)
(* of the similar cases, if any were found.                                *)
(*                                                                         *)
(* A document is the sequence of its headings, each with what is shown     *)
(* under it.  What no saved report has, the fields of earlier versions, is *)
(* left out, and so are fonts and wording.                                 *)
(***************************************************************************)
EXTENDS ReportLayers

Under(heading, shown) == <<[heading |-> heading, shown |-> shown]>>
IfAny(heading, s) == IF s = <<>> THEN <<>> ELSE Under(heading, s)

\* generate_docx_v3_report begins with the title and the disclaimer.
WordTitle(r) == Under("title", <<r.perspective>>)
Disclaimer == Under("disclaimer", <<>>)

\* _render_v3_layer1: what is missing has no heading.
WordCover(cover) ==
    Under("A", <<"conclusion">>)
        \o Under("B", IF cover.winning = {} THEN <<"pending">> ELSE SetToSeq(cover.winning))
        \o Under("C", cover.blocking)
        \o IfAny("D", [n \in DOMAIN cover.timeline |-> cover.timeline[n].event])
        \o IfAny("E", cover.priorities)

\* The facts and the issues of _render_v3_layer2, a table for each.
WordIssues(core) ==
    Under("2.1", core.facts)
        \o Under("2.2", [n \in DOMAIN core.issues |-> <<core.issues[n].issue, core.issues[n].depth>>])

\* Its evidence.  Six questions are shown for a card with an answer to the fifth, four
\* for the others; the matrix only if there are no cards, and no scenario tree at all.
Questions(card) == IF card.reinforce # {} THEN 6 ELSE 4

WordEvidence(core) ==
    IF core.cards = <<>> THEN IfAny("2.3", core.matrix)
    ELSE (IF core.strategy = {} THEN <<>> ELSE Under("2.3", SetToSeq(core.strategy)))
         \o Under("2.4", [n \in DOMAIN core.cards |->
                            <<core.cards[n].evidence, Questions(core.cards[n])>>])

\* _render_v3_layer3: the strategy is shown only with something else.
WordOutput(o) ==
    LET lists == IfAny("supplement", o.supplement) \o IfAny("cross", o.cross)
                   \o IfAny("questions", o.questions) \o IfAny("plans", o.plans)
                   \o IfAny("boundaries", o.boundaries)
    IN  Under(o.party, <<>>) \o lists
        \o (IF lists = <<>> \/ o.strategy = {} THEN <<>>
            ELSE Under("strategy", SetToSeq(o.strategy)))

\* _render_v3_layer4: the placeholder of the amounts is shown, that of the timeline
\* is not; the headings of the transcripts are headings here too.
WordAppendix(r) ==
    Under("4.1", <<>>)
        \o [n \in DOMAIN r.appendix.headings |->
              [heading |-> r.appendix.headings[n].title, shown |-> <<>>]]
        \o Under("4.2", EvidenceList)
        \o IfAny("4.3", [n \in DOMAIN r.cover.timeline |-> r.cover.timeline[n].event])
        \o Under("4.4", <<>>) \o Under("4.5", <<"placeholder">>)

\* _render_similar_cases
WordSimilar(similar) == IfAny("similar", similar)

\* generate_docx_v3_report
WordDocument(r, similar) ==
    WordTitle(r) \o Disclaimer \o WordCover(r.cover) \o WordIssues(r.core) \o WordEvidence(r.core)
        \o FlattenSeq([n \in DOMAIN r.outputs |-> WordOutput(r.outputs[n])])
        \o WordAppendix(r) \o WordSimilar(similar)
=============================================================================
