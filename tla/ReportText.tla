----------------------------- MODULE ReportText -----------------------------
(***************************************************************************)
(* write_v3_report_md: the report as Markdown, with the repairs and the    *)
(* render contract that decide whether it is written.                      *)
(*                                                                         *)
(* A text is its major sections, that is what follows each "## " line, the *)
(* evidence that has a key card in it, with a heading of its own, and the  *)
(* flaws in it.  A section is empty, a placeholder, or has text.           *)
(***************************************************************************)
EXTENDS ReportLayers

Part(title, body) == [title |-> <<title>>, body |-> body]
Shown(s) == IF s = <<>> THEN "fallback" ELSE "text"

\* render_layer1_md.  What follows the last line of a layer, up to the first section
\* of the next, belongs to its last section.
CoverParts(r) ==
    <<Part("A", "text"), Part("B", "text"), Part("C", "text"),
      Part("D", Shown(r.cover.timeline)), Part("E", "text")>>

\* render_layer2_md
CoreParts(r) ==
    <<Part("2.1", Shown(r.core.facts)),
      Part("2.2", IF r.core.issues = <<>> THEN "empty" ELSE "text"),
      Part("2.3", Shown(r.core.cards \o r.core.matrix)), Part("2.4", "text")>>

\* _render_perspective_md: a list is written only if it has items.
Blank(o) == o.supplement \o o.cross \o o.questions \o o.plans \o o.boundaries = <<>>
            /\ o.strategy = {}

OutputParts(r) ==
    [n \in DOMAIN r.outputs |->
        Part(r.outputs[n].party,
             IF Blank(r.outputs[n]) /\ n < Len(r.outputs) THEN "empty" ELSE "text")]

\* render_layer4_md.  The transcripts are written as they are, headings included; the
\* amounts never are, as the report has none of the fields that the table is made of.
AppendixParts(r) ==
    <<Part("4.1", "text")>>
        \o [n \in DOMAIN r.appendix.headings |->
              [title |-> r.appendix.headings[n].title,
               body |-> IF r.appendix.headings[n].text THEN "text" ELSE "empty"]]
        \o <<Part("4.2", "text"), Part("4.3", Shown(r.cover.timeline)), Part("4.5", "text")>>

Rendered(r) ==
    [sections |-> CoverParts(r) \o CoreParts(r) \o OutputParts(r) \o AppendixParts(r),
     keys |-> {card.evidence : card \in {c \in Range(r.core.cards) : c.key}},
     flaws |-> r.appendix.flaws]

----------------------------------------------------------------------------
(* Repairs *)

\* _fill_empty_major_sections
Filled(t) ==
    [t EXCEPT !.sections = [n \in DOMAIN @ |->
        IF @[n].body = "empty" THEN [@[n] EXCEPT !.body = "fallback"] ELSE @[n]]]

\* humanize_text
Humanized(t) == [t EXCEPT !.flaws = @ \ {"known_id"}]

\* Mutant: the titles stay as they are.
Renumbered_Never(sections) == sections

\* fix_duplicate_headings: the second section of a title gets a 2, and so on, whether
\* or not another one has that title already.
Renumbered(sections) ==
    [n \in DOMAIN sections |->
        LET same == {m \in 1..n : sections[m].title = sections[n].title}
        IN  IF same = {n} THEN sections[n]
            ELSE [sections[n] EXCEPT !.title = Append(@, Cardinality(same))]]

\* fix_table_column_mismatch; the punctuation that the fixer changes does not matter.
Fixed(t) == [t EXCEPT !.sections = Renumbered(@), !.flaws = @ \ {"ragged"}]

----------------------------------------------------------------------------
(* The render contract *)

\* _find_duplicate_headings and _find_table_header_mismatch.
DuplicateHeadings(t) == ~IsInjective([n \in DOMAIN t.sections |-> t.sections[n].title])
TableMismatch(t) == t.flaws \cap {"ragged"}

\* The findings of lint_markdown_render_contract that are errors.  Without evidence
\* there is nothing to check a citation with.
LintErrors(t) ==
    (t.flaws \cap ({"odd_id", "known_id", "json", "blank_row"}
                     \cup (IF Evidence = {} THEN {} ELSE {"orphan"})))
    \cup TableMismatch(t)
    \cup (IF \E n \in DOMAIN t.sections : t.sections[n].body = "empty"
          THEN {"empty_major_section"} ELSE {})
    \cup (IF DuplicateHeadings(t) THEN {"duplicate_heading"} ELSE {})

Placeholders(t) == {n \in DOMAIN t.sections : t.sections[n].body = "fallback"}

\* compute_fallback_ratio: no more than a fifth.
TooHollow(t) == 5 * Cardinality(Placeholders(t)) > Len(t.sections)

\* The text that write_v3_report_md writes, or refuses to.
Text(r) == Fixed(Humanized(Filled(Rendered(r))))
Refused(r) == LintErrors(Text(r)) # {} \/ TooHollow(Text(r))
=============================================================================
