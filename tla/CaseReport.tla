----------------------------- MODULE CaseReport -----------------------------
(***************************************************************************)
(* Steps 4 to 5.5 of scripts/run_case.py: the report is written as         *)
(* Markdown and saved as JSON, the Word report is made of the JSON, and    *)
(* three documents are drafted.  A process may die at any moment, also     *)
(* within a write; the command is given again with --resume, possibly with *)
(* other options.                                                          *)
(***************************************************************************)
EXTENDS ReportText, WordReport, ReportExtras

CONSTANTS
    Inputs,         \* the results of the steps before that a behaviour may begin with
    NoFile, Torn,   \* what is on disk instead of a file
    MaxRuns         \* bound on the processes of one behaviour

ASSUME CaseReportAssumption ==
    /\ \A i \in Inputs : /\ IsDebate(i.debate) /\ IsCase(i.case)
                         /\ IsRanking(i.ranked) /\ IsDecisionPathTree(i.tree)
    /\ MaxRuns \in Nat
    /\ NoFile # Torn
    /\ \A i \in Inputs, p \in Reportable :
          \A r \in {Report(i, p)} : {Saved(r), Text(r), Text(Saved(r))} \cap {NoFile, Torn} = {}

VARIABLES
    input,          \* what the earlier steps left on disk; nothing changes it
    perspective,    \* --perspective of this process
    stage,          \* what the process does next; "none": there is no process
    report,         \* the v3_report of this process
    similar,        \* similar_cases_data of this process
    md, json,       \* report.md and report_v3.json, ...
    word, alias,    \* ... the Word report and its copy report.docx, ...
    drafts,         \* ... the drafts by type: contents, NoFile or Torn
    drafted,        \* types of draft that this process is through with
    ckpt,           \* last_completed: "debate" for all steps before these
    runs

vars == <<input, perspective, stage, report, similar, md, json, word, alias, drafts,
          drafted, ckpt, runs>>

NoReportYet == [outputs |-> <<>>]

Whole(file) == file \notin {NoFile, Torn}

----------------------------------------------------------------------------
\* The command, again after a process that died or raised.
Begin(p) ==
    /\ stage \in {"none", "raised"} /\ runs < MaxRuns
    /\ runs' = runs + 1
    /\ perspective' = p /\ report' = NoReportYet /\ similar' = <<>> /\ drafted' = 0
    /\ stage' = IF ckpt = "debate" THEN "build" ELSE "rebuild"
    /\ UNCHANGED <<input, md, json, word, alias, drafts, ckpt>>

\* Step 4, write_v3_report_md: no model for a "judge", no file for a refused report.
WriteReport ==
    /\ stage = "build"
    /\ IF perspective \notin Reportable THEN stage' = "raised" /\ UNCHANGED <<report, md>>
       ELSE \E r \in {Report(input, perspective)} :
              IF Refused(r) THEN stage' = "raised" /\ UNCHANGED <<report, md>>
              ELSE stage' = "json" /\ report' = r /\ md' = Text(r)
    /\ UNCHANGED <<input, perspective, similar, json, word, alias, drafts, drafted, ckpt, runs>>

WriteJson ==
    /\ stage = "json" /\ stage' = "outputs"
    /\ json' = Saved(report)
    /\ UNCHANGED <<input, perspective, report, similar, md, word, alias, drafts, drafted,
                   ckpt, runs>>

\* Mutant: the checkpoint is saved before the JSON is written.
SaveOutputs_Early ==
    /\ stage \in {"json", "outputs"}
    /\ stage' = "search" /\ ckpt' = "outputs"
    /\ UNCHANGED <<input, perspective, report, similar, md, json, word, alias, drafts,
                   drafted, runs>>

SaveOutputs ==
    /\ stage = "outputs" /\ stage' = "search" /\ ckpt' = "outputs"
    /\ UNCHANGED <<input, perspective, report, similar, md, json, word, alias, drafts,
                   drafted, runs>>

\* Step 4 of a resumed run, rebuild_from_artifacts: the report of the JSON, whatever
\* perspective this command asks for.
RebuildReport ==
    /\ stage = "rebuild"
    /\ IF json = NoFile THEN stage' = "search" /\ UNCHANGED md
       ELSE IF json = Torn \/ Refused(json) THEN stage' = "raised" /\ UNCHANGED md
       ELSE stage' = "rebuild word" /\ md' = Text(json)
    /\ UNCHANGED <<input, perspective, report, similar, json, word, alias, drafts, drafted,
                   ckpt, runs>>

\* It also makes the Word report again, if it can: without similar cases, and without
\* a copy.
RebuildWord ==
    /\ stage = "rebuild word" /\ stage' = "search"
    /\ word' \in {word, WordDocument(json, <<>>)}
    /\ UNCHANGED <<input, perspective, report, similar, md, json, alias, drafts, drafted,
                   ckpt, runs>>

\* Step 4.5, if it is asked for, at every resume again.
Search ==
    /\ stage = "search"
    /\ similar' \in SearchResults
    /\ stage' = IF ckpt = "outputs" THEN "word" ELSE "copy"
    /\ UNCHANGED <<input, perspective, report, md, json, word, alias, drafts, drafted, ckpt,
                   runs>>

\* Step 5; a failure is a warning.
WriteWord ==
    /\ stage = "word"
    /\ \/ Whole(json) /\ stage' = "alias" /\ word' = WordDocument(json, similar)
       \/ stage' = "docx" /\ UNCHANGED word
    /\ UNCHANGED <<input, perspective, report, similar, md, json, alias, drafts, drafted, ckpt,
                   runs>>

\* _ensure_report_docx_alias
CopyWord ==
    /\ stage = "alias" /\ stage' = "docx" /\ alias' = word
    /\ UNCHANGED <<input, perspective, report, similar, md, json, word, drafts, drafted, ckpt,
                   runs>>

\* Step 5 of a resumed run that has done it: the copy, if only that is missing.
CopyMissing ==
    /\ stage = "copy"
    /\ alias' = IF alias = NoFile THEN word ELSE alias
    /\ stage' = IF ckpt = "docx" THEN "drafts" ELSE "done"
    /\ UNCHANGED <<input, perspective, report, similar, md, json, word, drafts, drafted, ckpt,
                   runs>>

SaveDocx ==
    /\ stage = "docx" /\ stage' = "drafts" /\ ckpt' = "docx"
    /\ UNCHANGED <<input, perspective, report, similar, md, json, word, alias, drafts, drafted,
                   runs>>

\* Step 5.5: one draft after the other; what cannot be drafted leaves no file.
WriteDraft ==
    /\ stage = "drafts" /\ drafted < Len(DocTypes)
    /\ LET type == DocTypes[drafted + 1]
       IN  \E draft \in DraftResults(type, Evidence # {}) :
             drafts' = IF draft = NoDraft THEN drafts ELSE [drafts EXCEPT ![type] = draft]
    /\ drafted' = drafted + 1
    /\ UNCHANGED <<input, perspective, stage, report, similar, md, json, word, alias, ckpt, runs>>

SaveDocuments ==
    /\ stage = "drafts" /\ drafted = Len(DocTypes)
    /\ stage' = "done" /\ ckpt' = "documents"
    /\ UNCHANGED <<input, perspective, report, similar, md, json, word, alias, drafts, drafted,
                   runs>>

\* The process dies, between two writes or within the next one: write_text, save and
\* copyfile open the file for writing first.
Crash ==
    /\ stage \notin {"none", "raised", "done"} /\ stage' = "none"
    /\ \/ UNCHANGED <<md, json, word, alias, drafts>>
       \/ /\ md' = IF stage \in {"build", "rebuild"} THEN Torn ELSE md
          /\ json' = IF stage = "json" THEN Torn ELSE json
          /\ word' = IF stage \in {"word", "rebuild word"} THEN Torn ELSE word
          /\ alias' = IF \/ stage = "alias"
                         \/ stage = "copy" /\ alias = NoFile /\ word # NoFile
                      THEN Torn ELSE alias
          /\ drafts' = IF stage = "drafts" /\ drafted < Len(DocTypes)
                       THEN [drafts EXCEPT ![DocTypes[drafted + 1]] = Torn] ELSE drafts
    /\ report' = NoReportYet /\ similar' = <<>> /\ drafted' = 0
    /\ UNCHANGED <<input, perspective, ckpt, runs>>

----------------------------------------------------------------------------
Init ==
    /\ input \in Inputs
    /\ perspective = "neutral" /\ stage = "none" /\ report = NoReportYet /\ similar = <<>>
    /\ md = NoFile /\ json = NoFile /\ word = NoFile /\ alias = NoFile
    /\ drafts = [type \in Range(DocTypes) |-> NoFile]
    /\ drafted = 0 /\ ckpt = "debate" /\ runs = 0

Next ==
    \/ \E p \in Perspectives : Begin(p)
    \/ WriteReport \/ WriteJson \/ SaveOutputs \/ RebuildReport \/ RebuildWord
    \/ Search \/ WriteWord \/ CopyWord \/ CopyMissing \/ SaveDocx \/ WriteDraft
    \/ SaveDocuments \/ Crash

Spec == Init /\ [][Next]_vars

----------------------------------------------------------------------------
(* Properties *)

\* A report has just been built; no step changes it.
Built == stage = "json"

ParentsCycle == \E loop \in SUBSET Issues : loop # {} /\ \A i \in loop : Parent[i] \in loop

\* The issue map of a report is a forest that shows every issue once, whatever the
\* parents, the overlaps and the scores are: a card follows its parent's, one level
\* deeper, and only a cycle of parents makes more roots than there may be
\* (issue_map.py, _merge_roots and the orphan pass of build_issue_map).
MapIsForest ==
    LET cards == report.core.issues
        roots == {n \in DOMAIN cards : cards[n].parent = NoParent}
    IN  Built =>
          /\ {cards[n].issue : n \in DOMAIN cards} = Issues
          /\ Len(cards) = NIssues
          /\ \A n \in DOMAIN cards :
                IF cards[n].parent = NoParent THEN cards[n].depth = 0
                ELSE \E m \in 1..n - 1 : /\ cards[m].issue = cards[n].parent
                                         /\ cards[n].depth = cards[m].depth + 1
          /\ Cardinality(roots) <= MaxRoots \/ ParentsCycle

\* The scenario tree is one tree: every question is reached from the first one, in
\* one way, and its numbers go up on the way down, so that reading it ends; every
\* blocking condition and every path is asked for once
\* (build_scenario_tree_from_decision_paths).
ScenarioTreeSound ==
    LET tree == report.core.scenario
        before(n) == {m \in DOMAIN tree : n \in Following(tree, m)}
        about == [n \in DOMAIN tree |-> tree[n].about]
    IN  Built =>
          /\ \A n \in DOMAIN tree :
                /\ n # 1 => Cardinality(before(n)) = 1
                /\ \A m \in before(n) : m < n
                /\ tree[n].yes[1] = "question" => tree[n].yes # tree[n].no
          /\ Len(tree) = Len(input.tree.paths) + Len(input.tree.blocking)
          /\ \A n \in DOMAIN input.tree.paths : <<"path", input.tree.paths[n].id>> \in Range(about)

\* What the agents wrote can be repaired, there is something to show, and their empty
\* sections are not too many among theirs and the report's.
Repairable ==
    LET headings == input.debate.headings
    IN  /\ input.debate.flaws \subseteq {"known_id", "ragged"}
        /\ \A n \in DOMAIN headings : headings[n].title = <<Head(headings[n].title)>>
        /\ 5 * Cardinality({n \in DOMAIN headings : ~headings[n].text}) <= Len(headings) + 5
        /\ Issues # {} /\ Evidence # {} /\ input.case.events # <<>>

\* A long run is not lost at its end: no report is refused whose only flaws are ones
\* that the pipeline repairs itself, nor is one that has been written refused by a
\* resume (report_writer.py, report_fixer.py and render_contract.py together).
RepairableIsWritten ==
    stage = "raised" => ~Repairable \/ (perspective = "judge" /\ ckpt = "debate")

\* Whenever no process is at work, the files agree with the checkpoint and with each
\* other, wherever the processes died and whichever perspectives they asked for: a
\* saved step can be read back, the Markdown has the sections of the saved report, and
\* the Word reports show that report, with or without similar cases, all of them in
\* the index; an opinion has an item for everything that it cites (run_case.py: the
\* checkpoint is last).
FilesAgree ==
    /\ stage \in {"none", "raised", "done"} /\ ckpt # "debate" =>
          /\ Whole(json) /\ ~Refused(json)
          /\ md # Torn => md.sections = Text(json).sections
          /\ \A file \in {word, alias} :
                Whole(file) => file \in {WordDocument(json, s) : s \in SearchResults}
    /\ stage = "done" => Whole(md)
    /\ Range(similar) \subseteq Range(CourtCases)
    /\ Whole(drafts["cross_exam"]) =>
          LET opinion == Head(drafts["cross_exam"])
          IN  Range(opinion.cites) \subseteq Range(opinion.opinions)

(* What the documents say and the code does not keep. *)

\* A run that was resumed ends with the report that it would have ended with
\* (plans/v3-plan.md:287).
ResumeIsIdempotent ==
    stage = "done" => \E r \in {Report(input, p) : p \in Reportable} : md = Text(r)

\* Evidence that is named in a conflict between the parties is not undisputed
\* (fact_base.py:5).
FactsUndisputed ==
    Built =>
      \A n \in DOMAIN input.debate.conflicts :
        Range(report.core.facts) \cap (input.debate.conflicts[n].plaintiff
                                    \cup input.debate.conflicts[n].defendant) = {}
=============================================================================
