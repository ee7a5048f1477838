----------------------------- MODULE CaseViews -----------------------------
(***************************************************************************)
(* What the reading endpoints of the HTTP API answer about a case: each is *)
(* a function of its CaseRecord and its audit log, or of its entry in the  *)
(* case index.  A reply is its code and what it shows; texts and           *)
(* timestamps are left out, and so are the progress lines, which live in   *)
(* memory only.                                                            *)
(***************************************************************************)
EXTENDS CaseService

\* A reply shows the materials in a field of their own: none is taken for one of the
\* other things that a reply shows.
ASSUME ViewsAssumption ==
    Mats \cap (EventType \cup ArtifactName \cup ArtifactFile \cup {"extraction", "analysis"}) = {}

\* evidence and issues are the two lists of the extraction, report is has_report.
Reply(code) ==
    [code |-> code, status |-> "absent", review |-> "none", run |-> FALSE, report |-> FALSE,
     evidence |-> "none", issues |-> "none", shows |-> {}]
Shows(things) == [Reply(200) EXCEPT !.shows = things]
FoundIf(there, things) == IF there THEN Shows(things) ELSE Reply(404)

\* record.analysis_data comes and goes together with one of the artifacts.
HasExtraction(r) == r.ext # "none"
HasAnalysis(r) == "analysis_summary.json" \in r.arts
Parts(r) == (IF HasExtraction(r) THEN {"extraction"} ELSE {})
            \cup (IF HasAnalysis(r) THEN {"analysis"} ELSE {})
Log(r) == IF r.wm THEN events ELSE {}

\* The content of extraction_data in a reply.
WithExtraction(reply, r) ==
    [reply EXCEPT !.evidence = r.ext, !.issues = IF HasExtraction(r) THEN r.tree ELSE "none"]

\* GET /api/cases/{case_id}
GetCase(r) ==
    [Shows(Parts(r)) EXCEPT !.status = r.status, !.review = r.review, !.run = r.run]

\* GET .../events
GetEvents(r) == Shows(Log(r))

\* GET .../extraction
GetExtraction(r) ==
    IF r.status = "extracting" THEN Reply(202)
    ELSE IF r.status = "failed" THEN Reply(500)
    ELSE IF ~HasExtraction(r) THEN Reply(400)
    ELSE WithExtraction([Reply(200) EXCEPT !.status = r.status], r)

\* GET .../result
GetResult(r) ==
    [Shows(r.arts \cup (Parts(r) \ {"extraction"})) EXCEPT !.status = r.status, !.run = r.run]

\* GET .../artifacts and .../artifacts/{artifact_name}
ListArtifacts(r) == Shows(r.arts)
GetArtifact(r, name) == FoundIf(name \in r.arts, {name})

\* GET .../report and .../report/markdown
DownloadReport(r) ==
    IF r.status # "analyzed" THEN Reply(400) ELSE FoundIf(r.report, {"report.docx"})
GetMarkdown(r) == FoundIf("report.md" \in r.arts, {"report.md"})

\* CaseExporter.build_snapshot: the whole case in one JSON object.
Snapshot(r) ==
    WithExtraction([Shows((Parts(r) \ {"extraction"}) \cup r.mats \cup Log(r))
                      EXCEPT !.status = r.status, !.review = r.review], r)

\* GET .../export, and the entry of the case in the ZIP file of the bulk export.
FileOf(format) == IF format = "markdown" THEN "report.md" ELSE "report.docx"
ExportCase(r, format) ==
    IF format = "json" THEN Snapshot(r)
    ELSE FoundIf(Deliverable(r, format), {FileOf(format)})
BulkEntry(r, format) ==
    IF format = "json" THEN Snapshot(r)
    ELSE Shows({FileOf(f) : f \in {g \in {format} : Deliverable(r, g)}})

\* GET /api/cases, a query of the case index: what the entry of this case shows under a
\* filter of its status.
ListCases(entry, status) ==
    IF status \in {"any", entry.status}
    THEN [Shows({}) EXCEPT !.status = entry.status, !.review = entry.review,
                           !.report = entry.hasReport]
    ELSE Shows({})

\* GET .../reviews: the current status; the review files are not modelled.
ListReviews(r) == [Shows({}) EXCEPT !.review = r.review]

----------------------------------------------------------------------------
(* Properties *)

\* What a restart may take from the answers about an analysed case, and nothing else:
\* a material whose upload ended during or after the analysis is gone; the issues are
\* shown as they were drafted, without the edits of POST confirm, and the evidence as
\* the debate has promoted it, where the running process shows it as extracted
\* (_load_from_disk, service.py:261-267); the case list no longer tells of a report
\* (case_index.py:149).  Verdict, review, run, audit log, artifacts, reports and the
\* evidence that a scenario is run on are there as before (api/README.md:72-75).
Late == rec.mats \ meta.mats
WithoutLate(reply) == [reply EXCEPT !.shows = @ \ Late]
Reread(reply) == [reply EXCEPT !.evidence = "promoted", !.issues = "drafted"]
WithoutReport(reply) == [reply EXCEPT !.report = FALSE]

AnalyzedSurvivesRestart ==
    held = "store" /\ ~LoopBusy /\ rec.status = "analyzed"
      => /\ Restored.ev = rec.ev
         /\ GetCase(Restored) = GetCase(rec)
         /\ GetEvents(Restored) = GetEvents(rec)
         /\ GetExtraction(Restored) = Reread(GetExtraction(rec))
         /\ GetResult(Restored) = GetResult(rec)
         /\ ListArtifacts(Restored) = ListArtifacts(rec)
         /\ \A name \in ArtifactName : GetArtifact(Restored, name) = GetArtifact(rec, name)
         /\ DownloadReport(Restored) = DownloadReport(rec)
         /\ GetMarkdown(Restored) = GetMarkdown(rec)
         /\ ListReviews(Restored) = ListReviews(rec)
         /\ \A status \in CaseStatus \cup {"any"} :
               ListCases(EntryOfMeta(meta), status) = WithoutReport(ListCases(index, status))
         /\ Snapshot(Restored) = Reread(WithoutLate(Snapshot(rec)))
         /\ \A format \in ExportFormats \ {"json"} :
               /\ ExportCase(Restored, format) = ExportCase(rec, format)
               /\ BulkEntry(Restored, format) = BulkEntry(rec, format)

(* What the documents say and the code does not keep. *)

\* The state of a case is recovered (api/README.md:72): no answer tells that it was
\* restored.  The extraction that is shown changes, for the issues are read from
\* issue_tree.json, which POST confirm does not write, and the evidence from
\* evidence_index.json, which the analysis has written again; so does the case list.
ExtractionSurvivesRestart ==
    held = "store" /\ ~LoopBusy /\ rec.status = "analyzed" =>
        GetExtraction(Restored) = GetExtraction(rec)

ListSurvivesRestart ==
    held = "store" /\ ~LoopBusy /\ rec.status = "analyzed" =>
        ListCases(EntryOfMeta(meta), "any") = ListCases(index, "any")
=============================================================================
