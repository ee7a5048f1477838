----------------------------- MODULE CaseService -----------------------------
(***************************************************************************)
(* One case of the HTTP API: the in-memory CaseRecord, the files of its    *)
(* workspace, its entry in the case index, its audit events, the           *)
(* background tasks and the requests that touch it.                        *)
(*                                                                         *)
(* Cases share nothing but the CaseStore dictionary, so one case stands    *)
(* for all.  All handlers and tasks run on one asyncio event loop: code    *)
(* between two awaits is one action, except that a run of disk writes is   *)
(* one action per write, because the process may die between two of them.  *)
(* While a task is inside such a run (LoopBusy) nothing else executes.     *)
(* An audit event is appended with the change it reports, except the one   *)
(* of a finished analysis, which stands between two saves of the meta.     *)
(* CaseStore.evict_expired is called by tests only; the TTL acts in get.   *)
(***************************************************************************)
EXTENDS Naturals, FiniteSets

CONSTANTS
    PlaintiffMats,      \* materials a client may submit for the plaintiff
    DefendantMats,      \* ... and for the defendant
    Uploads,            \* file uploads that may be in flight together
    Tasks,              \* background asyncio tasks that may exist together
    NoIndex,            \* record.ev_index is None
    NoMat,              \* an upload slot that is not in use
    SavesMayFail,       \* a write to the workspace may raise
    TaskMayOutliveTtl,  \* the store's TTL may pass while a task runs
    MaxRestarts         \* bound on the restarts of one behaviour

Mats == PlaintiffMats \cup DefendantMats

ASSUME CaseServiceAssumption ==
    /\ PlaintiffMats \cap DefendantMats = {}
    /\ NoMat \notin Mats
    /\ NoIndex \notin [of : SUBSET Mats, promoted : BOOLEAN]
    /\ SavesMayFail \in BOOLEAN
    /\ TaskMayOutliveTtl \in BOOLEAN
    /\ MaxRestarts \in Nat

VARIABLES
    rec,        \* the CaseRecord; meaningless while held = "gone"
    held,       \* who holds it: "store", "orphan" (evicted, tasks only), "gone"
    evicted,    \* the case id is in CaseStore._evicted
    task,       \* task[t]: where a run_extraction / run_analysis is
    upload,     \* upload[u]: the material a request is still reading
    meta,       \* case_meta.json ("absent": no file)
    files,      \* the files under artifacts/
    index,      \* the entry of the in-memory CaseIndex
    events,     \* the event types in events.jsonl
    restarts

vars == <<rec, held, evicted, task, upload, meta, files, index, events, restarts>>

----------------------------------------------------------------------------
(* Values *)

CaseStatus == {"created", "extracting", "extracted", "confirmed",
               "analyzing", "analyzed", "failed"}
ReviewStatus == {"none", "pending_review", "approved", "rejected", "revision_requested"}

\* What an evidence index tells apart: the materials it was built from, and
\* whether the evidence the debate cited has been admitted.
EvidenceIndex == {NoIndex} \cup [of : SUBSET Mats, promoted : BOOLEAN]
IssueTree == {"none", "drafted", "edited"}

\* record.extraction_data: the evidence in it, as it was before or after the debate's
\* promotion; its issues are those of the tree, which POST confirm edits in both.
ExtractionData == {"none", "private", "promoted"}
ArtifactName == {"result.json", "analysis_summary.json", "report.md"}
ArtifactFile == {"result.json", "analysis_data.json", "report.md", "report.docx"}

EventType == {"case_created", "material_added", "extraction_started", "extraction_done",
              "extraction_failed", "confirmed", "analysis_started", "analysis_done",
              "analysis_failed", "review_submitted", "exported"}

CaseRecord == [status : CaseStatus, review : ReviewStatus, mats : SUBSET Mats,
               ev : EvidenceIndex, tree : IssueTree, ext : ExtractionData, run : BOOLEAN,
               arts : SUBSET ArtifactName, report : BOOLEAN, wm : BOOLEAN]
CaseMeta == [status : CaseStatus \cup {"absent"}, review : ReviewStatus,
             mats : SUBSET Mats, run : BOOLEAN, names : SUBSET ArtifactName]
ArtifactDir == [ev : EvidenceIndex, tree : IssueTree, outs : SUBSET ArtifactFile]
IndexEntry == [status : CaseStatus \cup {"absent"}, review : ReviewStatus,
               hasReport : BOOLEAN]

NewRecord == [status |-> "created", review |-> "none", mats |-> {}, ev |-> NoIndex,
              tree |-> "none", ext |-> "none", run |-> FALSE, arts |-> {}, report |-> FALSE, wm |-> TRUE]

\* A task waits in the await pcs; the other pcs of a running task are inside
\* a stretch of code with no await.
ExtractionAwaits == {"x_begin", "x_plaintiff", "x_defendant", "x_issues"}
AnalysisAwaits == {"a_begin", "a_rounds"}
ExtractionTail == {"x_save_ev", "x_save_tree", "x_persist", "x_fail"}
AnalysisTail == {"a_save_ev", "a_save_result", "a_save_data", "a_save_md",
                 "a_save_docx", "a_save_meta", "a_event", "a_persist", "a_fail"}
TaskTail == ExtractionTail \cup AnalysisTail
TaskPc == {"idle"} \cup ExtractionAwaits \cup AnalysisAwaits \cup TaskTail
NoTask == [pc |-> "idle", seen |-> {}]

LoopBusy == \E t \in Tasks : task[t].pc \in TaskTail
Running(t) == task[t].pc # "idle"

----------------------------------------------------------------------------
(* Persistence *)

\* _record_to_meta: the durable fields of a record.
MetaOf(r) == [status |-> r.status, review |-> r.review, mats |-> r.mats, run |-> r.run,
              names |-> r.arts]
NoMeta == [status |-> "absent", review |-> "none", mats |-> {}, run |-> FALSE, names |-> {}]

\* _record_to_index_entry and _meta_to_index_entry.
EntryOf(r) == [status |-> r.status, review |-> r.review, hasReport |-> r.report]
EntryOfMeta(m) == [status |-> m.status, review |-> m.review,
                   hasReport |-> "report.docx" \in m.names]
NoEntry == EntryOfMeta(NoMeta)

\* save_to_disk(case_id) of record r, with result ok.
SaveToDisk(r, ok) ==
    /\ ok => held = "store" /\ r.wm
    /\ ~ok => SavesMayFail \/ held # "store" \/ ~r.wm
    /\ meta' = IF ok THEN MetaOf(r) ELSE meta
    /\ index' = IF ok THEN EntryOf(r) ELSE index

\* A restart dumps the files again: the promoted index, the tree without the edits.
Redumped ==
    IF files.ev = NoIndex \/ files.tree = "none" THEN "none"
    ELSE IF files.ev.promoted THEN "promoted" ELSE "private"

\* Mutants of the restore: file names taken for artifact names; the review
\* forgotten; interrupted work put back to its starting status.
Restored_FileNames ==
    [status |-> meta.status, review |-> meta.review, mats |-> meta.mats,
     ev |-> files.ev, tree |-> files.tree, ext |-> Redumped, run |-> meta.run,
     arts |-> meta.names \cup files.outs, report |-> FALSE, wm |-> TRUE]
Restored_NoReview ==
    [status |-> meta.status, review |-> "none", mats |-> meta.mats,
     ev |-> files.ev, tree |-> files.tree, ext |-> Redumped, run |-> meta.run,
     arts |-> meta.names, report |-> "report.docx" \in files.outs, wm |-> TRUE]
Restored_Requeued ==
    [status |-> IF meta.status = "analyzing" THEN "extracted" ELSE meta.status,
     review |-> meta.review, mats |-> meta.mats,
     ev |-> files.ev, tree |-> files.tree, ext |-> Redumped, run |-> meta.run,
     arts |-> meta.names, report |-> "report.docx" \in files.outs, wm |-> TRUE]

\* _load_from_disk: the record that a restarted process rebuilds.
Restored ==
    LET hasData == "analysis_data.json" \in files.outs \/ "analysis_summary.json" \in meta.names
        hasMd == "report.md" \in files.outs \cup meta.names
    IN  [status |-> meta.status, review |-> meta.review, mats |-> meta.mats,
         ev |-> files.ev, tree |-> files.tree, ext |-> Redumped, run |-> meta.run \/ hasData,
         arts |-> (meta.names \cap files.outs \cap {"result.json"})
                  \cup (IF hasData THEN {"analysis_summary.json"} ELSE {})
                  \cup (IF hasMd THEN {"report.md"} ELSE {}),
         report |-> "report.docx" \in files.outs, wm |-> TRUE]

----------------------------------------------------------------------------
(* Requests *)

\* A handler runs when the loop is free and store.get finds the case.
InStore == ~LoopBusy /\ held = "store"

\* POST /api/cases/: save_case_meta may fail, init_workspace may fail before it.
CreateCase(wmOk, metaOk) ==
    /\ held = "gone" /\ meta.status = "absent" /\ ~evicted /\ restarts = 0
    /\ metaOk => wmOk
    /\ (~wmOk \/ ~metaOk) => SavesMayFail
    /\ held' = "store"
    /\ rec' = [NewRecord EXCEPT !.wm = wmOk]
    /\ meta' = IF metaOk THEN MetaOf(NewRecord) ELSE meta
    /\ index' = EntryOf(NewRecord)
    /\ events' = events \cup (IF wmOk THEN {"case_created"} ELSE {})
    /\ UNCHANGED <<evicted, task, upload, files, restarts>>

MaterialStatuses == {"created", "extracted", "confirmed"}

\* Mutants: the status is left alone; an analysed case is reset as well.
WithMaterial_KeepsStatus(m) ==
    IF rec.status \in {"extracted", "confirmed"}
    THEN [rec EXCEPT !.mats = @ \cup {m}, !.ev = NoIndex, !.tree = "none", !.ext = "none"]
    ELSE [rec EXCEPT !.mats = @ \cup {m}]
WithMaterial_ResetsAnalyzed(m) ==
    IF rec.status \in {"extracted", "confirmed", "analyzed"}
    THEN [rec EXCEPT !.mats = @ \cup {m}, !.status = "created",
                     !.ev = NoIndex, !.tree = "none", !.ext = "none"]
    ELSE [rec EXCEPT !.mats = @ \cup {m}]

\* Append a material; an extracted or confirmed case goes back to created and
\* loses its extraction.  Only the record changes: nothing is persisted here.
WithMaterial(m) ==
    LET grown == [rec EXCEPT !.mats = @ \cup {m}]
    IN  IF rec.status \in {"extracted", "confirmed"}
        THEN [grown EXCEPT !.status = "created",
                           !.ev = NoIndex, !.tree = "none", !.ext = "none"]
        ELSE grown

LogEvents(es) == events' = events \cup (IF rec.wm THEN es ELSE {})

\* POST materials (JSON): check and append without an await.
AddMaterial(m) ==
    /\ InStore /\ rec.status \in MaterialStatuses /\ m \notin rec.mats
    /\ rec' = WithMaterial(m)
    /\ LogEvents({"material_added"})
    /\ UNCHANGED <<held, evicted, task, upload, meta, files, index, restarts>>

\* POST materials/upload up to `await file.read()`: only the check.
BeginUpload(u, m) ==
    /\ InStore /\ rec.status \in MaterialStatuses /\ m \notin rec.mats
    /\ upload[u] = NoMat
    /\ upload' = [upload EXCEPT ![u] = m]
    /\ UNCHANGED <<rec, held, evicted, task, meta, files, index, events, restarts>>

\* The rest of the upload, on the record it looked up before the await.
FinishUpload(u) ==
    /\ ~LoopBusy /\ upload[u] # NoMat
    /\ rec' = WithMaterial(upload[u])
    /\ upload' = [upload EXCEPT ![u] = NoMat]
    /\ LogEvents({"material_added"})
    /\ UNCHANGED <<held, evicted, task, meta, files, index, restarts>>

\* CaseStore._try_start and the create_task that follows it.  If the new status
\* cannot be saved the handler raises: the status stays, and no task is created.
TryStart(t, allowed, active, pc, event, ok) ==
    /\ InStore /\ rec.status \in allowed /\ ~Running(t)
    /\ rec' = [rec EXCEPT !.status = active]
    /\ SaveToDisk(rec', ok)
    /\ task' = IF ok THEN [task EXCEPT ![t] = [pc |-> pc, seen |-> {}]] ELSE task
    /\ LogEvents(IF ok THEN {event} ELSE {})
    /\ UNCHANGED <<held, evicted, upload, files, restarts>>

\* Mutant: a repeated request starts a second task.
TriggerExtraction_Repeats(t, ok) ==
    /\ rec.mats # {}
    /\ TryStart(t, {"created", "extracting"}, "extracting", "x_begin", "extraction_started", ok)

\* POST extract.  While extracting the handler only answers "already running".
TriggerExtraction(t, ok) ==
    /\ rec.mats # {}
    /\ TryStart(t, {"created"}, "extracting", "x_begin", "extraction_started", ok)

\* POST analyze.
TriggerAnalysis(t, ok) ==
    /\ rec.ev # NoIndex /\ rec.tree # "none"
    /\ TryStart(t, {"extracted", "confirmed"}, "analyzing", "a_begin", "analysis_started", ok)

\* POST confirm, possibly with edited issues; nothing is persisted.
Confirm(edits) ==
    /\ InStore /\ rec.status \in {"extracted", "confirmed"}
    /\ rec' = [rec EXCEPT !.status = "confirmed",
                          !.tree = IF edits /\ @ # "none" THEN "edited" ELSE @]
    /\ LogEvents({"confirmed"})
    /\ UNCHANGED <<held, evicted, task, upload, meta, files, index, restarts>>

ReviewTransitions ==
    [none |-> {"pending_review"},
     pending_review |-> {"approved", "rejected", "revision_requested"},
     revision_requested |-> {"pending_review"},
     approved |-> {}, rejected |-> {}]

\* Mutant: the decision stays in memory.
SubmitReview_NotSaved(action, ok) ==
    /\ InStore /\ rec.status = "analyzed"
    /\ action \in ReviewTransitions[rec.review]
    /\ rec' = [rec EXCEPT !.review = action]
    /\ index' = EntryOf(rec')
    /\ LogEvents({"review_submitted"})
    /\ UNCHANGED <<held, evicted, task, upload, meta, files, restarts>>

\* POST reviews: the index is updated whether or not the meta is then saved.
SubmitReview(action, ok) ==
    /\ InStore /\ rec.status = "analyzed"
    /\ action \in ReviewTransitions[rec.review]
    /\ rec' = [rec EXCEPT !.review = action]
    /\ ok => rec.wm
    /\ ~ok => SavesMayFail \/ ~rec.wm
    /\ meta' = IF ok THEN MetaOf(rec') ELSE meta
    /\ index' = EntryOf(rec')
    /\ LogEvents({"review_submitted"})
    /\ UNCHANGED <<held, evicted, task, upload, files, restarts>>

\* What GET export can deliver of record r, in each format.
ExportFormats == {"json", "markdown", "docx"}
Deliverable(r, format) ==
    /\ format = "markdown" => "report.md" \in r.arts
    /\ format = "docx" => r.report

\* GET export and the bulk export change nothing but the audit log; the bulk export
\* logs also what it then has no file for.
Export(format, bulk) ==
    /\ InStore /\ (bulk \/ Deliverable(rec, format))
    /\ LogEvents({"exported"})
    /\ UNCHANGED <<rec, held, evicted, task, upload, meta, files, index, restarts>>

\* store.get after the TTL: the record leaves the store, and the id is never
\* looked up on disk again by this process.  Tasks and uploads keep the record.
Expire ==
    /\ InStore
    /\ TaskMayOutliveTtl \/ \A t \in Tasks : ~Running(t)
    /\ held' = "orphan" /\ evicted' = TRUE
    /\ UNCHANGED <<rec, task, upload, meta, files, index, events, restarts>>

\* store.get of a case that is not in memory.
LoadFromDisk ==
    /\ held = "gone" /\ ~evicted /\ meta.status # "absent"
    /\ held' = "store" /\ rec' = Restored
    /\ UNCHANGED <<evicted, task, upload, meta, files, index, events, restarts>>

----------------------------------------------------------------------------
(* run_extraction *)

GoTo(t, pc) == task' = [task EXCEPT ![t].pc = pc]
RecordOnly == UNCHANGED <<held, evicted, upload, meta, files, index, events, restarts>>
FilesOnly == UNCHANGED <<rec, held, evicted, upload, meta, index, events, restarts>>

PlaintiffPart == rec.mats \cap PlaintiffMats
DefendantPart == rec.mats \cap DefendantMats

\* The materials of a party are read when its indexing starts; a party with
\* none is skipped without an await.
IndexPlaintiff(t) ==
    /\ ~LoopBusy /\ task[t].pc = "x_begin" /\ PlaintiffPart # {}
    /\ task' = [task EXCEPT ![t] = [pc |-> "x_plaintiff", seen |-> PlaintiffPart]]
    /\ UNCHANGED rec /\ RecordOnly

PlaintiffDone(t) == \/ task[t].pc = "x_plaintiff"
                    \/ task[t].pc = "x_begin" /\ PlaintiffPart = {}

IndexDefendant(t) ==
    /\ ~LoopBusy /\ PlaintiffDone(t) /\ DefendantPart # {}
    /\ task' = [task EXCEPT ![t] = [pc |-> "x_defendant", seen |-> @.seen \cup DefendantPart]]
    /\ UNCHANGED rec /\ RecordOnly

\* Both parties are indexed: keep the index and start the issue extraction.
ExtractIssues(t) ==
    /\ ~LoopBusy
    /\ task[t].pc = "x_defendant" \/ (PlaintiffDone(t) /\ DefendantPart = {})
    /\ rec' = [rec EXCEPT !.ev = [of |-> task[t].seen, promoted |-> FALSE]]
    /\ GoTo(t, "x_issues") /\ RecordOnly

ReceiveIssues(t) ==
    /\ ~LoopBusy /\ task[t].pc = "x_issues"
    /\ rec' = [rec EXCEPT !.tree = "drafted", !.ext = "private", !.status = "extracted"]
    /\ GoTo(t, IF rec.wm THEN "x_save_ev" ELSE "x_persist") /\ RecordOnly

\* A write of file f by the task: done, or raised before or after the file changed.
Write(t, next, fail, changed) ==
    \/ GoTo(t, next) /\ files' = changed
    \/ SavesMayFail /\ GoTo(t, fail) /\ files' \in {files, changed}

SaveEvidenceIndex(t) ==
    /\ \/ task[t].pc = "x_save_ev"
          /\ Write(t, "x_save_tree", "x_fail", [files EXCEPT !.ev = rec.ev])
       \/ task[t].pc = "a_save_ev"
          /\ Write(t, "a_save_result", "a_fail", [files EXCEPT !.ev = rec.ev])
    /\ FilesOnly

SaveIssueTree(t) ==
    /\ task[t].pc = "x_save_tree"
    /\ Write(t, "x_persist", "x_fail", [files EXCEPT !.tree = rec.tree])
    /\ FilesOnly

\* _persist_record_state raises when save_to_disk returns False.
FinishExtraction(t, ok) ==
    /\ task[t].pc = "x_persist"
    /\ SaveToDisk(rec, ok)
    /\ LogEvents(IF ok THEN {"extraction_done"} ELSE {})
    /\ task' = [task EXCEPT ![t] = IF ok THEN NoTask ELSE [@ EXCEPT !.pc = "x_fail"]]
    /\ UNCHANGED <<rec, held, evicted, upload, files, restarts>>

----------------------------------------------------------------------------
(* run_analysis *)

\* The first step fails on a record without extraction; otherwise the debate
\* runs.  Its awaits change nothing another request can see but the log.
StartRounds(t) ==
    /\ ~LoopBusy /\ task[t].pc = "a_begin"
    /\ GoTo(t, IF rec.ev = NoIndex \/ rec.tree = "none" THEN "a_fail" ELSE "a_rounds")
    /\ UNCHANGED rec /\ RecordOnly

\* The debate and its summary are back: promote the cited evidence (not in
\* extraction_data), write the baseline, render the reports (either may fail with a warning only).
FinishRounds(t, docx, md) ==
    /\ ~LoopBusy /\ task[t].pc = "a_rounds"
    /\ rec' = [rec EXCEPT !.status = "analyzed", !.run = TRUE,
                          !.ev = [of |-> @.of, promoted |-> TRUE],
                          !.report = @ \/ docx,
                          !.arts = @ \cup {"result.json", "analysis_summary.json"}
                                     \cup (IF md THEN {"report.md"} ELSE {})]
    /\ GoTo(t, IF rec.wm THEN "a_save_ev" ELSE "a_event") /\ RecordOnly

\* The baseline files under outputs/<run_id>/ could not be written.
BaselineFails(t) ==
    /\ SavesMayFail /\ ~LoopBusy /\ task[t].pc = "a_rounds"
    /\ rec' = [rec EXCEPT !.run = TRUE, !.ev = [of |-> @.of, promoted |-> TRUE]]
    /\ GoTo(t, "a_fail") /\ RecordOnly

WithOutput(name, present) ==
    [files EXCEPT !.outs = @ \cup (IF present THEN {name} ELSE {})]

SaveArtifacts(t) ==
    /\ \/ task[t].pc = "a_save_result"
          /\ Write(t, "a_save_data", "a_fail", WithOutput("result.json", TRUE))
       \/ task[t].pc = "a_save_data"
          /\ Write(t, "a_save_md", "a_fail", WithOutput("analysis_data.json", TRUE))
       \/ task[t].pc = "a_save_md"
          /\ Write(t, "a_save_docx", "a_fail",
                   WithOutput("report.md", "report.md" \in rec.arts))
       \/ task[t].pc = "a_save_docx"
          /\ Write(t, "a_save_meta", "a_fail", WithOutput("report.docx", rec.report))
    /\ FilesOnly

\* The first of the two saves of the meta keeps four fields only, and goes to
\* the workspace directly, whether or not the case is still in the store.
SaveAnalyzedMeta(t) ==
    /\ task[t].pc = "a_save_meta"
    /\ \/ meta' = [NoMeta EXCEPT !.status = "analyzed", !.mats = rec.mats]
          /\ GoTo(t, "a_event")
       \/ SavesMayFail /\ GoTo(t, "a_fail") /\ UNCHANGED meta
    /\ UNCHANGED <<rec, held, evicted, upload, files, index, events, restarts>>

\* The success is announced between the two saves.
AnnounceAnalysis(t) ==
    /\ task[t].pc = "a_event"
    /\ LogEvents({"analysis_done"})
    /\ GoTo(t, "a_persist")
    /\ UNCHANGED <<rec, held, evicted, upload, meta, files, index, restarts>>

\* Mutant: the four-field meta is the last one written.
FinishAnalysis_NoPersist(t, ok) ==
    /\ task[t].pc = "a_persist"
    /\ task' = [task EXCEPT ![t] = NoTask]
    /\ UNCHANGED rec /\ RecordOnly

FinishAnalysis(t, ok) ==
    /\ task[t].pc = "a_persist"
    /\ SaveToDisk(rec, ok)
    /\ task' = [task EXCEPT ![t] = IF ok THEN NoTask ELSE [@ EXCEPT !.pc = "a_fail"]]
    /\ UNCHANGED <<rec, held, evicted, upload, files, events, restarts>>

----------------------------------------------------------------------------
(* Failure of either task *)

\* An awaited LLM call raises (error, timeout, unusable answer).
CallFails(t) ==
    /\ ~LoopBusy
    /\ \/ task[t].pc \in ExtractionAwaits \ {"x_begin"} /\ GoTo(t, "x_fail")
       \/ task[t].pc = "a_rounds" /\ GoTo(t, "a_fail")
    /\ UNCHANGED rec /\ RecordOnly

\* Mutant: the failure is logged, the status is not changed.
HandleFailure_KeepsStatus(t, ok) ==
    /\ task[t].pc \in {"x_fail", "a_fail"}
    /\ SaveToDisk(rec, ok)
    /\ LogEvents({IF task[t].pc = "x_fail" THEN "extraction_failed" ELSE "analysis_failed"})
    /\ task' = [task EXCEPT ![t] = NoTask]
    /\ UNCHANGED <<rec, held, evicted, upload, files, restarts>>

\* except Exception: the result of save_to_disk is ignored.
HandleFailure(t, ok) ==
    /\ task[t].pc \in {"x_fail", "a_fail"}
    /\ rec' = [rec EXCEPT !.status = "failed"]
    /\ SaveToDisk(rec', ok)
    /\ LogEvents({IF task[t].pc = "x_fail" THEN "extraction_failed" ELSE "analysis_failed"})
    /\ task' = [task EXCEPT ![t] = NoTask]
    /\ UNCHANGED <<held, evicted, upload, files, restarts>>

----------------------------------------------------------------------------
(* The process dies, at any point, and starts again: memory is lost and the *)
(* index is rebuilt from case_meta.json (lifespan, scan_from_disk).         *)
Restart ==
    /\ restarts < MaxRestarts
    /\ restarts' = restarts + 1
    /\ rec' = NewRecord /\ held' = "gone" /\ evicted' = FALSE
    /\ task' = [t \in Tasks |-> NoTask]
    /\ upload' = [u \in Uploads |-> NoMat]
    /\ index' = EntryOfMeta(meta)
    /\ UNCHANGED <<meta, files, events>>

----------------------------------------------------------------------------
Init ==
    /\ rec = NewRecord /\ held = "gone" /\ evicted = FALSE
    /\ task = [t \in Tasks |-> NoTask]
    /\ upload = [u \in Uploads |-> NoMat]
    /\ meta = NoMeta
    /\ files = [ev |-> NoIndex, tree |-> "none", outs |-> {}]
    /\ index = NoEntry /\ events = {} /\ restarts = 0

Request ==
    \/ \E wmOk, metaOk \in BOOLEAN : CreateCase(wmOk, metaOk)
    \/ \E m \in Mats : AddMaterial(m)
    \/ \E u \in Uploads, m \in Mats : BeginUpload(u, m)
    \/ \E t \in Tasks, ok \in BOOLEAN : TriggerExtraction(t, ok)
    \/ \E t \in Tasks, ok \in BOOLEAN : TriggerAnalysis(t, ok)
    \/ \E edits \in BOOLEAN : Confirm(edits)
    \/ \E action \in ReviewStatus, ok \in BOOLEAN : SubmitReview(action, ok)
    \/ \E format \in ExportFormats, bulk \in BOOLEAN : Export(format, bulk)
    \/ Expire
    \/ LoadFromDisk

TaskStep(t) ==
    \/ IndexPlaintiff(t)
    \/ IndexDefendant(t)
    \/ ExtractIssues(t)
    \/ ReceiveIssues(t)
    \/ SaveEvidenceIndex(t)
    \/ SaveIssueTree(t)
    \/ \E ok \in BOOLEAN : FinishExtraction(t, ok)
    \/ StartRounds(t)
    \/ \E docx, md \in BOOLEAN : FinishRounds(t, docx, md)
    \/ BaselineFails(t)
    \/ SaveArtifacts(t)
    \/ SaveAnalyzedMeta(t)
    \/ AnnounceAnalysis(t)
    \/ \E ok \in BOOLEAN : FinishAnalysis(t, ok)
    \/ CallFails(t)
    \/ \E ok \in BOOLEAN : HandleFailure(t, ok)

Next ==
    \/ Request
    \/ \E t \in Tasks : TaskStep(t)
    \/ \E u \in Uploads : FinishUpload(u)
    \/ Restart

\* The event loop runs every ready task, and every awaited call returns or
\* times out; nobody is obliged to send a request, and the process need not die.
Fairness ==
    /\ \A t \in Tasks : WF_vars(TaskStep(t))
    /\ \A u \in Uploads : WF_vars(FinishUpload(u))

Spec == Init /\ [][Next]_vars
FairSpec == Spec /\ Fairness

----------------------------------------------------------------------------
(* Properties *)

\* Every variable keeps the shape the code gives it.
TypeOK ==
    /\ rec \in CaseRecord
    /\ held \in {"gone", "store", "orphan"}
    /\ evicted \in BOOLEAN
    /\ task \in [Tasks -> [pc : TaskPc, seen : SUBSET Mats]]
    /\ upload \in [Uploads -> Mats \cup {NoMat}]
    /\ meta \in CaseMeta
    /\ files \in ArtifactDir
    /\ index \in IndexEntry
    /\ events \subseteq EventType
    /\ restarts \in 0..MaxRestarts

\* Single flight: however often clients repeat their requests, one background
\* task at most works on the case, and it is the one the live status names
\* (api/README.md, "Runtime semantics"; CaseStore._try_start).
SingleFlight ==
    /\ \A t, u \in Tasks : Running(t) /\ Running(u) => t = u
    /\ \A t \in Tasks :
        /\ task[t].pc \in ExtractionAwaits => rec.status = "extracting"
        /\ task[t].pc \in AnalysisAwaits => rec.status = "analyzing"

\* The index that a debate reads is never built from a material that the case
\* does not have, in memory or after a restart (run_extraction reads the two
\* parties' materials at different times; _load_from_disk joins two files).
EvidenceHasMaterial ==
    held = "store" /\ ~LoopBusy
        /\ rec.status \in {"extracted", "confirmed", "analyzing", "analyzed"}
      => rec.ev # NoIndex /\ rec.tree # "none" /\ rec.ev.of \subseteq rec.mats

\* Outside created and confirmed, which no handler saves, the disk and the case
\* list agree with the live case whenever the loop can serve a request; the audit
\* log tells one outcome of an analysis, and no success that a restart takes back.
DurableInSync ==
    /\ held = "store" /\ ~LoopBusy /\ rec.status \notin {"created", "confirmed"}
         => /\ meta.status = rec.status /\ index.status = rec.status
            /\ meta.review = rec.review /\ index.review = rec.review
    /\ "analysis_done" \in events => meta.status = "analyzed"
    /\ ~({"analysis_done", "analysis_failed"} \subseteq events)

\* What is on disk as analysed or failed is never reopened, by any later
\* sequence of requests, evictions and restarts.
NeverReopened ==
    [][meta.status \in {"analyzed", "failed"} => meta'.status = meta.status]_vars

\* A final review decision is never lost or changed, restarts included
\* (_REVIEW_TRANSITIONS: approved and rejected are terminal).
DecisionIsFinal ==
    [][meta.review \in {"approved", "rejected"} => meta'.review = meta.review]_vars

\* A started extraction or analysis ends, in the process that started it.
StartedTaskEnds ==
    (held = "store" /\ restarts = 0 /\ rec.status \in {"extracting", "analyzing"})
      ~> (restarts > 0 \/ held # "store" \/ rec.status \notin {"extracting", "analyzing"})

\* The lifecycle that clients are promised.
Lifecycle == INSTANCE CaseLifecycle WITH
    live <- IF held = "store" THEN rec.status ELSE "absent",
    saved <- meta.status,
    LateFailures <- SavesMayFail

LifecycleSpec == Lifecycle!Spec

(* What the documents say and the code does not keep. *)

\* Materials enter a case only after its creation or after an extraction
\* (app.py:268, "只能在案件创建后或提取完成后添加材料").
MaterialsOnlyBetweenTasks ==
    [][rec'.mats # rec.mats /\ held = "store" /\ held' = "store"
         => rec.status \in MaterialStatuses]_vars

\* A restart recovers the state of the case (api/README.md:72): a case at work
\* does not stay so for ever.
WorkEndsAcrossRestarts ==
    (held = "store" /\ rec.status = "analyzing")
      ~> ~(held = "store" /\ rec.status = "analyzing")

\* The case list is kept in sync at runtime (case_index.py:3).
IndexInSync ==
    held = "store" /\ ~LoopBusy => index.status = rec.status
=============================================================================
