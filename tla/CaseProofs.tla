----------------------------- MODULE CaseProofs -----------------------------
(***************************************************************************)
(* Proofs about CaseService and CaseViews, for any materials, any number   *)
(* of tasks and uploads, and any number of restarts.                       *)
(*                                                                         *)
(* The types, single flight, the promised lifecycle, the final decision of *)
(* a reviewer and the debate's evidence hold whatever fails.  That memory, *)
(* disk, case list and audit log agree is proved for a workspace whose     *)
(* saves work: the code ignores the result of the save after a failure,    *)
(* and announces a finished analysis before the save that may undo it.     *)
(*                                                                         *)
(* Each section has one part of the inductive invariant: TypeOK, Flight,   *)
(* then Durable, Indexed, Synced, Told, Outputs and Dumped, each inductive *)
(* relative to those before it.                                            *)
(***************************************************************************)
EXTENDS CaseViews, TLAPS


\* What a running task tells about the status of the case.  SingleFlight
\* alone is not inductive: the steps of a task's tail write the status and
\* rely on the one that they find.
TaskStatus ==
    \A t \in Tasks :
        /\ task[t].pc \in {"x_save_ev", "x_save_tree", "x_persist"} => rec.status = "extracted"
        /\ task[t].pc = "x_fail" => rec.status \in {"extracting", "extracted"}
        /\ task[t].pc \in AnalysisTail \ {"a_fail"} => rec.status = "analyzed"
        /\ task[t].pc = "a_fail" => rec.status \in {"analyzing", "analyzed"}

\* Tasks and uploads hold a reference to the record, so it is not gone.
HeldWhileUsed ==
    held = "gone" => /\ \A t \in Tasks : ~Running(t)
                     /\ \A u \in Uploads : upload[u] = NoMat

\* A debate has an index to read and promote.
DebateHasIndex == \A t \in Tasks : task[t].pc = "a_rounds" => rec.ev # NoIndex

\* The inductive invariant, beside the type invariant.
Flight == SingleFlight /\ TaskStatus /\ HeldWhileUsed /\ DebateHasIndex

----------------------------------------------------------------------------
(* Types *)

\* A new case is a well-formed record.
LEMMA NewRecordType == NewRecord \in CaseRecord
BY DEF NewRecord, CaseRecord, CaseStatus, ReviewStatus, EvidenceIndex, IssueTree, ExtractionData

\* So is the meta of a case that was never saved.
LEMMA NoMetaType == NoMeta \in CaseMeta
BY DEF NoMeta, CaseMeta, ReviewStatus

\* _record_to_meta yields a meta.
LEMMA MetaOfType == ASSUME NEW r \in CaseRecord PROVE MetaOf(r) \in CaseMeta
BY DEF MetaOf, CaseRecord, CaseMeta

\* Both ways to an index entry yield one.
LEMMA EntryTypes ==
    /\ \A r \in CaseRecord : EntryOf(r) \in IndexEntry
    /\ \A m \in CaseMeta : EntryOfMeta(m) \in IndexEntry
BY DEF EntryOf, EntryOfMeta, CaseRecord, CaseMeta, IndexEntry

\* _load_from_disk yields a record, from any meta and any set of files.
LEMMA RestoredType ==
    ASSUME meta \in CaseMeta, files \in ArtifactDir, meta.status # "absent"
    PROVE  Restored \in CaseRecord
BY DEF Restored, Redumped, CaseRecord, CaseMeta, ArtifactDir, ArtifactName, ArtifactFile, ExtractionData

\* Appending a material, with or without the reset, keeps the record one.
LEMMA WithMaterialType ==
    ASSUME rec \in CaseRecord, NEW m \in Mats
    PROVE  WithMaterial(m) \in CaseRecord
BY DEF WithMaterial, CaseRecord, CaseStatus, EvidenceIndex, IssueTree, ExtractionData

\* The state before the first request.
LEMMA InitType == Init => TypeOK
<1> SUFFICES ASSUME Init PROVE TypeOK
  OBVIOUS
<1>1. rec \in CaseRecord /\ meta \in CaseMeta /\ index \in IndexEntry
  BY NewRecordType, NoMetaType, EntryTypes DEF Init, NoEntry
<1>2. task \in [Tasks -> [pc : TaskPc, seen : SUBSET Mats]]
  BY DEF Init, NoTask, TaskPc
<1>3. files \in ArtifactDir
  BY DEF Init, ArtifactDir, EvidenceIndex, IssueTree
<1>4. upload \in [Uploads -> Mats \cup {NoMat}] /\ restarts \in 0..MaxRestarts
  BY CaseServiceAssumption DEF Init, CaseServiceAssumption
<1> QED BY <1>1, <1>2, <1>3, <1>4 DEF Init, TypeOK

\* save_to_disk, whether it succeeds or not.
LEMMA SaveType ==
    ASSUME TypeOK, NEW r \in CaseRecord, NEW ok \in BOOLEAN, SaveToDisk(r, ok)
    PROVE  meta' \in CaseMeta /\ index' \in IndexEntry
BY MetaOfType, EntryTypes DEF SaveToDisk, TypeOK

\* _emit_event appends event types only.
LEMMA LogType ==
    ASSUME TypeOK, NEW es \in SUBSET EventType, LogEvents(es)
    PROVE  events' \subseteq EventType
BY DEF LogEvents, TypeOK

\* A task moves between pcs.
LEMMA GoToType ==
    ASSUME TypeOK, NEW t \in Tasks, NEW pc \in TaskPc, GoTo(t, pc)
    PROVE  task' \in [Tasks -> [pc : TaskPc, seen : SUBSET Mats]]
BY DEF GoTo, TypeOK

\* The pcs that the actions name are pcs.
LEMMA PcNames == ExtractionAwaits \cup AnalysisAwaits \cup TaskTail \cup {"idle"} = TaskPc
BY DEF TaskPc

\* No handler breaks a type.
LEMMA RequestType == TypeOK /\ Request => TypeOK'
<1> SUFFICES ASSUME TypeOK, Request PROVE TypeOK'
  OBVIOUS
<1>1. ASSUME NEW wmOk \in BOOLEAN, NEW metaOk \in BOOLEAN, CreateCase(wmOk, metaOk)
      PROVE TypeOK'
  <2>1. rec' \in CaseRecord
    BY <1>1, NewRecordType DEF CreateCase, CaseRecord
  <2>2. meta' \in CaseMeta /\ index' \in IndexEntry
    BY <1>1, NewRecordType, MetaOfType, EntryTypes DEF CreateCase, TypeOK
  <2>3. events' \subseteq EventType
    BY <1>1 DEF CreateCase, TypeOK, EventType
  <2> QED BY <1>1, <2>1, <2>2, <2>3 DEF CreateCase, TypeOK
<1>2. ASSUME NEW m \in Mats, AddMaterial(m) PROVE TypeOK'
  <2>1. events' \subseteq EventType
    BY <1>2, LogType DEF AddMaterial, EventType
  <2> QED BY <1>2, <2>1, WithMaterialType DEF AddMaterial, TypeOK
<1>3. ASSUME NEW u \in Uploads, NEW m \in Mats, BeginUpload(u, m) PROVE TypeOK'
  BY <1>3 DEF BeginUpload, TypeOK
<1>4. ASSUME NEW t \in Tasks, NEW ok \in BOOLEAN, NEW allowed,
             NEW active \in CaseStatus, NEW pc \in TaskPc, NEW event \in EventType,
             TryStart(t, allowed, active, pc, event, ok)
      PROVE TypeOK'
  <2>1. rec' \in CaseRecord
    BY <1>4 DEF TryStart, TypeOK, CaseRecord
  <2>2. meta' \in CaseMeta /\ index' \in IndexEntry
    BY <1>4, <2>1, SaveType DEF TryStart
  <2>3. task' \in [Tasks -> [pc : TaskPc, seen : SUBSET Mats]]
    BY <1>4 DEF TryStart, TypeOK
  <2>4. events' \subseteq EventType
    BY <1>4, LogType DEF TryStart
  <2> QED BY <1>4, <2>1, <2>2, <2>3, <2>4 DEF TryStart, TypeOK
<1>5. ASSUME NEW t \in Tasks, NEW ok \in BOOLEAN, TriggerExtraction(t, ok) PROVE TypeOK'
  BY <1>4, <1>5 DEF TriggerExtraction, CaseStatus, TaskPc, ExtractionAwaits, EventType
<1>6. ASSUME NEW t \in Tasks, NEW ok \in BOOLEAN, TriggerAnalysis(t, ok) PROVE TypeOK'
  BY <1>4, <1>6 DEF TriggerAnalysis, CaseStatus, TaskPc, AnalysisAwaits, EventType
<1>7. ASSUME NEW edits \in BOOLEAN, Confirm(edits) PROVE TypeOK'
  <2>1. rec' \in CaseRecord
    BY <1>7 DEF Confirm, TypeOK, CaseRecord, CaseStatus, IssueTree
  <2>2. events' \subseteq EventType
    BY <1>7, LogType DEF Confirm, EventType
  <2> QED BY <1>7, <2>1, <2>2 DEF Confirm, TypeOK
<1>8. ASSUME NEW action \in ReviewStatus, NEW ok \in BOOLEAN, SubmitReview(action, ok)
      PROVE TypeOK'
  <2>1. rec' \in CaseRecord
    BY <1>8 DEF SubmitReview, TypeOK, CaseRecord
  <2>2. meta' \in CaseMeta /\ index' \in IndexEntry
    BY <1>8, <2>1, MetaOfType, EntryTypes DEF SubmitReview, TypeOK
  <2>3. events' \subseteq EventType
    BY <1>8, LogType DEF SubmitReview, EventType
  <2> QED BY <1>8, <2>1, <2>2, <2>3 DEF SubmitReview, TypeOK
<1>9. CASE Expire
  BY <1>9 DEF Expire, TypeOK
<1>10. CASE LoadFromDisk
  BY <1>10, RestoredType DEF LoadFromDisk, TypeOK
<1>11. ASSUME NEW format \in ExportFormats, NEW bulk \in BOOLEAN, Export(format, bulk)
       PROVE TypeOK'
  <2>1. events' \subseteq EventType
    BY <1>11, LogType DEF Export, EventType
  <2> QED BY <1>11, <2>1 DEF Export, TypeOK
<1> QED BY <1>1, <1>2, <1>3, <1>5, <1>6, <1>7, <1>8, <1>9, <1>10, <1>11 DEF Request

\* A file write, done or raised.
LEMMA WriteType ==
    ASSUME TypeOK, NEW t \in Tasks, NEW next \in TaskPc, NEW fail \in TaskPc,
           NEW changed \in ArtifactDir, Write(t, next, fail, changed)
    PROVE  /\ task' \in [Tasks -> [pc : TaskPc, seen : SUBSET Mats]]
           /\ files' \in ArtifactDir
BY GoToType DEF Write, TypeOK

\* No step of a background task breaks a type; promoting needs an index.
LEMMA TaskStepType ==
    ASSUME TypeOK, DebateHasIndex, NEW t \in Tasks, TaskStep(t)
    PROVE  TypeOK'
<1> USE DEF RecordOnly, FilesOnly
<1> USE PcNames DEF ExtractionAwaits, AnalysisAwaits, TaskTail, ExtractionTail, AnalysisTail
<1>1. CASE IndexPlaintiff(t)
  BY <1>1 DEF IndexPlaintiff, PlaintiffPart, TypeOK, CaseRecord, Mats
<1>2. CASE IndexDefendant(t)
  BY <1>2 DEF IndexDefendant, DefendantPart, TypeOK, CaseRecord, Mats
<1>3. CASE ExtractIssues(t)
  <2>1. rec' \in CaseRecord
    BY <1>3 DEF ExtractIssues, TypeOK, CaseRecord, EvidenceIndex
  <2> QED BY <1>3, <2>1, GoToType DEF ExtractIssues, TypeOK
<1>4. CASE ReceiveIssues(t)
  <2>1. rec' \in CaseRecord
    BY <1>4 DEF ReceiveIssues, TypeOK, CaseRecord, IssueTree, CaseStatus, ExtractionData
  <2> QED BY <1>4, <2>1, GoToType DEF ReceiveIssues, TypeOK
<1>5. CASE SaveEvidenceIndex(t)
  <2>1. [files EXCEPT !.ev = rec.ev] \in ArtifactDir
    BY DEF TypeOK, CaseRecord, ArtifactDir
  <2> QED BY <1>5, <2>1, WriteType DEF SaveEvidenceIndex, TypeOK
<1>6. CASE SaveIssueTree(t)
  <2>1. [files EXCEPT !.tree = rec.tree] \in ArtifactDir
    BY DEF TypeOK, CaseRecord, ArtifactDir
  <2> QED BY <1>6, <2>1, WriteType DEF SaveIssueTree, TypeOK
<1>7. ASSUME NEW ok \in BOOLEAN, FinishExtraction(t, ok) PROVE TypeOK'
  <2>1. meta' \in CaseMeta /\ index' \in IndexEntry
    BY <1>7, SaveType DEF FinishExtraction, TypeOK
  <2>2. events' \subseteq EventType
    BY <1>7, LogType DEF FinishExtraction, EventType
  <2>3. task' \in [Tasks -> [pc : TaskPc, seen : SUBSET Mats]]
    BY <1>7 DEF FinishExtraction, TypeOK, NoTask
  <2> QED BY <1>7, <2>1, <2>2, <2>3 DEF FinishExtraction, TypeOK
<1>8. CASE StartRounds(t)
  BY <1>8, GoToType DEF StartRounds, TypeOK
<1>9. ASSUME NEW docx \in BOOLEAN, NEW md \in BOOLEAN, FinishRounds(t, docx, md)
      PROVE TypeOK'
  <2>1. rec' \in CaseRecord
    BY <1>9 DEF FinishRounds, DebateHasIndex, TypeOK, CaseRecord, EvidenceIndex,
                ArtifactName, CaseStatus
  <2> QED BY <1>9, <2>1, GoToType DEF FinishRounds, TypeOK
<1>10. CASE BaselineFails(t)
  <2>1. rec' \in CaseRecord
    BY <1>10 DEF BaselineFails, DebateHasIndex, TypeOK, CaseRecord, EvidenceIndex
  <2> QED BY <1>10, <2>1, GoToType DEF BaselineFails, TypeOK
<1>11. CASE SaveArtifacts(t)
  <2>1. \A name \in ArtifactFile, present \in BOOLEAN : WithOutput(name, present) \in ArtifactDir
    BY DEF WithOutput, TypeOK, ArtifactDir
  <2>2. {"result.json", "analysis_data.json", "report.md", "report.docx"} \subseteq ArtifactFile
    BY DEF ArtifactFile
  <2>3. rec.report \in BOOLEAN /\ ("report.md" \in rec.arts) \in BOOLEAN
    BY DEF TypeOK, CaseRecord
  <2> QED BY <1>11, <2>1, <2>2, <2>3, WriteType DEF SaveArtifacts, TypeOK
<1>12. CASE SaveAnalyzedMeta(t)
  <2>1. meta' \in CaseMeta
    BY <1>12 DEF SaveAnalyzedMeta, TypeOK, CaseMeta, CaseRecord, NoMeta, CaseStatus, ReviewStatus
  <2> QED BY <1>12, <2>1, GoToType DEF SaveAnalyzedMeta, TypeOK
<1>13. ASSUME NEW ok \in BOOLEAN, FinishAnalysis(t, ok) PROVE TypeOK'
  <2>1. meta' \in CaseMeta /\ index' \in IndexEntry
    BY <1>13, SaveType DEF FinishAnalysis, TypeOK
  <2>2. task' \in [Tasks -> [pc : TaskPc, seen : SUBSET Mats]]
    BY <1>13 DEF FinishAnalysis, TypeOK, NoTask
  <2> QED BY <1>13, <2>1, <2>2 DEF FinishAnalysis, TypeOK
<1>14. CASE CallFails(t)
  BY <1>14, GoToType DEF CallFails, TypeOK
<1>15. ASSUME NEW ok \in BOOLEAN, HandleFailure(t, ok) PROVE TypeOK'
  <2>1. rec' \in CaseRecord
    BY <1>15 DEF HandleFailure, TypeOK, CaseRecord, CaseStatus
  <2>2. meta' \in CaseMeta /\ index' \in IndexEntry
    BY <1>15, <2>1, SaveType DEF HandleFailure
  <2>3. events' \subseteq EventType
    BY <1>15, LogType DEF HandleFailure, EventType
  <2>4. task' \in [Tasks -> [pc : TaskPc, seen : SUBSET Mats]]
    BY <1>15 DEF HandleFailure, TypeOK, NoTask
  <2> QED BY <1>15, <2>1, <2>2, <2>3, <2>4 DEF HandleFailure, TypeOK
<1>16. CASE AnnounceAnalysis(t)
  <2>1. events' \subseteq EventType
    BY <1>16, LogType DEF AnnounceAnalysis, EventType
  <2> QED BY <1>16, <2>1, GoToType DEF AnnounceAnalysis, TypeOK
<1> QED BY <1>1, <1>2, <1>3, <1>4, <1>5, <1>6, <1>7, <1>8, <1>9, <1>10, <1>11, <1>12,
           <1>13, <1>14, <1>15, <1>16 DEF TaskStep

\* No step of the system breaks a type.
LEMMA TypeStep == TypeOK /\ DebateHasIndex /\ [Next]_vars => TypeOK'
<1> SUFFICES ASSUME TypeOK, DebateHasIndex, [Next]_vars PROVE TypeOK'
  OBVIOUS
<1>1. CASE Request
  BY <1>1, RequestType
<1>2. ASSUME NEW t \in Tasks, TaskStep(t) PROVE TypeOK'
  BY <1>2, TaskStepType
<1>3. ASSUME NEW u \in Uploads, FinishUpload(u) PROVE TypeOK'
  <2>1. upload[u] \in Mats
    BY <1>3 DEF FinishUpload, TypeOK
  <2>2. events' \subseteq EventType
    BY <1>3, LogType DEF FinishUpload, EventType
  <2> QED BY <1>3, <2>1, <2>2, WithMaterialType DEF FinishUpload, TypeOK
<1>4. CASE Restart
  <2>1. restarts' \in 0..MaxRestarts
    BY <1>4, CaseServiceAssumption DEF Restart, TypeOK, CaseServiceAssumption
  <2>2. task' \in [Tasks -> [pc : TaskPc, seen : SUBSET Mats]]
    BY <1>4 DEF Restart, NoTask, TaskPc
  <2>3. rec' \in CaseRecord /\ index' \in IndexEntry
    BY <1>4, NewRecordType, EntryTypes DEF Restart, TypeOK
  <2> QED BY <1>4, <2>1, <2>2, <2>3 DEF Restart, TypeOK
<1>5. CASE UNCHANGED vars
  BY <1>5 DEF vars, TypeOK
<1> QED BY <1>1, <1>2, <1>3, <1>4, <1>5 DEF Next

----------------------------------------------------------------------------
(* Single flight *)

\* A status that is not an active one means that nothing runs, whenever a
\* handler may look.
LEMMA Quiet ==
    ASSUME TypeOK, Flight, ~LoopBusy, rec.status \notin {"extracting", "analyzing"}
    PROVE  \A t \in Tasks : task[t].pc = "idle"
BY DEF TypeOK, Flight, SingleFlight, LoopBusy, TaskPc

\* Flight speaks of these variables only.
LEMMA FlightFrame ==
    ASSUME Flight, UNCHANGED <<rec, task, upload, held>>
    PROVE  Flight'
BY DEF Flight, SingleFlight, TaskStatus, HeldWhileUsed, DebateHasIndex, Running

\* With no task alive, the record and its holder may change freely.
LEMMA IdleFlight ==
    ASSUME \A t \in Tasks : task'[t].pc = "idle",
           held' = "gone" => \A u \in Uploads : upload'[u] = NoMat
    PROVE  Flight'
BY DEF Flight, SingleFlight, TaskStatus, HeldWhileUsed, DebateHasIndex, Running,
       ExtractionAwaits, AnalysisAwaits, AnalysisTail

\* A step of the one running task t leaves every other slot idle.
LEMMA OthersIdle ==
    ASSUME TypeOK, Flight, NEW t \in Tasks, task[t].pc # "idle"
    PROVE  \A u \in Tasks : u # t => task[u].pc = "idle"
BY DEF Flight, SingleFlight, Running

\* The invariant after a step that leaves t as the only task, by t's new pc.
LEMMA OneTaskFlight ==
    ASSUME NEW t \in Tasks,
           \A u \in Tasks : u # t => task'[u].pc = "idle",
           held' # "gone",
           task'[t].pc \in ExtractionAwaits => rec'.status = "extracting",
           task'[t].pc \in AnalysisAwaits => rec'.status = "analyzing",
           task'[t].pc \in {"x_save_ev", "x_save_tree", "x_persist"} => rec'.status = "extracted",
           task'[t].pc = "x_fail" => rec'.status \in {"extracting", "extracted"},
           task'[t].pc \in AnalysisTail \ {"a_fail"} => rec'.status = "analyzed",
           task'[t].pc = "a_fail" => rec'.status \in {"analyzing", "analyzed"},
           task'[t].pc = "a_rounds" => rec'.ev # NoIndex
    PROVE  Flight'
BY DEF Flight, SingleFlight, TaskStatus, HeldWhileUsed, DebateHasIndex, Running,
       ExtractionAwaits, AnalysisAwaits, AnalysisTail

\* Nothing runs before the first request.
LEMMA InitFlight == Init => Flight
BY DEF Init, NoTask, Flight, SingleFlight, TaskStatus, HeldWhileUsed, DebateHasIndex, Running,
       ExtractionAwaits, AnalysisAwaits, AnalysisTail

\* A material that arrives while a task waits changes neither the status nor
\* the index; otherwise nothing runs.
LEMMA MaterialFlight ==
    ASSUME TypeOK, Flight, ~LoopBusy, NEW m \in Mats, held # "gone",
           rec' = WithMaterial(m), UNCHANGED <<task, held>>
    PROVE  Flight'
<1>1. CASE rec.status \in {"extracted", "confirmed"}
  <2>1. \A t \in Tasks : task[t].pc = "idle"
    BY <1>1, Quiet
  <2> QED BY <2>1, IdleFlight
<1>2. CASE rec.status \notin {"extracted", "confirmed"}
  <2>1. rec'.status = rec.status /\ rec'.ev = rec.ev
    BY <1>2 DEF WithMaterial, TypeOK, CaseRecord
  <2> QED BY <2>1 DEF Flight, SingleFlight, TaskStatus, HeldWhileUsed, DebateHasIndex, Running
<1> QED BY <1>1, <1>2

\* A handler starts a task only when nothing runs, and moves the status
\* only then.
LEMMA RequestFlight ==
    ASSUME TypeOK, Flight, Request
    PROVE  Flight'
<1>1. ASSUME NEW wmOk \in BOOLEAN, NEW metaOk \in BOOLEAN, CreateCase(wmOk, metaOk)
      PROVE Flight'
  <2>1. \A t \in Tasks : task'[t].pc = "idle"
    BY <1>1 DEF CreateCase, Flight, HeldWhileUsed, Running
  <2> QED BY <1>1, <2>1, IdleFlight DEF CreateCase
<1>2. ASSUME NEW m \in Mats, AddMaterial(m) PROVE Flight'
  BY <1>2, MaterialFlight DEF AddMaterial, InStore
<1>3. ASSUME NEW u \in Uploads, NEW m \in Mats, BeginUpload(u, m) PROVE Flight'
  BY <1>3 DEF BeginUpload, InStore, Flight, SingleFlight, TaskStatus, HeldWhileUsed,
              DebateHasIndex, Running
<1>4. ASSUME NEW t \in Tasks, NEW ok \in BOOLEAN, NEW allowed, NEW active, NEW pc, NEW event,
             TryStart(t, allowed, active, pc, event, ok),
             \/ allowed = {"created"} /\ active = "extracting" /\ pc = "x_begin"
             \/ allowed = {"extracted", "confirmed"} /\ active = "analyzing" /\ pc = "a_begin"
      PROVE Flight'
  <2>1. \A u \in Tasks : task[u].pc = "idle"
    BY <1>4, Quiet DEF TryStart, InStore
  <2>2. rec'.status = active /\ held' = "store"
    BY <1>4 DEF TryStart, InStore, TypeOK, CaseRecord
  <2>3. CASE ok
    <3>1. \A u \in Tasks : u # t => task'[u].pc = "idle"
      BY <1>4, <2>1, <2>3 DEF TryStart, TypeOK
    <3>2. task'[t].pc = pc
      BY <1>4, <2>3 DEF TryStart, TypeOK
    <3> QED BY <1>4, <2>2, <3>1, <3>2, OneTaskFlight DEF ExtractionAwaits, AnalysisAwaits, AnalysisTail
  <2>4. CASE ~ok
    BY <1>4, <2>1, <2>2, <2>4, IdleFlight DEF TryStart
  <2> QED BY <2>3, <2>4
<1>5. ASSUME NEW t \in Tasks, NEW ok \in BOOLEAN, TriggerExtraction(t, ok) PROVE Flight'
  BY <1>4, <1>5 DEF TriggerExtraction
<1>6. ASSUME NEW t \in Tasks, NEW ok \in BOOLEAN, TriggerAnalysis(t, ok) PROVE Flight'
  BY <1>4, <1>6 DEF TriggerAnalysis
<1>7. ASSUME NEW edits \in BOOLEAN, Confirm(edits) PROVE Flight'
  <2>1. \A t \in Tasks : task[t].pc = "idle"
    BY <1>7, Quiet DEF Confirm, InStore
  <2> QED BY <1>7, <2>1, IdleFlight DEF Confirm, InStore
<1>8. ASSUME NEW action \in ReviewStatus, NEW ok \in BOOLEAN, SubmitReview(action, ok)
      PROVE Flight'
  <2>1. \A t \in Tasks : task[t].pc = "idle"
    BY <1>8, Quiet DEF SubmitReview, InStore
  <2> QED BY <1>8, <2>1, IdleFlight DEF SubmitReview, InStore
<1>9. CASE Expire
  BY <1>9 DEF Expire, InStore, Flight, SingleFlight, TaskStatus, HeldWhileUsed,
              DebateHasIndex, Running
<1>10. CASE LoadFromDisk
  <2>1. \A t \in Tasks : task[t].pc = "idle"
    BY <1>10 DEF LoadFromDisk, Flight, HeldWhileUsed, Running
  <2> QED BY <1>10, <2>1, IdleFlight DEF LoadFromDisk
<1>11. ASSUME NEW format \in ExportFormats, NEW bulk \in BOOLEAN, Export(format, bulk)
       PROVE Flight'
  BY <1>11 DEF Export, InStore, Flight, SingleFlight, TaskStatus, HeldWhileUsed,
               DebateHasIndex, Running
<1> QED BY <1>1, <1>2, <1>3, <1>5, <1>6, <1>7, <1>8, <1>9, <1>10, <1>11 DEF Request

\* A step of t that goes on inside the task.
LEMMA MoveFlight ==
    ASSUME TypeOK, Flight, NEW t \in Tasks, NEW new, task[t].pc # "idle",
           task' = [task EXCEPT ![t] = new], held' = held,
           new.pc \in ExtractionAwaits => rec'.status = "extracting",
           new.pc \in AnalysisAwaits => rec'.status = "analyzing",
           new.pc \in {"x_save_ev", "x_save_tree", "x_persist"} => rec'.status = "extracted",
           new.pc = "x_fail" => rec'.status \in {"extracting", "extracted"},
           new.pc \in AnalysisTail \ {"a_fail"} => rec'.status = "analyzed",
           new.pc = "a_fail" => rec'.status \in {"analyzing", "analyzed"},
           new.pc = "a_rounds" => rec'.ev # NoIndex
    PROVE  Flight'
<1>1. task'[t] = new /\ \A u \in Tasks : u # t => task'[u] = task[u]
  BY DEF TypeOK
<1>2. \A u \in Tasks : u # t => task'[u].pc = "idle"
  BY <1>1, OthersIdle
<1>3. held' # "gone"
  BY DEF Flight, HeldWhileUsed, Running
<1> HIDE DEF AnalysisTail, ExtractionAwaits, AnalysisAwaits
<1> QED BY <1>1, <1>2, <1>3, OneTaskFlight

\* A step that ends t.
LEMMA EndFlight ==
    ASSUME TypeOK, Flight, NEW t \in Tasks, task[t].pc # "idle",
           task' = [task EXCEPT ![t] = NoTask], held' = held
    PROVE  Flight'
<1>1. \A u \in Tasks : task'[u].pc = "idle"
  BY OthersIdle DEF TypeOK, NoTask
<1>2. held' # "gone"
  BY DEF Flight, HeldWhileUsed, Running
<1> QED BY <1>1, <1>2, IdleFlight

\* Each step of a task leaves it where the status says it is.
LEMMA TaskStepFlight ==
    ASSUME TypeOK, Flight, NEW t \in Tasks, TaskStep(t)
    PROVE  Flight'
<1> DEFINE Pc == task[t].pc
           At(pc) == [pc |-> pc, seen |-> task[t].seen]
<1>0. /\ task[t] = At(Pc)
      /\ \A pc : GoTo(t, pc) => task' = [task EXCEPT ![t] = At(pc)]
  BY DEF TypeOK, GoTo
<1>a. /\ Pc \in ExtractionAwaits => rec.status = "extracting"
      /\ Pc \in AnalysisAwaits => rec.status = "analyzing"
      /\ Pc \in {"x_save_ev", "x_save_tree", "x_persist"} => rec.status = "extracted"
      /\ Pc = "x_fail" => rec.status \in {"extracting", "extracted"}
      /\ Pc \in AnalysisTail \ {"a_fail"} => rec.status = "analyzed"
      /\ Pc = "a_fail" => rec.status \in {"analyzing", "analyzed"}
      /\ Pc = "a_rounds" => rec.ev # NoIndex
  BY DEF Flight, SingleFlight, TaskStatus, DebateHasIndex
<1>b. ASSUME NEW pc, Pc # "idle", GoTo(t, pc), held' = held,
             pc \in ExtractionAwaits => rec'.status = "extracting",
             pc \in AnalysisAwaits => rec'.status = "analyzing",
             pc \in {"x_save_ev", "x_save_tree", "x_persist"} => rec'.status = "extracted",
             pc = "x_fail" => rec'.status \in {"extracting", "extracted"},
             pc \in AnalysisTail \ {"a_fail"} => rec'.status = "analyzed",
             pc = "a_fail" => rec'.status \in {"analyzing", "analyzed"},
             pc = "a_rounds" => rec'.ev # NoIndex
      PROVE Flight'
  BY <1>0, <1>b, MoveFlight
<1> HIDE DEF At
<1> USE DEF ExtractionAwaits, AnalysisAwaits, AnalysisTail
<1>1. CASE IndexPlaintiff(t)
  BY <1>1, <1>a, MoveFlight DEF IndexPlaintiff, RecordOnly
<1>2. CASE IndexDefendant(t)
  BY <1>2, <1>a, MoveFlight DEF IndexDefendant, PlaintiffDone, RecordOnly
<1>3. CASE ExtractIssues(t)
  <2>1. rec'.status = rec.status
    BY <1>3 DEF ExtractIssues, TypeOK, CaseRecord
  <2> QED BY <1>3, <2>1, <1>a, <1>b DEF ExtractIssues, PlaintiffDone, RecordOnly
<1>4. CASE ReceiveIssues(t)
  <2>1. rec'.status = "extracted"
    BY <1>4 DEF ReceiveIssues, TypeOK, CaseRecord
  <2> QED BY <1>4, <2>1, <1>b DEF ReceiveIssues, RecordOnly
<1>5. CASE SaveEvidenceIndex(t)
  BY <1>5, <1>a, <1>b DEF SaveEvidenceIndex, Write, FilesOnly
<1>6. CASE SaveIssueTree(t)
  BY <1>6, <1>a, <1>b DEF SaveIssueTree, Write, FilesOnly
<1>7. ASSUME NEW ok \in BOOLEAN, FinishExtraction(t, ok) PROVE Flight'
  <2>1. CASE ok
    BY <1>7, <2>1, EndFlight DEF FinishExtraction
  <2>2. CASE ~ok
    <3>1. GoTo(t, "x_fail")
      BY <1>7, <2>2 DEF FinishExtraction, GoTo
    <3> QED BY <1>7, <3>1, <1>a, <1>b DEF FinishExtraction
  <2> QED BY <2>1, <2>2
<1>8. CASE StartRounds(t)
  BY <1>8, <1>a, <1>b DEF StartRounds, RecordOnly
<1>9. ASSUME NEW docx \in BOOLEAN, NEW md \in BOOLEAN, FinishRounds(t, docx, md) PROVE Flight'
  <2>1. rec'.status = "analyzed"
    BY <1>9 DEF FinishRounds, TypeOK, CaseRecord
  <2> QED BY <1>9, <2>1, <1>b DEF FinishRounds, RecordOnly
<1>10. CASE BaselineFails(t)
  <2>1. rec'.status = rec.status
    BY <1>10 DEF BaselineFails, TypeOK, CaseRecord
  <2> QED BY <1>10, <2>1, <1>a, <1>b DEF BaselineFails, RecordOnly
<1>11. CASE SaveArtifacts(t)
  BY <1>11, <1>a, <1>b DEF SaveArtifacts, Write, FilesOnly
<1>12. CASE SaveAnalyzedMeta(t)
  BY <1>12, <1>a, <1>b DEF SaveAnalyzedMeta
<1>13. ASSUME NEW ok \in BOOLEAN, FinishAnalysis(t, ok) PROVE Flight'
  <2>1. CASE ok
    BY <1>13, <2>1, EndFlight DEF FinishAnalysis
  <2>2. CASE ~ok
    <3>1. GoTo(t, "a_fail")
      BY <1>13, <2>2 DEF FinishAnalysis, GoTo
    <3> QED BY <1>13, <3>1, <1>a, <1>b DEF FinishAnalysis
  <2> QED BY <2>1, <2>2
<1>14. CASE CallFails(t)
  BY <1>14, <1>a, <1>b DEF CallFails, RecordOnly
<1>15. ASSUME NEW ok \in BOOLEAN, HandleFailure(t, ok) PROVE Flight'
  BY <1>15, EndFlight DEF HandleFailure
<1>16. CASE AnnounceAnalysis(t)
  BY <1>16, <1>a, <1>b DEF AnnounceAnalysis
<1> QED BY <1>1, <1>2, <1>3, <1>4, <1>5, <1>6, <1>7, <1>8, <1>9, <1>10, <1>11, <1>12,
           <1>13, <1>14, <1>15, <1>16 DEF TaskStep

\* Flight is inductive, relative to the types.
LEMMA FlightStep == TypeOK /\ Flight /\ [Next]_vars => Flight'
<1> SUFFICES ASSUME TypeOK, Flight, [Next]_vars PROVE Flight'
  OBVIOUS
<1>1. CASE Request
  BY <1>1, RequestFlight
<1>2. ASSUME NEW t \in Tasks, TaskStep(t) PROVE Flight'
  BY <1>2, TaskStepFlight
<1>3. ASSUME NEW u \in Uploads, FinishUpload(u) PROVE Flight'
  <2>1. upload[u] \in Mats /\ held # "gone"
    BY <1>3 DEF FinishUpload, TypeOK, Flight, HeldWhileUsed
  <2> QED BY <1>3, <2>1, MaterialFlight DEF FinishUpload
<1>4. CASE Restart
  BY <1>4, IdleFlight DEF Restart, NoTask
<1>5. CASE UNCHANGED vars
  BY <1>5, FlightFrame DEF vars
<1> QED BY <1>1, <1>2, <1>3, <1>4, <1>5 DEF Next

\* The inductive invariant holds in every reachable state.
LEMMA Invariance == Spec => [](TypeOK /\ Flight)
<1>1. Init => TypeOK /\ Flight
  BY InitType, InitFlight
<1>2. TypeOK /\ Flight /\ [Next]_vars => (TypeOK /\ Flight)'
  <2>1. Flight => DebateHasIndex
    BY DEF Flight
  <2> QED BY <2>1, TypeStep, FlightStep
<1> QED BY <1>1, <1>2, PTL DEF Spec

\* In every reachable state each variable has the shape the code gives it;
\* restoring a case from any mixture of saved files keeps it so.
THEOREM TypeCorrect == Spec => []TypeOK
BY Invariance, PTL

\* At most one background task works on a case, whatever requests arrive,
\* whichever saves and calls fail, and wherever the process dies
\* (CaseStore._try_start and the except branches of both tasks).
THEOREM SingleFlightHolds == Spec => []SingleFlight
<1>1. Flight => SingleFlight
  BY DEF Flight
<1> QED BY <1>1, Invariance, PTL

----------------------------------------------------------------------------
(* What survives of a case *)


\* The task still has to write the meta of a finished analysis.
BeforeMeta == AnalysisAwaits \cup {"a_save_ev", "a_save_result", "a_save_data", "a_save_md",
                                   "a_save_docx", "a_save_meta"}

\* What the disk says of the case that a task at pc works on.
WorkingAt(pc) ==
    /\ pc # "idle" => rec.wm /\ rec.review = "none" /\ meta.review = "none"
    /\ pc \in ExtractionAwaits \cup ExtractionTail => meta.status = "extracting"
    /\ pc \in BeforeMeta => meta.status = "analyzing"
    /\ pc \in {"a_event", "a_persist"} => meta.status = "analyzed"
    /\ pc = "a_fail" => meta.status \in {"analyzing", "analyzed"}
    /\ held = "store" /\ ~SavesMayFail =>
        /\ pc = "x_fail" => rec.status = "extracting"
        /\ pc = "a_fail" => rec.status = "analyzing" /\ meta.status = "analyzing"

\* Of every task.
Working == \A t \in Tasks : WorkingAt(task[t].pc)

\* The decisions that no later one follows.
Final == {"approved", "rejected"}

\* Only an analysed case has a review; a final one on the disk is in memory too.
Reviewed ==
    /\ rec.review # "none" => rec.status = "analyzed"
    /\ meta.review # "none" => meta.status = "analyzed"
    /\ held # "gone" /\ meta.review \in Final => rec.review = meta.review

\* The statuses that an extraction leads to.
Later == {"extracted", "confirmed", "analyzing", "analyzed"}

\* No task is at one of the pcs.
NoTaskAt(pcs) == \A t \in Tasks : task[t].pc \notin pcs

\* What a running task has read of the case belongs to it.
Read ==
    \A t \in Tasks :
        /\ Running(t) => task[t].seen \subseteq rec.mats
        /\ task[t].pc = "x_issues" => rec.ev # NoIndex /\ rec.ev.of \subseteq rec.mats

\* An extracted case has an index and a tree, in memory and, unless a task has
\* not yet written them, in its files.
Built ==
    held # "gone" /\ rec.status \in Later =>
        /\ rec.ev # NoIndex /\ rec.tree # "none" /\ rec.ev.of \subseteq rec.mats
        /\ NoTaskAt({"x_save_ev", "x_fail"}) => files.ev # NoIndex /\ files.ev.of = rec.ev.of
        /\ NoTaskAt({"x_save_ev", "x_save_tree", "x_fail"}) => files.tree # "none"

\* What a restart would join: the meta and the two files beside it.
Stored ==
    /\ meta.status \in Later =>
        files.ev # NoIndex /\ files.tree # "none" /\ files.ev.of \subseteq meta.mats
    /\ meta.status # "confirmed"

\* The part of the invariant about the evidence.
Indexed == Read /\ Built /\ Stored

\* The statuses that nothing leaves while saves work.
Closed == {"analyzed", "failed"}

\* The meta and the entry of the case list tell the live status and review.
InAgreement ==
    /\ meta.status = rec.status /\ index.status = rec.status
    /\ meta.review = rec.review /\ index.review = rec.review

\* While saves work, memory, disk and case list agree, except for the two statuses
\* that no handler saves and inside the writes of a task.
Synced ==
    /\ rec.wm
    /\ held = "gone" => index.status = meta.status /\ index.review = meta.review
    /\ held = "store" /\ meta.status \in Closed => rec.status = meta.status
    /\ held = "store" /\ rec.status \notin {"created", "confirmed"} /\ NoTaskAt(TaskTail)
         => InAgreement

\* What the audit log tells of an analysis, while also nothing is evicted under a task.
Told ==
    /\ \A t \in Tasks : Running(t) => held = "store"
    /\ "analysis_done" \in events => meta.status = "analyzed"
    /\ "analysis_failed" \in events => meta.status = "failed"

\* The output files that a task at pc has written.
Written(pc) ==
    (IF pc \in {"a_save_data", "a_save_md", "a_save_docx", "a_save_meta", "a_event", "a_persist"}
     THEN {"result.json"} ELSE {})
    \cup (IF pc \in {"a_save_md", "a_save_docx", "a_save_meta", "a_event", "a_persist"}
          THEN {"analysis_data.json"} ELSE {})
    \cup (IF pc \in {"a_save_docx", "a_save_meta", "a_event", "a_persist"}
          THEN {"report.md"} \cap rec.arts ELSE {})
    \cup (IF pc \in {"a_save_meta", "a_event", "a_persist"} /\ rec.report
          THEN {"report.docx"} ELSE {})

\* What an analysis at pc has produced, in memory and in the files.
ProducedAt(pc) ==
    /\ pc \in AnalysisAwaits => rec.arts = {} /\ ~rec.report
    /\ pc \in AnalysisTail \ {"a_fail"} =>
         rec.run /\ {"result.json", "analysis_summary.json"} \subseteq rec.arts
    /\ pc \in (AnalysisAwaits \cup AnalysisTail) \ {"a_fail"} => files.outs = Written(pc)
    /\ pc \in AnalysisTail \ {"a_save_ev", "a_fail"} => files.ev = rec.ev

\* The statuses of a case that was never analysed.
Early == {"created", "extracting", "extracted", "confirmed"}

\* What a restart would read gives back the analysed case that a request can meet.
Recoverable ==
    held = "store" /\ rec.status = "analyzed" /\ NoTaskAt(TaskTail) =>
        /\ files.ev = rec.ev /\ rec.run /\ "analysis_summary.json" \in rec.arts
        /\ Restored.arts = rec.arts /\ Restored.report = rec.report

\* While saves work: nothing of an analysis is there before one, the files of an
\* analysed case are complete, and a restart gives back what the record holds.
Outputs ==
    /\ held # "gone" => meta.mats \subseteq rec.mats
    /\ meta.status \in Early \cup {"absent"} => files.outs = {} /\ meta.names = {} /\ ~meta.run
    /\ held # "gone" /\ rec.status \in Early =>
         files.outs = {} /\ rec.arts = {} /\ ~rec.report /\ ~rec.run
    /\ \A t \in Tasks : ProducedAt(task[t].pc)
    /\ meta.status = "analyzed" => "analysis_data.json" \in files.outs
    /\ Recoverable

\* What is shown of an extraction: something as long as there is one; and the files
\* that a restart shows instead hold the tree as drafted, the index as promoted.
Dumped ==
    /\ held # "gone" /\ rec.status \in Later => rec.ext # "none"
    /\ files.tree # "edited"
    /\ \A t \in Tasks :
         /\ task[t].pc \in {"x_save_ev", "x_save_tree"} => rec.tree = "drafted"
         /\ task[t].pc \in AnalysisTail \ {"a_fail"} => rec.ev.promoted
    /\ meta.status = "analyzed" => files.ev.promoted

----------------------------------------------------------------------------
(* A task and the disk *)

\* Only an export or an eviction is served while a task waits; every other
\* handler finds the case at rest.
LEMMA RequestAtRest ==
    ASSUME TypeOK, Flight, Request
    PROVE  \/ \A t \in Tasks : task[t].pc = "idle"
           \/ held' \in {held, "orphan"} /\ held = "store"
              /\ UNCHANGED <<rec, task, upload, meta, files, index, restarts>>
              /\ events' \in {events, events \cup {"exported"}}
<1>1. CASE rec.status \notin {"extracting", "analyzing"} /\ ~LoopBusy
  BY <1>1, Quiet
<1>2. CASE held = "gone"
  BY <1>2 DEF Flight, HeldWhileUsed, Running
<1>3. CASE Expire \/ \E format \in ExportFormats, bulk \in BOOLEAN : Export(format, bulk)
  BY <1>3 DEF Expire, Export, InStore, LogEvents
<1> QED
  BY <1>1, <1>2, <1>3 DEF Request, CreateCase, AddMaterial, BeginUpload, TriggerExtraction,
     TriggerAnalysis, TryStart, Confirm, SubmitReview, LoadFromDisk, InStore, MaterialStatuses

\* Where a step of the only running task leaves the slots.
LEMMA SlotsAfter ==
    ASSUME TypeOK, Flight, NEW t \in Tasks, NEW new, task[t].pc # "idle",
           task' = [task EXCEPT ![t] = new]
    PROVE  /\ task'[t] = new
           /\ \A u \in Tasks : u # t => task'[u].pc = "idle" /\ task'[u] = task[u]
BY OthersIdle DEF TypeOK

\* A step of one task, in terms of the pcs before and after it.
LEMMA GoToSlots ==
    ASSUME TypeOK, Flight, NEW t \in Tasks, NEW pc, task[t].pc # "idle", GoTo(t, pc)
    PROVE  /\ task'[t] = [pc |-> pc, seen |-> task[t].seen]
           /\ \A u \in Tasks : u # t => task'[u].pc = "idle" /\ task'[u] = task[u]
<1>1. [task[t] EXCEPT !.pc = pc] = [pc |-> pc, seen |-> task[t].seen]
  BY DEF TypeOK
<1>2. task' = [task EXCEPT ![t] = [pc |-> pc, seen |-> task[t].seen]]
  BY <1>1, Zenon DEF GoTo
<1> QED BY <1>2, SlotsAfter

\* Nothing is claimed of a case at rest.
LEMMA WorkingAtRest ==
    ASSUME \A t \in Tasks : task'[t].pc = "idle"
    PROVE  Working'
BY DEF Working, WorkingAt, BeforeMeta, ExtractionAwaits, ExtractionTail, AnalysisAwaits

\* The invariant after a step that leaves t as the only task.
LEMMA WorkingOne ==
    ASSUME NEW t \in Tasks, \A u \in Tasks : u # t => task'[u].pc = "idle",
           WorkingAt(task[t].pc)'
    PROVE  Working'
<1>1. \A u \in Tasks : u # t => WorkingAt(task[u].pc)'
  BY DEF WorkingAt, BeforeMeta, ExtractionAwaits, ExtractionTail, AnalysisAwaits
<1> QED BY <1>1 DEF Working

\* A task starts only with its live status on the disk, in a case without review.
LEMMA RequestWorking ==
    ASSUME TypeOK, Flight, Working, Reviewed, Request
    PROVE  Working'
<1>1. CASE \A t \in Tasks : task'[t].pc = "idle"
  BY <1>1, WorkingAtRest
<1>2. CASE UNCHANGED <<rec, task, meta>> /\ held = "store"
  BY <1>2 DEF Working, WorkingAt
<1>3. ASSUME \A u \in Tasks : task[u].pc = "idle",
             NEW t \in Tasks, NEW ok \in BOOLEAN, NEW allowed, NEW active, NEW pc, NEW event,
             TryStart(t, allowed, active, pc, event, ok),
             \/ allowed = {"created"} /\ active = "extracting" /\ pc = "x_begin"
             \/ allowed = {"extracted", "confirmed"} /\ active = "analyzing" /\ pc = "a_begin"
      PROVE Working'
  <2>1. CASE ~ok
    BY <1>1, <1>3, <2>1 DEF TryStart
  <2>2. CASE ok
    <3>0. task' = [task EXCEPT ![t] = [pc |-> pc, seen |-> {}]]
      BY <1>3, <2>2 DEF TryStart
    <3>1. /\ task'[t].pc = pc
          /\ \A u \in Tasks : u # t => task'[u].pc = "idle"
      BY <1>3, <3>0 DEF TypeOK
    <3>2. /\ rec'.status = active /\ rec'.review = "none" /\ rec'.wm
          /\ meta'.status = active /\ meta'.review = "none"
      BY <1>3, <2>2 DEF TryStart, SaveToDisk, MetaOf, Reviewed, TypeOK, CaseRecord
    <3>3. WorkingAt(task[t].pc)'
      BY <1>3, <3>1, <3>2 DEF WorkingAt, BeforeMeta, ExtractionAwaits, ExtractionTail, AnalysisAwaits
    <3> QED BY <3>1, <3>3, WorkingOne
  <2> QED BY <2>1, <2>2
<1>4. ASSUME NEW t \in Tasks, NEW ok \in BOOLEAN,
             TriggerExtraction(t, ok) \/ TriggerAnalysis(t, ok),
             \A u \in Tasks : task[u].pc = "idle"
      PROVE Working'
  BY <1>3, <1>4 DEF TriggerExtraction, TriggerAnalysis
<1> QED
  BY <1>1, <1>2, <1>4, RequestAtRest DEF Request, CreateCase, AddMaterial, BeginUpload, Confirm,
     SubmitReview, LoadFromDisk, Expire, Export

\* Each step of a task leaves the disk where the pc says it is.
LEMMA TaskStepWorking ==
    ASSUME TypeOK, Flight, Working, NEW t \in Tasks, TaskStep(t)
    PROVE  Working'
<1> DEFINE Pc == task[t].pc
<1>a. WorkingAt(Pc)
  BY DEF Working
<1>b. ASSUME NEW pc, Pc # "idle", GoTo(t, pc), WorkingAt(pc)'
      PROVE Working'
  <2>0. task'[t] = [pc |-> pc, seen |-> task[t].seen]
    BY <1>b, GoToSlots
  <2>1. task'[t].pc = pc /\ \A u \in Tasks : u # t => task'[u].pc = "idle"
    BY <1>b, <2>0, GoToSlots
  <2>2. WorkingAt(task[t].pc)'
    BY <1>b, <2>1 DEF WorkingAt
  <2> QED BY <2>1, <2>2, WorkingOne
<1>c. ASSUME Pc # "idle", task' = [task EXCEPT ![t] = NoTask]
      PROVE Working'
  <2>1. task'[t] = NoTask /\ \A u \in Tasks : u # t => task'[u].pc = "idle"
    BY <1>c, SlotsAfter
  <2>2. \A u \in Tasks : task'[u].pc = "idle"
    BY <2>1 DEF NoTask
  <2> QED BY <2>2, WorkingAtRest
<1>d. ASSUME NEW new, Pc # "idle", task' = [task EXCEPT ![t] = new], WorkingAt(new.pc)'
      PROVE Working'
  <2>1. task'[t].pc = new.pc /\ \A u \in Tasks : u # t => task'[u].pc = "idle"
    BY <1>d, SlotsAfter
  <2>2. WorkingAt(task[t].pc)'
    BY <1>d, <2>1 DEF WorkingAt
  <2> QED BY <2>1, <2>2, WorkingOne
<1>e. /\ Pc \in ExtractionAwaits => rec.status = "extracting"
      /\ Pc \in AnalysisAwaits => rec.status = "analyzing"
  BY DEF Flight, SingleFlight
<1> USE DEF ExtractionAwaits, AnalysisAwaits, ExtractionTail, BeforeMeta
<1>1. CASE IndexPlaintiff(t)
  BY <1>1, <1>a, <1>d DEF IndexPlaintiff, RecordOnly, WorkingAt
<1>2. CASE IndexDefendant(t)
  BY <1>2, <1>a, <1>d DEF IndexDefendant, PlaintiffDone, RecordOnly, WorkingAt
<1>3. CASE ExtractIssues(t)
  <2>1. rec'.status = rec.status /\ rec'.review = rec.review /\ rec'.wm = rec.wm
    BY <1>3 DEF ExtractIssues, TypeOK, CaseRecord
  <2> QED BY <1>3, <2>1, <1>a, <1>b DEF ExtractIssues, PlaintiffDone, RecordOnly, WorkingAt
<1>4. CASE ReceiveIssues(t)
  <2>1. rec'.review = rec.review /\ rec'.wm = rec.wm
    BY <1>4 DEF ReceiveIssues, TypeOK, CaseRecord
  <2> QED BY <1>4, <2>1, <1>a, <1>b DEF ReceiveIssues, RecordOnly, WorkingAt
<1>5. CASE SaveEvidenceIndex(t)
  BY <1>5, <1>a, <1>b DEF SaveEvidenceIndex, Write, FilesOnly, WorkingAt
<1>6. CASE SaveIssueTree(t)
  BY <1>6, <1>a, <1>b DEF SaveIssueTree, Write, FilesOnly, WorkingAt
<1>7. ASSUME NEW ok \in BOOLEAN, FinishExtraction(t, ok) PROVE Working'
  <2>1. CASE ok
    BY <1>7, <2>1, <1>c DEF FinishExtraction
  <2>2. CASE ~ok
    <3>1. GoTo(t, "x_fail") /\ UNCHANGED <<rec, held, meta>>
          /\ (held = "store" /\ rec.wm => SavesMayFail)
      BY <1>7, <2>2 DEF FinishExtraction, GoTo, SaveToDisk
    <3> QED BY <1>7, <3>1, <1>a, <1>b DEF FinishExtraction, WorkingAt
  <2> QED BY <2>1, <2>2
<1>8. CASE StartRounds(t)
  BY <1>8, <1>a, <1>b, <1>e DEF StartRounds, RecordOnly, WorkingAt
<1>9. ASSUME NEW docx \in BOOLEAN, NEW md \in BOOLEAN, FinishRounds(t, docx, md) PROVE Working'
  <2>1. rec'.review = rec.review /\ rec'.wm = rec.wm
    BY <1>9 DEF FinishRounds, TypeOK, CaseRecord
  <2> QED BY <1>9, <2>1, <1>a, <1>b DEF FinishRounds, RecordOnly, WorkingAt
<1>10. CASE BaselineFails(t)
  <2>1. rec'.status = rec.status /\ rec'.review = rec.review /\ rec'.wm = rec.wm
    BY <1>10 DEF BaselineFails, TypeOK, CaseRecord
  <2> QED BY <1>10, <2>1, <1>a, <1>b, <1>e DEF BaselineFails, RecordOnly, WorkingAt
<1>11. CASE SaveArtifacts(t)
  BY <1>11, <1>a, <1>b DEF SaveArtifacts, Write, FilesOnly, WorkingAt
<1>12. CASE SaveAnalyzedMeta(t)
  <2>1. CASE GoTo(t, "a_event") /\ meta' = [NoMeta EXCEPT !.status = "analyzed", !.mats = rec.mats]
    <3>1. meta'.status = "analyzed" /\ meta'.review = "none"
      BY <2>1 DEF NoMeta
    <3> QED BY <1>12, <2>1, <3>1, <1>a, <1>b DEF SaveAnalyzedMeta, WorkingAt
  <2>2. CASE SavesMayFail /\ GoTo(t, "a_fail") /\ UNCHANGED meta
    BY <1>12, <2>2, <1>a, <1>b DEF SaveAnalyzedMeta, WorkingAt
  <2> QED BY <1>12, <2>1, <2>2 DEF SaveAnalyzedMeta
<1>13. ASSUME NEW ok \in BOOLEAN, FinishAnalysis(t, ok) PROVE Working'
  <2>1. CASE ok
    BY <1>13, <2>1, <1>c DEF FinishAnalysis
  <2>2. CASE ~ok
    <3>1. GoTo(t, "a_fail") /\ UNCHANGED <<rec, held, meta>>
          /\ (held = "store" /\ rec.wm => SavesMayFail)
      BY <1>13, <2>2 DEF FinishAnalysis, GoTo, SaveToDisk
    <3> QED BY <1>13, <3>1, <1>a, <1>b DEF FinishAnalysis, WorkingAt
  <2> QED BY <2>1, <2>2
<1>14. CASE CallFails(t)
  BY <1>14, <1>a, <1>b, <1>e DEF CallFails, RecordOnly, WorkingAt
<1>15. ASSUME NEW ok \in BOOLEAN, HandleFailure(t, ok) PROVE Working'
  BY <1>15, <1>c DEF HandleFailure
<1>16. CASE AnnounceAnalysis(t)
  BY <1>16, <1>a, <1>b DEF AnnounceAnalysis, WorkingAt
<1> QED BY <1>1, <1>2, <1>3, <1>4, <1>5, <1>6, <1>7, <1>8, <1>9, <1>10, <1>11, <1>12,
           <1>13, <1>14, <1>15, <1>16 DEF TaskStep

\* No step breaks what a running task knows.
LEMMA WorkingStep == TypeOK /\ Flight /\ Working /\ Reviewed /\ [Next]_vars => Working'
<1> SUFFICES ASSUME TypeOK, Flight, Working, Reviewed, [Next]_vars PROVE Working'
  OBVIOUS
<1>1. CASE Request
  BY <1>1, RequestWorking
<1>2. ASSUME NEW t \in Tasks, TaskStep(t) PROVE Working'
  BY <1>2, TaskStepWorking
<1>3. ASSUME NEW u \in Uploads, FinishUpload(u) PROVE Working'
  <2>1. CASE \A t \in Tasks : task'[t].pc = "idle"
    BY <2>1, WorkingAtRest
  <2>2. CASE rec.status \in {"extracting", "analyzing"}
    <3>1. rec'.status = rec.status /\ rec'.review = rec.review /\ rec'.wm = rec.wm
      BY <1>3, <2>2 DEF FinishUpload, WithMaterial, TypeOK, CaseRecord
    <3> QED BY <1>3, <3>1 DEF FinishUpload, Working, WorkingAt
  <2> QED BY <1>3, <2>1, <2>2, Quiet DEF FinishUpload
<1>4. CASE Restart
  BY <1>4, WorkingAtRest DEF Restart, NoTask
<1>5. CASE UNCHANGED vars
  BY <1>5 DEF vars, Working, WorkingAt
<1> QED BY <1>1, <1>2, <1>3, <1>4, <1>5 DEF Next

----------------------------------------------------------------------------
(* Review *)

\* A case with a running task has no review, before and after each of its steps.
LEMMA NoReviewAtWork ==
    ASSUME TypeOK, Flight, Working, NEW t \in Tasks, TaskStep(t)
    PROVE  /\ rec.review = "none" /\ meta.review = "none"
           /\ rec'.review = "none" /\ meta'.review = "none"
<1>1. task[t].pc # "idle" => rec.review = "none" /\ meta.review = "none"
  BY DEF Working, WorkingAt
<1>2. task[t].pc # "idle"
  BY DEF TaskStep, IndexPlaintiff, IndexDefendant, PlaintiffDone, ExtractIssues, ReceiveIssues,
         SaveEvidenceIndex, SaveIssueTree, FinishExtraction, StartRounds, FinishRounds,
         BaselineFails, SaveArtifacts, SaveAnalyzedMeta, AnnounceAnalysis, FinishAnalysis,
         CallFails, HandleFailure, ExtractionAwaits
<1>3. rec'.review = rec.review
  <2>1. CASE UNCHANGED rec
    BY <2>1
  <2>2. CASE ExtractIssues(t) \/ ReceiveIssues(t) \/ BaselineFails(t)
             \/ \E docx, md \in BOOLEAN : FinishRounds(t, docx, md)
             \/ \E ok \in BOOLEAN : HandleFailure(t, ok)
    BY <2>2 DEF ExtractIssues, ReceiveIssues, BaselineFails, FinishRounds, HandleFailure,
                TypeOK, CaseRecord
  <2> QED
    BY <2>1, <2>2 DEF TaskStep, IndexPlaintiff, IndexDefendant, SaveEvidenceIndex, SaveIssueTree,
       FinishExtraction, StartRounds, SaveArtifacts, SaveAnalyzedMeta, AnnounceAnalysis,
       FinishAnalysis, CallFails, FilesOnly
<1>4. meta' \in {meta, MetaOf(rec'), [NoMeta EXCEPT !.status = "analyzed", !.mats = rec.mats]}
  BY DEF TaskStep, IndexPlaintiff, IndexDefendant, ExtractIssues, ReceiveIssues,
         SaveEvidenceIndex, SaveIssueTree, FinishExtraction, StartRounds, FinishRounds,
         BaselineFails, SaveArtifacts, SaveAnalyzedMeta, AnnounceAnalysis, FinishAnalysis,
         CallFails, HandleFailure, SaveToDisk, RecordOnly, FilesOnly
<1>5. MetaOf(rec').review = rec'.review
  BY DEF MetaOf
<1>6. [NoMeta EXCEPT !.status = "analyzed", !.mats = rec.mats].review = "none"
  BY DEF NoMeta
<1> QED BY <1>1, <1>2, <1>3, <1>4, <1>5, <1>6

\* Reviews are given to analysed cases only, and a final one stays with the case.
LEMMA ReviewedStep ==
    TypeOK /\ Flight /\ Working /\ Reviewed /\ [Next]_vars
      => Reviewed' /\ (meta.review \in Final => meta'.review = meta.review)
<1> SUFFICES ASSUME TypeOK, Flight, Working, Reviewed, [Next]_vars
             PROVE  Reviewed' /\ (meta.review \in Final => meta'.review = meta.review)
  OBVIOUS
<1> USE DEF Reviewed, Final
<1>1. ASSUME NEW wmOk \in BOOLEAN, NEW metaOk \in BOOLEAN, CreateCase(wmOk, metaOk)
      PROVE  Reviewed' /\ (meta.review \in Final => meta'.review = meta.review)
  BY <1>1 DEF CreateCase, MetaOf, NewRecord
<1>2. ASSUME NEW m \in Mats, rec' = WithMaterial(m), UNCHANGED <<meta, held>>
      PROVE  Reviewed' /\ (meta.review \in Final => meta'.review = meta.review)
  <2>1. /\ rec'.review = rec.review
        /\ rec'.status = IF rec.status \in {"extracted", "confirmed"} THEN "created" ELSE rec.status
    BY <1>2 DEF WithMaterial, TypeOK, CaseRecord
  <2> QED BY <1>2, <2>1
<1>3. ASSUME NEW t \in Tasks, NEW ok \in BOOLEAN, NEW allowed, NEW active, NEW pc, NEW event,
             TryStart(t, allowed, active, pc, event, ok), "analyzed" \notin allowed
      PROVE  Reviewed' /\ (meta.review \in Final => meta'.review = meta.review)
  <2>1. rec'.review = rec.review /\ rec.review = "none" /\ held' = held /\ held = "store"
    BY <1>3 DEF TryStart, InStore, TypeOK, CaseRecord
  <2>2. meta' = meta \/ meta'.review = "none"
    BY <1>3, <2>1 DEF TryStart, SaveToDisk, MetaOf
  <2> QED BY <2>1, <2>2
<1>4. ASSUME NEW edits \in BOOLEAN, Confirm(edits)
      PROVE  Reviewed' /\ (meta.review \in Final => meta'.review = meta.review)
  <2>1. rec'.review = rec.review /\ rec.review = "none"
    BY <1>4 DEF Confirm, TypeOK, CaseRecord
  <2> QED BY <1>4, <2>1 DEF Confirm
<1>5. ASSUME NEW action \in ReviewStatus, NEW ok \in BOOLEAN, SubmitReview(action, ok)
      PROVE  Reviewed' /\ (meta.review \in Final => meta'.review = meta.review)
  <2>1. rec'.review = action /\ rec'.status = "analyzed" /\ held = "store" /\ held' = "store"
    BY <1>5 DEF SubmitReview, InStore, TypeOK, CaseRecord
  <2>2. meta.review \notin Final
    BY <1>5 DEF SubmitReview, InStore, ReviewTransitions
  <2>3. CASE ok
    <3>1. meta'.review = action /\ meta'.status = "analyzed"
      BY <1>5, <2>1, <2>3 DEF SubmitReview, MetaOf
    <3> QED BY <2>1, <2>2, <3>1
  <2>4. CASE ~ok
    BY <1>5, <2>1, <2>2, <2>4 DEF SubmitReview
  <2> QED BY <2>3, <2>4
<1>6. CASE LoadFromDisk
  BY <1>6 DEF LoadFromDisk, Restored
<1>7. ASSUME NEW t \in Tasks, TaskStep(t)
      PROVE  Reviewed' /\ (meta.review \in Final => meta'.review = meta.review)
  BY <1>7, NoReviewAtWork
<1>8. CASE Restart
  BY <1>8 DEF Restart, NewRecord
<1>9. CASE UNCHANGED <<rec, meta>> /\ (held' = held \/ held = "store")
  BY <1>9
<1>10. CASE UNCHANGED vars
  BY <1>10 DEF vars
<1>11. ASSUME NEW u \in Uploads, FinishUpload(u)
       PROVE  Reviewed' /\ (meta.review \in Final => meta'.review = meta.review)
  <2>1. upload[u] \in Mats
    BY <1>11 DEF FinishUpload, TypeOK
  <2> QED BY <1>2, <1>11, <2>1 DEF FinishUpload
<1>12. CASE Request
  <2>1. ASSUME NEW m \in Mats, AddMaterial(m)
        PROVE  Reviewed' /\ (meta.review \in Final => meta'.review = meta.review)
    BY <1>2, <2>1 DEF AddMaterial
  <2>2. ASSUME NEW t \in Tasks, NEW ok \in BOOLEAN, TriggerExtraction(t, ok) \/ TriggerAnalysis(t, ok)
        PROVE  Reviewed' /\ (meta.review \in Final => meta'.review = meta.review)
    BY <1>3, <2>2 DEF TriggerExtraction, TriggerAnalysis
  <2>3. CASE Expire \/ (\E u \in Uploads, m \in Mats : BeginUpload(u, m))
             \/ \E format \in ExportFormats, bulk \in BOOLEAN : Export(format, bulk)
    BY <1>9, <2>3 DEF Expire, BeginUpload, Export, InStore
  <2> QED BY <1>1, <1>4, <1>5, <1>6, <1>12, <2>1, <2>2, <2>3 DEF Request
<1> QED BY <1>7, <1>8, <1>10, <1>11, <1>12 DEF Next
\* What the proofs of this section need of every reachable state.
Durable == TypeOK /\ Flight /\ Working /\ Reviewed

\* Durable is inductive: at the start ...
LEMMA InitDurable == Init => Durable
<1> SUFFICES ASSUME Init PROVE Working /\ Reviewed
  BY InitType, InitFlight DEF Durable
<1>1. rec.review = "none" /\ meta.review = "none"
  BY DEF Init, NewRecord, NoMeta
<1>2. Working
  BY DEF Init, NoTask, Working, WorkingAt, BeforeMeta, ExtractionAwaits, ExtractionTail,
         AnalysisAwaits
<1> QED BY <1>1, <1>2 DEF Reviewed, Final

\* ... and in every step ...
LEMMA DurableStep == Durable /\ [Next]_vars => Durable'
<1>1. Flight => DebateHasIndex
  BY DEF Flight
<1> QED BY <1>1, TypeStep, FlightStep, WorkingStep, ReviewedStep DEF Durable

\* ... so that it always holds.
LEMMA DurableHolds == Spec => []Durable
BY InitDurable, DurableStep, PTL DEF Spec

\* A final decision of a reviewer is never lost or changed, whichever saves fail,
\* wherever the process dies, and if the case is evicted (SubmitReview, _load_from_disk).
THEOREM DecisionIsFinalHolds == Spec => DecisionIsFinal
<1>1. Durable /\ [Next]_vars
        => [meta.review \in {"approved", "rejected"} => meta'.review = meta.review]_vars
  BY ReviewedStep DEF Durable, Final
<1> QED BY <1>1, DurableHolds, PTL DEF Spec, DecisionIsFinal

----------------------------------------------------------------------------
(* The lifecycle *)

\* The variables of CaseLifecycle, as LifecycleSpec maps them.
Live == IF held = "store" THEN rec.status ELSE "absent"

\* A step of the system, seen through the mapping.
Mapped == [Lifecycle!Next]_<<Live, meta.status>>

\* Nothing has happened to the case yet.
LEMMA InitLifecycle == Init => Lifecycle!Init
BY DEF Init, Lifecycle!Init, NoMeta

\* The live status moves, and the new one may have reached the disk.
LEMMA MoveMapped ==
    ASSUME held = "store", held' = "store", <<rec.status, rec'.status>> \in Lifecycle!Moves,
           meta'.status \in {meta.status, rec'.status}
    PROVE  Mapped
BY DEF Mapped, Live, Lifecycle!Next, Lifecycle!Move

\* The live status stays, and the disk may have caught up with it.
LEMMA FlushMapped ==
    ASSUME TypeOK, held' = held, rec'.status = rec.status,
           meta'.status = meta.status \/ (held = "store" /\ meta'.status = rec.status)
    PROVE  Mapped
<1>1. rec.status # "absent"
  BY DEF TypeOK, CaseRecord, CaseStatus
<1> QED BY <1>1 DEF Mapped, Live, Lifecycle!Next, Lifecycle!Flush

\* What happens to a case that the store does not hold is not seen.
LEMMA UnseenMapped ==
    ASSUME held # "store", held' = held, meta'.status = meta.status
    PROVE  Mapped
BY DEF Mapped, Live

\* A handler makes at most one step of the lifecycle.
LEMMA RequestMapped ==
    ASSUME Durable, Request
    PROVE  Mapped
<1> USE DEF Durable
<1>0. rec.status \in CaseStatus
  BY DEF TypeOK, CaseRecord
<1>1. ASSUME NEW wmOk \in BOOLEAN, NEW metaOk \in BOOLEAN, CreateCase(wmOk, metaOk)
      PROVE  Mapped
  <2>1. Live = "absent" /\ Live' = "created" /\ meta.status = "absent"
    BY <1>1 DEF CreateCase, Live, NewRecord
  <2>2. meta'.status \in {"absent", "created"}
    BY <1>1 DEF CreateCase, MetaOf, NewRecord
  <2> QED BY <2>1, <2>2 DEF Mapped, Live, Lifecycle!Next, Lifecycle!Create
<1>2. ASSUME NEW m \in Mats, AddMaterial(m) PROVE Mapped
  <2>1. rec'.status = IF rec.status \in {"extracted", "confirmed"} THEN "created" ELSE rec.status
    BY <1>2 DEF AddMaterial, WithMaterial, TypeOK, CaseRecord
  <2>2. CASE rec.status \in {"extracted", "confirmed"}
    BY <1>2, <2>1, <2>2, MoveMapped DEF AddMaterial, InStore, Lifecycle!Moves
  <2>3. CASE rec.status \notin {"extracted", "confirmed"}
    BY <1>2, <2>1, <2>3, FlushMapped DEF AddMaterial
  <2> QED BY <2>2, <2>3
<1>3. ASSUME NEW t \in Tasks, NEW ok \in BOOLEAN, NEW allowed, NEW active, NEW pc, NEW event,
             TryStart(t, allowed, active, pc, event, ok),
             \/ allowed = {"created"} /\ active = "extracting"
             \/ allowed = {"extracted", "confirmed"} /\ active = "analyzing"
      PROVE  Mapped
  <2>1. rec'.status = active /\ held = "store" /\ held' = "store"
    BY <1>3 DEF TryStart, InStore, TypeOK, CaseRecord
  <2>2. meta' = meta \/ meta'.status = active
    BY <1>3, <2>1 DEF TryStart, SaveToDisk, MetaOf
  <2>3. <<rec.status, active>> \in Lifecycle!Moves
    BY <1>3 DEF TryStart, Lifecycle!Moves
  <2> QED BY <2>1, <2>2, <2>3, MoveMapped
<1>4. ASSUME NEW t \in Tasks, NEW ok \in BOOLEAN, TriggerExtraction(t, ok) \/ TriggerAnalysis(t, ok)
      PROVE  Mapped
  BY <1>3, <1>4 DEF TriggerExtraction, TriggerAnalysis
<1>5. ASSUME NEW edits \in BOOLEAN, Confirm(edits) PROVE Mapped
  <2>1. rec'.status = "confirmed" /\ UNCHANGED <<held, meta>> /\ held = "store"
    BY <1>5 DEF Confirm, InStore, TypeOK, CaseRecord
  <2>2. CASE rec.status = "extracted"
    BY <2>1, <2>2, MoveMapped DEF Lifecycle!Moves
  <2>3. CASE rec.status = "confirmed"
    BY <2>1, <2>3, FlushMapped
  <2> QED BY <1>5, <2>2, <2>3 DEF Confirm
<1>6. ASSUME NEW action \in ReviewStatus, NEW ok \in BOOLEAN, SubmitReview(action, ok)
      PROVE  Mapped
  <2>1. rec'.status = "analyzed" /\ rec.status = "analyzed" /\ held = "store" /\ held' = held
    BY <1>6 DEF SubmitReview, InStore, TypeOK, CaseRecord
  <2>2. meta' = meta \/ meta'.status = "analyzed"
    BY <1>6, <2>1 DEF SubmitReview, MetaOf
  <2> QED BY <2>1, <2>2, FlushMapped
<1>7. CASE Expire
  <2>1. Live = rec.status /\ Live' = "absent" /\ rec.status # "absent"
    BY <1>7, <1>0 DEF Expire, InStore, Live, CaseStatus
  <2> QED BY <1>7, <2>1 DEF Expire, Mapped, Live, Lifecycle!Next, Lifecycle!Forget
<1>8. CASE LoadFromDisk
  <2>1. Live = "absent" /\ Live' = meta.status /\ meta' = meta
    BY <1>8 DEF LoadFromDisk, Live, Restored
  <2> QED BY <1>8, <2>1 DEF LoadFromDisk, Mapped, Live, Lifecycle!Next, Lifecycle!Recover
<1>9. CASE UNCHANGED <<rec, held, meta>>
  BY <1>9, FlushMapped
<1> QED
  BY <1>1, <1>2, <1>4, <1>5, <1>6, <1>7, <1>8, <1>9 DEF Request, BeginUpload, Export

\* A step of a task moves the live status, or brings the disk up to date with it;
\* of an evicted case only the end of its analysis is seen.
LEMMA TaskStepMapped ==
    ASSUME Durable, NEW t \in Tasks, TaskStep(t)
    PROVE  Mapped
<1> USE DEF Durable
<1> DEFINE Pc == task[t].pc
<1>a. /\ Pc \in ExtractionAwaits => rec.status = "extracting"
      /\ Pc \in AnalysisAwaits => rec.status = "analyzing"
      /\ Pc = "x_fail" => rec.status \in {"extracting", "extracted"}
      /\ Pc \in AnalysisTail \ {"a_fail"} => rec.status = "analyzed"
      /\ Pc = "a_fail" => rec.status \in {"analyzing", "analyzed"}
  BY DEF Flight, SingleFlight, TaskStatus
<1>b. WorkingAt(Pc)
  BY DEF Working
<1>1. CASE UNCHANGED <<held, meta>> /\ rec'.status = rec.status
  BY <1>1, FlushMapped
<1>2. CASE ExtractIssues(t) \/ BaselineFails(t)
  <2>1. rec'.status = rec.status
    BY <1>2 DEF ExtractIssues, BaselineFails, TypeOK, CaseRecord
  <2> QED BY <1>1, <1>2, <2>1 DEF ExtractIssues, BaselineFails, RecordOnly
<1>3. CASE ReceiveIssues(t)
  <2>1. rec'.status = "extracted" /\ rec.status = "extracting" /\ UNCHANGED <<held, meta>>
    BY <1>3, <1>a DEF ReceiveIssues, RecordOnly, ExtractionAwaits, TypeOK, CaseRecord
  <2> QED BY <2>1, MoveMapped, UnseenMapped DEF Lifecycle!Moves
<1>4. ASSUME NEW docx \in BOOLEAN, NEW md \in BOOLEAN, FinishRounds(t, docx, md) PROVE Mapped
  <2>1. rec'.status = "analyzed" /\ rec.status = "analyzing" /\ UNCHANGED <<held, meta>>
    BY <1>4, <1>a DEF FinishRounds, RecordOnly, AnalysisAwaits, TypeOK, CaseRecord
  <2> QED BY <2>1, MoveMapped, UnseenMapped DEF Lifecycle!Moves
<1>5. ASSUME NEW ok \in BOOLEAN, FinishExtraction(t, ok) \/ FinishAnalysis(t, ok) PROVE Mapped
  <2>1. UNCHANGED <<rec, held>> /\ (meta' = meta \/ (held = "store" /\ meta'.status = rec.status))
    BY <1>5 DEF FinishExtraction, FinishAnalysis, SaveToDisk, MetaOf
  <2> QED BY <2>1, FlushMapped
<1>6. CASE SaveAnalyzedMeta(t)
  <2>1. UNCHANGED <<rec, held>> /\ rec.status = "analyzed" /\ meta.status = "analyzing"
    BY <1>6, <1>a, <1>b DEF SaveAnalyzedMeta, WorkingAt, BeforeMeta, AnalysisTail
  <2>2. meta' = meta \/ meta'.status = "analyzed"
    BY <1>6 DEF SaveAnalyzedMeta, NoMeta
  <2>3. CASE held = "store"
    BY <2>1, <2>2, <2>3, FlushMapped
  <2>4. CASE held # "store"
    BY <2>1, <2>2, <2>4 DEF Mapped, Live, Lifecycle!Next, Lifecycle!FinishUnseen
  <2> QED BY <2>3, <2>4
<1>7. ASSUME NEW ok \in BOOLEAN, HandleFailure(t, ok) PROVE Mapped
  <2>1. rec'.status = "failed" /\ held' = held
    BY <1>7 DEF HandleFailure, TypeOK, CaseRecord
  <2>2. meta' = meta \/ (held = "store" /\ meta'.status = "failed")
    BY <1>7, <2>1 DEF HandleFailure, SaveToDisk, MetaOf
  <2>3. CASE held = "store"
    <3>1. <<rec.status, "failed">> \in Lifecycle!Moves
      BY <1>7, <1>a, <1>b, <2>3 DEF HandleFailure, WorkingAt, Lifecycle!Moves
    <3> QED BY <2>1, <2>2, <2>3, <3>1, MoveMapped
  <2>4. CASE held # "store"
    BY <2>1, <2>2, <2>4, UnseenMapped
  <2> QED BY <2>3, <2>4
<1> QED
  BY <1>1, <1>2, <1>3, <1>4, <1>5, <1>6, <1>7 DEF TaskStep, IndexPlaintiff, IndexDefendant,
     SaveEvidenceIndex, SaveIssueTree, StartRounds, SaveArtifacts, AnnounceAnalysis, CallFails,
     RecordOnly, FilesOnly

\* Every step of the system is a step of the lifecycle or none.
LEMMA StepMapped == Durable /\ [Next]_vars => Mapped
<1> SUFFICES ASSUME Durable, [Next]_vars PROVE Mapped
  OBVIOUS
<1>1. ASSUME NEW u \in Uploads, FinishUpload(u) PROVE Mapped
  <2>1. rec'.status = IF rec.status \in {"extracted", "confirmed"} THEN "created" ELSE rec.status
    BY <1>1 DEF FinishUpload, WithMaterial, Durable, TypeOK, CaseRecord
  <2>2. CASE held = "store" /\ rec.status \in {"extracted", "confirmed"}
    BY <1>1, <2>1, <2>2, MoveMapped DEF FinishUpload, Lifecycle!Moves
  <2>3. CASE held # "store"
    BY <1>1, <2>3, UnseenMapped DEF FinishUpload
  <2>4. CASE rec.status \notin {"extracted", "confirmed"}
    BY <1>1, <2>1, <2>4, FlushMapped DEF FinishUpload, Durable
  <2> QED BY <2>2, <2>3, <2>4
<1>2. CASE Restart
  <2>1. Live' = "absent" /\ meta' = meta
    BY <1>2 DEF Restart, Live
  <2> QED BY <2>1 DEF Mapped, Live, Lifecycle!Next, Lifecycle!Forget
<1>3. CASE UNCHANGED vars
  BY <1>3, FlushMapped DEF vars, Durable
<1> QED BY <1>1, <1>2, <1>3, RequestMapped, TaskStepMapped DEF Next

\* The API keeps its promise about the status of a case, with failing saves, evictions
\* under a running task and deaths of the process at any point: clients see only the
\* moves of CaseLifecycle, and what a restart brings back was live before.
THEOREM ImplementsLifecycle == Spec => LifecycleSpec
<1>1. Durable /\ [Next]_vars
        => [Lifecycle!Next]_<<IF held = "store" THEN rec.status ELSE "absent", meta.status>>
  BY StepMapped DEF Mapped, Live
<1> QED BY <1>1, InitLifecycle, DurableHolds, PTL DEF Spec, LifecycleSpec, Lifecycle!Spec

----------------------------------------------------------------------------
(* The evidence index *)

\* With one task, what Built says is decided by its pc.
BuiltAt(pc) ==
    held # "gone" /\ rec.status \in Later =>
        /\ rec.ev # NoIndex /\ rec.tree # "none" /\ rec.ev.of \subseteq rec.mats
        /\ pc \notin {"x_save_ev", "x_fail"} => files.ev # NoIndex /\ files.ev.of = rec.ev.of
        /\ pc \notin {"x_save_ev", "x_save_tree", "x_fail"} => files.tree # "none"

\* Before the step of a task ...
LEMMA BuiltBefore ==
    ASSUME Durable, Built, NEW t \in Tasks, task[t].pc # "idle"
    PROVE  BuiltAt(task[t].pc)
BY OthersIdle DEF Durable, Built, BuiltAt, NoTaskAt

\* ... after it ...
LEMMA BuiltAfter ==
    ASSUME NEW t \in Tasks, BuiltAt(task[t].pc)'
    PROVE  Built'
BY DEF Built, BuiltAt, NoTaskAt

\* ... before the step of a request that finds no task ...
LEMMA BuiltIdle ==
    ASSUME Built, \A t \in Tasks : task[t].pc = "idle"
    PROVE  BuiltAt("idle")
BY DEF Built, BuiltAt, NoTaskAt

\* ... and after one that starts none.
LEMMA BuiltAtRest ==
    ASSUME BuiltAt("idle")'
    PROVE  Built'
BY DEF Built, BuiltAt

\* Without a task, nothing has been read.
LEMMA ReadAtRest ==
    ASSUME \A t \in Tasks : task'[t].pc = "idle"
    PROVE  Read'
BY DEF Read, Running

\* A new material is the only change; a case that was extracted starts anew.
LEMMA MaterialIndexed ==
    ASSUME Durable, Indexed, ~LoopBusy, NEW m \in Mats, rec' = WithMaterial(m),
           UNCHANGED <<held, task, meta, files>>
    PROVE  Indexed'
<1> USE DEF Durable
<1>1. Stored'
  BY DEF Indexed, Stored
<1>2. CASE rec.status \in {"extracted", "confirmed"}
  <2>1. \A t \in Tasks : task'[t].pc = "idle"
    BY <1>2, Quiet
  <2>2. rec'.status = "created"
    BY <1>2 DEF WithMaterial, TypeOK, CaseRecord
  <2>3. Built'
    BY <2>2 DEF Built, Later
  <2> QED BY <1>1, <2>1, <2>3, ReadAtRest DEF Indexed
<1>3. CASE rec.status \notin {"extracted", "confirmed"}
  <2>1. /\ rec'.status = rec.status /\ rec'.ev = rec.ev /\ rec'.tree = rec.tree
        /\ rec.mats \subseteq rec'.mats
    BY <1>3 DEF WithMaterial, TypeOK, CaseRecord
  <2>2. Read'
    BY <2>1 DEF Indexed, Read, Running
  <2>3. Built'
    BY <2>1 DEF Indexed, Built, NoTaskAt
  <2> QED BY <1>1, <2>2, <2>3 DEF Indexed
<1> QED BY <1>2, <1>3

\* No handler lets the index, its files and the meta come apart.
LEMMA RequestIndexed ==
    ASSUME Durable, Indexed, Request
    PROVE  Indexed'
<1> USE DEF Durable
<1>1. ASSUME NEW wmOk \in BOOLEAN, NEW metaOk \in BOOLEAN, CreateCase(wmOk, metaOk)
      PROVE  Indexed'
  <2>1. \A t \in Tasks : task'[t].pc = "idle"
    BY <1>1 DEF CreateCase, Flight, HeldWhileUsed, Running
  <2>2. rec'.status = "created" /\ meta'.status \in {"created", "absent"}
    BY <1>1 DEF CreateCase, NewRecord, MetaOf
  <2> QED BY <2>1, <2>2, ReadAtRest DEF Indexed, Built, Stored, Later
<1>2. ASSUME NEW m \in Mats, AddMaterial(m) PROVE Indexed'
  BY <1>2, MaterialIndexed DEF AddMaterial, InStore
<1>3. ASSUME NEW t \in Tasks, NEW ok \in BOOLEAN, TriggerExtraction(t, ok) PROVE Indexed'
  <2> DEFINE new == [pc |-> "x_begin", seen |-> {}]
  <2>1. rec'.status = "extracting"
    BY <1>3 DEF TriggerExtraction, TryStart, TypeOK, CaseRecord
  <2>2. files' = files /\ (meta' = meta \/ meta'.status = "extracting")
    BY <1>3, <2>1 DEF TriggerExtraction, TryStart, SaveToDisk, MetaOf
  <2>3. \A u \in Tasks : task[u].pc = "idle"
    BY <1>3, Quiet DEF TriggerExtraction, TryStart, InStore
  <2>4. \A u \in Tasks : task'[u].pc = "idle" \/ task'[u] = new
    BY <1>3, <2>3 DEF TriggerExtraction, TryStart, TypeOK
  <2>5. Read'
    BY <2>4 DEF Read, Running
  <2> QED BY <2>1, <2>2, <2>5 DEF Indexed, Built, Stored, Later
<1>4. ASSUME NEW t \in Tasks, NEW ok \in BOOLEAN, TriggerAnalysis(t, ok) PROVE Indexed'
  <2> DEFINE new == [pc |-> "a_begin", seen |-> {}]
  <2>1. /\ rec'.status = "analyzing" /\ rec'.ev = rec.ev /\ rec'.tree = rec.tree
        /\ rec'.mats = rec.mats /\ held = "store" /\ held' = "store" /\ files' = files
        /\ rec.status \in {"extracted", "confirmed"}
    BY <1>4 DEF TriggerAnalysis, TryStart, InStore, TypeOK, CaseRecord
  <2>2. meta' = meta \/ (meta'.status = "analyzing" /\ meta'.mats = rec.mats)
    BY <1>4, <2>1 DEF TriggerAnalysis, TryStart, SaveToDisk, MetaOf
  <2>3. \A u \in Tasks : task[u].pc = "idle"
    BY <1>4, Quiet DEF TriggerAnalysis, TryStart, InStore
  <2>4. \A u \in Tasks : task'[u].pc = "idle" \/ task'[u] = new
    BY <1>4, <2>3 DEF TriggerAnalysis, TryStart, TypeOK
  <2>5. Read'
    BY <2>4 DEF Read, Running
  <2>6. BuiltAt("idle")
    BY <2>3, BuiltIdle DEF Indexed
  <2>7. Built'
    BY <2>1, <2>6, BuiltAtRest DEF BuiltAt, Later
  <2>8. Stored'
    BY <2>1, <2>2, <2>6 DEF Indexed, Stored, BuiltAt, Later
  <2> QED BY <2>5, <2>7, <2>8 DEF Indexed
<1>5. ASSUME NEW edits \in BOOLEAN, Confirm(edits) PROVE Indexed'
  <2>1. /\ rec'.status = "confirmed" /\ rec'.ev = rec.ev /\ rec'.mats = rec.mats
        /\ (rec.tree # "none" => rec'.tree # "none") /\ rec.status \in Later
        /\ UNCHANGED <<held, task, meta, files>>
    BY <1>5 DEF Confirm, TypeOK, CaseRecord, Later
  <2>2. Read'
    BY <2>1 DEF Indexed, Read, Running
  <2>3. Built'
    BY <2>1 DEF Indexed, Built, NoTaskAt
  <2> QED BY <2>1, <2>2, <2>3 DEF Indexed, Stored
<1>6. ASSUME NEW action \in ReviewStatus, NEW ok \in BOOLEAN, SubmitReview(action, ok)
      PROVE  Indexed'
  <2>1. /\ rec'.status = "analyzed" /\ rec.status = "analyzed" /\ rec'.ev = rec.ev
        /\ rec'.tree = rec.tree /\ rec'.mats = rec.mats /\ held = "store"
        /\ UNCHANGED <<held, task, files>>
    BY <1>6 DEF SubmitReview, InStore, TypeOK, CaseRecord
  <2>2. meta' = meta \/ (meta'.status = "analyzed" /\ meta'.mats = rec.mats)
    BY <1>6, <2>1 DEF SubmitReview, MetaOf
  <2>3. \A u \in Tasks : task[u].pc = "idle"
    BY <1>6, Quiet DEF SubmitReview, InStore
  <2>4. BuiltAt("idle")
    BY <2>3, BuiltIdle DEF Indexed
  <2>5. Built'
    BY <2>1, <2>4, BuiltAtRest DEF BuiltAt
  <2>6. Stored'
    BY <2>1, <2>2, <2>4 DEF Indexed, Stored, BuiltAt, Later
  <2> QED BY <2>1, <2>3, <2>5, <2>6, ReadAtRest DEF Indexed
<1>7. CASE LoadFromDisk
  <2>1. \A t \in Tasks : task'[t].pc = "idle"
    BY <1>7 DEF LoadFromDisk, Flight, HeldWhileUsed, Running
  <2>2. /\ rec'.status = meta.status /\ rec'.ev = files.ev /\ rec'.tree = files.tree
        /\ rec'.mats = meta.mats /\ UNCHANGED <<meta, files>>
    BY <1>7 DEF LoadFromDisk, Restored
  <2>3. Built'
    BY <2>2 DEF Indexed, Stored, Built
  <2> QED BY <2>1, <2>2, <2>3, ReadAtRest DEF Indexed, Stored
<1>8. CASE UNCHANGED <<rec, task, meta, files>> /\ (held' = held \/ held = "store")
  BY <1>8 DEF Indexed, Read, Running, Built, Stored, NoTaskAt
<1> QED
  BY <1>1, <1>2, <1>3, <1>4, <1>5, <1>6, <1>7, <1>8 DEF Request, BeginUpload, Export, Expire, InStore
\* An index is not None.
LEMMA IndexExists ==
    ASSUME NEW S \in SUBSET Mats, NEW b \in BOOLEAN
    PROVE  [of |-> S, promoted |-> b] # NoIndex /\ [of |-> S, promoted |-> b].of = S
<1>1. [of |-> S, promoted |-> b] \in [of : SUBSET Mats, promoted : BOOLEAN]
  OBVIOUS
<1> QED BY <1>1, CaseServiceAssumption DEF CaseServiceAssumption

\* What a step of t must establish for the invariant.
LEMMA IndexedAfter ==
    ASSUME NEW t \in Tasks, \A u \in Tasks : u # t => task'[u].pc = "idle",
           task'[t].pc # "idle" => task'[t].seen \subseteq rec'.mats,
           task'[t].pc = "x_issues" => rec'.ev # NoIndex /\ rec'.ev.of \subseteq rec'.mats,
           BuiltAt(task[t].pc)', Stored'
    PROVE  Indexed'
<1>1. Read'
  BY DEF Read, Running
<1> QED BY <1>1, BuiltAfter DEF Indexed

\* A task writes what it has built before the meta says so.
LEMMA TaskStepIndexed ==
    ASSUME Durable, Indexed, NEW t \in Tasks, TaskStep(t)
    PROVE  Indexed'
<1> USE DEF Durable
<1> DEFINE Pc == task[t].pc
<1>a. /\ Pc \in ExtractionAwaits => rec.status = "extracting"
      /\ Pc \in AnalysisAwaits => rec.status = "analyzing"
      /\ Pc \in {"x_save_ev", "x_save_tree", "x_persist"} => rec.status = "extracted"
      /\ Pc \in AnalysisTail \ {"a_fail"} => rec.status = "analyzed"
      /\ Pc # "idle" => held # "gone"
  BY DEF Flight, SingleFlight, TaskStatus, HeldWhileUsed, Running
<1>b. WorkingAt(Pc)
  BY DEF Working
<1>c. /\ Pc # "idle" => BuiltAt(Pc)
      /\ Stored
      /\ Pc # "idle" => task[t].seen \subseteq rec.mats
      /\ Pc = "x_issues" => rec.ev # NoIndex /\ rec.ev.of \subseteq rec.mats
  BY BuiltBefore DEF Indexed, Read, Running
<1>d. ASSUME NEW pc, Pc # "idle", GoTo(t, pc), task[t].seen \subseteq rec'.mats,
             pc = "x_issues" => rec'.ev # NoIndex /\ rec'.ev.of \subseteq rec'.mats,
             BuiltAt(pc)', Stored'
      PROVE  Indexed'
  <2>0. task'[t] = [pc |-> pc, seen |-> task[t].seen]
    BY <1>d, GoToSlots
  <2>1. task'[t].pc = pc /\ task'[t].seen = task[t].seen
    BY <2>0
  <2>2. \A u \in Tasks : u # t => task'[u].pc = "idle"
    BY <1>d, GoToSlots
  <2>3. BuiltAt(task[t].pc)'
    BY <1>d, <2>1 DEF BuiltAt
  <2> QED BY <1>d, <2>1, <2>2, <2>3, IndexedAfter
<1>e. ASSUME Pc # "idle", task' = [task EXCEPT ![t] = NoTask], Built', Stored'
      PROVE  Indexed'
  <2>1. task'[t] = NoTask /\ \A u \in Tasks : u # t => task'[u].pc = "idle"
    BY <1>e, SlotsAfter
  <2>2. \A u \in Tasks : task'[u].pc = "idle"
    BY <2>1 DEF NoTask
  <2> QED BY <1>e, <2>2, ReadAtRest DEF Indexed
<1>f. ASSUME NEW new, Pc # "idle", new.pc # "x_issues", task' = [task EXCEPT ![t] = new],
             new.seen \subseteq rec.mats, rec.status \notin Later, UNCHANGED <<rec, meta, files>>
      PROVE  Indexed'
  <2>1. task'[t] = new /\ \A u \in Tasks : u # t => task'[u].pc = "idle"
    BY <1>f, SlotsAfter
  <2>2. Built'
    BY <1>f DEF Built
  <2>3. Read'
    BY <1>f, <2>1 DEF Read, Running
  <2> QED BY <1>c, <1>f, <2>2, <2>3 DEF Indexed, Stored
<1> USE DEF ExtractionAwaits, AnalysisAwaits, ExtractionTail, BeforeMeta, AnalysisTail, Later
<1>1. CASE IndexPlaintiff(t)
  <2>1. PlaintiffPart \subseteq rec.mats
    BY DEF PlaintiffPart
  <2> QED BY <1>1, <2>1, <1>a, <1>f DEF IndexPlaintiff, RecordOnly
<1>2. CASE IndexDefendant(t)
  <2>1. task[t].seen \cup DefendantPart \subseteq rec.mats
    BY <1>2, <1>c DEF IndexDefendant, PlaintiffDone, DefendantPart
  <2> QED BY <1>2, <2>1, <1>a, <1>f DEF IndexDefendant, PlaintiffDone, RecordOnly
<1>3. CASE ExtractIssues(t)
  <2>0. Pc \in ExtractionAwaits
    BY <1>3 DEF ExtractIssues, PlaintiffDone
  <2>1. /\ rec'.status = "extracting" /\ rec'.mats = rec.mats
        /\ rec'.ev = [of |-> task[t].seen, promoted |-> FALSE]
    BY <1>3, <1>a, <2>0 DEF ExtractIssues, TypeOK, CaseRecord
  <2>2. rec'.ev # NoIndex /\ rec'.ev.of \subseteq rec.mats
    <3>1. task[t].seen \in SUBSET Mats
      BY DEF TypeOK
    <3> QED BY <2>0, <2>1, <3>1, <1>c, IndexExists
  <2>3. BuiltAt("x_issues")'
    BY <2>1 DEF BuiltAt
  <2> QED BY <1>3, <1>c, <1>d, <2>0, <2>1, <2>2, <2>3 DEF ExtractIssues, RecordOnly, Stored
<1>4. CASE ReceiveIssues(t)
  <2>1. /\ rec'.status = "extracted" /\ rec'.mats = rec.mats /\ rec'.ev = rec.ev
        /\ rec'.tree = "drafted"
    BY <1>4 DEF ReceiveIssues, TypeOK, CaseRecord
  <2>2. GoTo(t, "x_save_ev") /\ Pc = "x_issues" /\ UNCHANGED <<held, meta, files>>
    BY <1>4, <1>b DEF ReceiveIssues, RecordOnly, WorkingAt
  <2>3. BuiltAt("x_save_ev")'
    BY <1>c, <2>1, <2>2 DEF BuiltAt
  <2> QED BY <1>c, <1>d, <2>1, <2>2, <2>3 DEF Stored
<1>5. CASE SaveEvidenceIndex(t)
  <2>1. UNCHANGED <<rec, held, meta>>
    BY <1>5 DEF SaveEvidenceIndex, FilesOnly
  <2>2. [files EXCEPT !.ev = rec.ev].ev = rec.ev /\ [files EXCEPT !.ev = rec.ev].tree = files.tree
    BY DEF TypeOK, ArtifactDir
  <2>3. CASE Pc = "x_save_ev"
    <3>1. Stored'
      BY <1>b, <1>c, <2>1, <2>3 DEF WorkingAt, Stored
    <3>2. CASE GoTo(t, "x_save_tree") /\ files' = [files EXCEPT !.ev = rec.ev]
      <4>1. BuiltAt("x_save_tree")'
        BY <1>c, <2>1, <2>2, <2>3, <3>2 DEF BuiltAt
      <4> QED BY <1>c, <1>d, <2>1, <2>3, <3>1, <3>2, <4>1
    <3>3. CASE GoTo(t, "x_fail")
      <4>1. BuiltAt("x_fail")'
        BY <1>c, <2>1, <2>3 DEF BuiltAt
      <4> QED BY <1>c, <1>d, <2>1, <2>3, <3>1, <3>3, <4>1
    <3> QED BY <1>5, <2>3, <3>2, <3>3 DEF SaveEvidenceIndex, Write
  <2>4. CASE Pc = "a_save_ev"
    <3>1. files' \in {files, [files EXCEPT !.ev = rec.ev]}
          /\ (GoTo(t, "a_save_result") \/ GoTo(t, "a_fail"))
      BY <1>5, <2>4 DEF SaveEvidenceIndex, Write
    <3>2. /\ rec.status = "analyzed" /\ held # "gone" /\ rec.ev # NoIndex
          /\ files.ev # NoIndex /\ files.ev.of = rec.ev.of /\ files.tree # "none"
      BY <1>a, <1>c, <2>4 DEF BuiltAt
    <3>3. files'.ev # NoIndex /\ files'.ev.of = rec.ev.of /\ files'.tree = files.tree
      BY <2>2, <3>1, <3>2
    <3>4. Stored'
      BY <1>c, <2>1, <3>2, <3>3 DEF Stored
    <3>5. BuiltAt("a_save_result")' /\ BuiltAt("a_fail")'
      BY <1>c, <2>1, <2>4, <3>2, <3>3 DEF BuiltAt
    <3> QED BY <1>c, <1>d, <2>1, <2>4, <3>1, <3>4, <3>5
  <2> QED BY <1>5, <2>3, <2>4 DEF SaveEvidenceIndex
<1>6. CASE SaveIssueTree(t)
  <2>1. UNCHANGED <<rec, held, meta>> /\ Pc = "x_save_tree"
    BY <1>6 DEF SaveIssueTree, FilesOnly
  <2>2. /\ [files EXCEPT !.tree = rec.tree].ev = files.ev
        /\ [files EXCEPT !.tree = rec.tree].tree = rec.tree
    BY DEF TypeOK, ArtifactDir
  <2>3. Stored'
    BY <1>b, <2>1 DEF WorkingAt, Stored
  <2>4. CASE GoTo(t, "x_persist") /\ files' = [files EXCEPT !.tree = rec.tree]
    <3>1. BuiltAt("x_persist")'
      BY <1>a, <1>c, <2>1, <2>2, <2>4 DEF BuiltAt
    <3> QED BY <1>c, <1>d, <2>1, <2>3, <2>4, <3>1
  <2>5. CASE GoTo(t, "x_fail")
    <3>1. BuiltAt("x_fail")'
      BY <1>c, <2>1 DEF BuiltAt
    <3> QED BY <1>c, <1>d, <2>1, <2>3, <2>5, <3>1
  <2> QED BY <1>6, <2>4, <2>5 DEF SaveIssueTree, Write
<1>7. ASSUME NEW ok \in BOOLEAN, FinishExtraction(t, ok) PROVE Indexed'
  <2>1. UNCHANGED <<rec, held, files>> /\ Pc = "x_persist"
    BY <1>7 DEF FinishExtraction
  <2>2. CASE ok
    <3>1. meta'.status = "extracted" /\ meta'.mats = rec.mats
      BY <1>7, <1>a, <2>1, <2>2 DEF FinishExtraction, SaveToDisk, MetaOf
    <3>2. Stored'
      BY <1>a, <1>c, <2>1, <3>1 DEF Stored, BuiltAt
    <3>3. Built'
      BY <1>c, <2>1 DEF BuiltAt, Built
    <3> QED BY <1>7, <1>e, <2>1, <2>2, <3>2, <3>3 DEF FinishExtraction
  <2>3. CASE ~ok
    <3>1. GoTo(t, "x_fail") /\ meta' = meta
      BY <1>7, <2>3 DEF FinishExtraction, GoTo, SaveToDisk
    <3>2. BuiltAt("x_fail")' /\ Stored'
      BY <1>c, <2>1, <3>1 DEF BuiltAt, Stored
    <3> QED BY <1>c, <1>d, <2>1, <3>1, <3>2
  <2> QED BY <2>2, <2>3
<1>8. CASE StartRounds(t) \/ SaveArtifacts(t) \/ AnnounceAnalysis(t) \/ CallFails(t)
  <2>1. UNCHANGED <<rec, held, meta>>
    BY <1>8 DEF StartRounds, SaveArtifacts, AnnounceAnalysis, CallFails, RecordOnly, FilesOnly
  <2>2. files'.ev = files.ev /\ files'.tree = files.tree
    BY <1>8 DEF StartRounds, SaveArtifacts, Write, WithOutput, AnnounceAnalysis, CallFails,
                RecordOnly, TypeOK, ArtifactDir
  <2>3. Stored'
    BY <1>c, <2>1, <2>2 DEF Stored
  <2>4. \E pc : /\ GoTo(t, pc) /\ pc # "x_issues"
                /\ Pc \notin {"idle", "x_save_ev", "x_save_tree", "x_fail"}
    BY <1>8 DEF StartRounds, SaveArtifacts, Write, AnnounceAnalysis, CallFails
  <2>5. PICK pc : /\ GoTo(t, pc) /\ pc # "x_issues"
                  /\ Pc \notin {"idle", "x_save_ev", "x_save_tree", "x_fail"}
    BY <2>4
  <2>6. BuiltAt(pc)'
    BY <1>c, <2>1, <2>2, <2>5 DEF BuiltAt
  <2> QED BY <1>c, <1>d, <2>1, <2>3, <2>5, <2>6
<1>9. CASE BaselineFails(t) \/ \E docx, md \in BOOLEAN : FinishRounds(t, docx, md)
  <2>1. /\ rec'.status \in {"analyzing", "analyzed"} /\ rec'.mats = rec.mats
        /\ rec'.tree = rec.tree /\ rec'.ev = [of |-> rec.ev.of, promoted |-> TRUE]
        /\ Pc = "a_rounds" /\ rec.status = "analyzing" /\ UNCHANGED <<held, meta, files>>
    BY <1>9, <1>a DEF BaselineFails, FinishRounds, RecordOnly, TypeOK, CaseRecord
  <2>2. GoTo(t, "a_fail") \/ GoTo(t, "a_save_ev")
    BY <1>9, <1>b, <2>1 DEF BaselineFails, FinishRounds, WorkingAt
  <2>3. rec.ev \in [of : SUBSET Mats, promoted : BOOLEAN]
    BY <1>a, <1>c, <2>1 DEF BuiltAt, TypeOK, CaseRecord, EvidenceIndex
  <2>4. rec'.ev # NoIndex /\ rec'.ev.of = rec.ev.of
    <3>1. rec.ev.of \in SUBSET Mats
      BY <2>3
    <3> QED BY <2>1, <3>1, IndexExists
  <2>5. BuiltAt("a_fail")' /\ BuiltAt("a_save_ev")'
    BY <1>a, <1>c, <2>1, <2>4 DEF BuiltAt
  <2>6. Stored'
    BY <1>c, <2>1 DEF Stored
  <2> QED BY <1>c, <1>d, <2>1, <2>2, <2>5, <2>6
<1>10. CASE SaveAnalyzedMeta(t)
  <2>1. UNCHANGED <<rec, held, files>> /\ Pc = "a_save_meta"
    BY <1>10 DEF SaveAnalyzedMeta
  <2>2. \/ meta' = meta
        \/ meta'.status = "analyzed" /\ meta'.mats = rec.mats
    BY <1>10 DEF SaveAnalyzedMeta, NoMeta
  <2>3. Stored'
    BY <1>a, <1>c, <2>1, <2>2 DEF Stored, BuiltAt
  <2>4. BuiltAt("a_event")' /\ BuiltAt("a_fail")'
    BY <1>a, <1>c, <2>1 DEF BuiltAt
  <2> QED BY <1>10, <1>c, <1>d, <2>1, <2>3, <2>4 DEF SaveAnalyzedMeta
<1>11. ASSUME NEW ok \in BOOLEAN, FinishAnalysis(t, ok) PROVE Indexed'
  <2>1. UNCHANGED <<rec, held, files>> /\ Pc = "a_persist"
    BY <1>11 DEF FinishAnalysis
  <2>2. CASE ok
    <3>1. meta'.status = "analyzed" /\ meta'.mats = rec.mats
      BY <1>11, <1>a, <2>1, <2>2 DEF FinishAnalysis, SaveToDisk, MetaOf
    <3>2. Stored'
      BY <1>a, <1>c, <2>1, <3>1 DEF Stored, BuiltAt
    <3>3. Built'
      BY <1>c, <2>1 DEF BuiltAt, Built
    <3> QED BY <1>11, <1>e, <2>1, <2>2, <3>2, <3>3 DEF FinishAnalysis
  <2>3. CASE ~ok
    <3>1. GoTo(t, "a_fail") /\ meta' = meta
      BY <1>11, <2>3 DEF FinishAnalysis, GoTo, SaveToDisk
    <3>2. BuiltAt("a_fail")' /\ Stored'
      BY <1>a, <1>c, <2>1, <3>1 DEF BuiltAt, Stored
    <3> QED BY <1>c, <1>d, <2>1, <3>1, <3>2
  <2> QED BY <2>2, <2>3
<1>12. ASSUME NEW ok \in BOOLEAN, HandleFailure(t, ok) PROVE Indexed'
  <2>1. rec'.status = "failed" /\ files' = files /\ Pc # "idle"
    BY <1>12 DEF HandleFailure, TypeOK, CaseRecord
  <2>2. meta' = meta \/ meta'.status = "failed"
    BY <1>12, <2>1 DEF HandleFailure, SaveToDisk, MetaOf
  <2>3. Built' /\ Stored'
    BY <1>c, <2>1, <2>2 DEF Built, Stored
  <2> QED BY <1>12, <1>e, <2>1, <2>3 DEF HandleFailure
<1> QED BY <1>1, <1>2, <1>3, <1>4, <1>5, <1>6, <1>7, <1>8, <1>9, <1>10, <1>11, <1>12
        DEF TaskStep

\* Indexed is inductive, relative to Durable.
LEMMA IndexedStep == Durable /\ Indexed /\ [Next]_vars => Indexed'
<1> SUFFICES ASSUME Durable, Indexed, [Next]_vars PROVE Indexed'
  OBVIOUS
<1>1. ASSUME NEW u \in Uploads, FinishUpload(u) PROVE Indexed'
  <2>1. upload[u] \in Mats
    BY <1>1 DEF FinishUpload, Durable, TypeOK
  <2> QED BY <1>1, <2>1, MaterialIndexed DEF FinishUpload
<1>2. CASE Restart
  <2>1. \A t \in Tasks : task'[t].pc = "idle"
    BY <1>2 DEF Restart, NoTask
  <2> QED BY <1>2, <2>1, ReadAtRest DEF Restart, Indexed, Built, Stored
<1>3. CASE UNCHANGED vars
  BY <1>3 DEF vars, Indexed, Read, Running, Built, Stored, NoTaskAt
<1> QED BY <1>1, <1>2, <1>3, RequestIndexed, TaskStepIndexed DEF Next

\* Nothing has been extracted at the start.
LEMMA InitIndexed == Init => Indexed
<1> SUFFICES ASSUME Init PROVE Indexed
  OBVIOUS
<1>1. meta.status = "absent" /\ held = "gone"
  BY DEF Init, NoMeta
<1>2. Read
  BY DEF Init, NoTask, Read, Running
<1> QED BY <1>1, <1>2 DEF Indexed, Built, Stored, Later

\* The index that a debate reads is never built from a material that the case does not
\* have, and is never absent, whichever saves fail and wherever the process dies
\* between the writes of the index, the tree and the meta (run_extraction,
\* _load_from_disk).
THEOREM EvidenceHasMaterialHolds == Spec => []EvidenceHasMaterial
<1>1. Indexed => EvidenceHasMaterial
  BY DEF Indexed, Built, EvidenceHasMaterial, Later
<1> QED BY <1>1, InitIndexed, IndexedStep, DurableHolds, PTL DEF Spec

----------------------------------------------------------------------------
(* Memory, disk and case list, while saves work *)

\* No step reopens what is on disk as analysed or failed.
Stays == meta.status \in Closed => meta'.status = meta.status

\* With working saves, save_to_disk fails for an evicted case only.
LEMMA SaveWorks ==
    ASSUME ~SavesMayFail, NEW r, r.wm, NEW ok \in BOOLEAN, SaveToDisk(r, ok)
    PROVE  /\ held = "store" => ok /\ meta' = MetaOf(r) /\ index' = EntryOf(r)
           /\ held # "store" => ~ok /\ meta' = meta /\ index' = index
BY DEF SaveToDisk

\* A step that neither moves the status nor saves it.
LEMMA SyncedFrame ==
    ASSUME Synced, held' = held, held # "gone" \/ index' = index,
           rec'.wm = rec.wm, rec'.status = rec.status, rec'.review = rec.review,
           UNCHANGED <<meta, index>>, NoTaskAt(TaskTail)' => NoTaskAt(TaskTail)
    PROVE  Synced' /\ Stays
BY DEF Synced, InAgreement, Stays

\* An extracted case that receives a material is not closed.
LEMMA MaterialSynced ==
    ASSUME Durable, Synced, NEW m \in Mats, rec' = WithMaterial(m), held # "gone",
           UNCHANGED <<held, task, meta, index>>
    PROVE  Synced' /\ Stays
<1>1. /\ rec'.review = rec.review /\ rec'.wm = rec.wm
      /\ rec'.status = IF rec.status \in {"extracted", "confirmed"} THEN "created" ELSE rec.status
  BY DEF WithMaterial, Durable, TypeOK, CaseRecord
<1>2. NoTaskAt(TaskTail)' = NoTaskAt(TaskTail)
  BY DEF NoTaskAt
<1>3. CASE rec.status \in {"extracted", "confirmed"}
  BY <1>1, <1>3 DEF Synced, Stays, Closed
<1>4. CASE rec.status \notin {"extracted", "confirmed"}
  BY <1>1, <1>2, <1>4, SyncedFrame
<1> QED BY <1>3, <1>4

\* A handler saves the status that it sets, or sets one that none saves.
LEMMA RequestSynced ==
    ASSUME ~SavesMayFail, Durable, Synced, Request
    PROVE  Synced' /\ Stays
<1> USE DEF Durable
<1>1. ASSUME NEW wmOk \in BOOLEAN, NEW metaOk \in BOOLEAN, CreateCase(wmOk, metaOk)
      PROVE  Synced' /\ Stays
  <2>1. rec'.wm /\ rec'.status = "created" /\ held' = "store" /\ meta'.status = "created"
        /\ meta.status = "absent"
    BY <1>1 DEF CreateCase, NewRecord, MetaOf
  <2> QED BY <2>1 DEF Synced, Stays, Closed
<1>2. ASSUME NEW m \in Mats, AddMaterial(m) PROVE Synced' /\ Stays
  BY <1>2, MaterialSynced DEF AddMaterial, InStore
<1>3. ASSUME NEW t \in Tasks, NEW ok \in BOOLEAN, NEW allowed, NEW active, NEW pc, NEW event,
             TryStart(t, allowed, active, pc, event, ok),
             \/ allowed = {"created"} /\ active = "extracting"
             \/ allowed = {"extracted", "confirmed"} /\ active = "analyzing"
      PROVE  Synced' /\ Stays
  <2>1. /\ rec'.status = active /\ rec'.wm /\ held = "store" /\ held' = "store"
        /\ rec.status \notin Closed
    BY <1>3 DEF TryStart, InStore, TypeOK, CaseRecord, Synced, Closed
  <2>2. meta' = MetaOf(rec)' /\ index' = EntryOf(rec)'
    BY <1>3, <2>1 DEF TryStart, SaveToDisk, MetaOf, EntryOf
  <2>3. InAgreement'
    BY <2>2 DEF InAgreement, MetaOf, EntryOf
  <2> QED BY <1>3, <2>1, <2>3 DEF Synced, Stays, InAgreement
<1>4. ASSUME NEW t \in Tasks, NEW ok \in BOOLEAN, TriggerExtraction(t, ok) \/ TriggerAnalysis(t, ok)
      PROVE  Synced' /\ Stays
  BY <1>3, <1>4 DEF TriggerExtraction, TriggerAnalysis
<1>5. ASSUME NEW edits \in BOOLEAN, Confirm(edits) PROVE Synced' /\ Stays
  <2>1. /\ rec'.status = "confirmed" /\ rec'.wm = rec.wm /\ rec.status \notin Closed
        /\ UNCHANGED <<held, meta>> /\ held = "store"
    BY <1>5 DEF Confirm, InStore, TypeOK, CaseRecord, Closed
  <2> QED BY <2>1 DEF Synced, Stays
<1>6. ASSUME NEW action \in ReviewStatus, NEW ok \in BOOLEAN, SubmitReview(action, ok)
      PROVE  Synced' /\ Stays
  <2>1. /\ rec'.status = "analyzed" /\ rec.status = "analyzed" /\ rec'.wm
        /\ held = "store" /\ held' = "store"
    BY <1>6 DEF SubmitReview, InStore, TypeOK, CaseRecord, Synced
  <2>2. meta' = MetaOf(rec)' /\ index' = EntryOf(rec)'
    BY <1>6, <2>1 DEF SubmitReview, MetaOf, EntryOf, Synced
  <2>3. InAgreement'
    BY <2>2 DEF InAgreement, MetaOf, EntryOf
  <2> QED BY <2>1, <2>3 DEF Synced, Stays, InAgreement
<1>7. CASE LoadFromDisk
  <2>1. /\ rec'.status = meta.status /\ rec'.review = meta.review /\ rec'.wm
        /\ held = "gone" /\ held' = "store" /\ UNCHANGED <<meta, index>>
    BY <1>7 DEF LoadFromDisk, Restored
  <2> QED BY <2>1 DEF Synced, Stays, InAgreement
<1>8. CASE Expire
  BY <1>8 DEF Expire, InStore, Synced, Stays
<1>9. CASE UNCHANGED <<rec, held, task, meta, index>>
  BY <1>9, SyncedFrame DEF NoTaskAt
<1> QED
  BY <1>1, <1>2, <1>4, <1>5, <1>6, <1>7, <1>8, <1>9 DEF Request, BeginUpload, Export

\* A task saves what it reports before it ends.
LEMMA TaskStepSynced ==
    ASSUME ~SavesMayFail, Durable, Synced, NEW t \in Tasks, TaskStep(t)
    PROVE  Synced' /\ Stays
<1> USE DEF Durable
<1> DEFINE Pc == task[t].pc
<1>a. /\ Pc \in ExtractionAwaits => rec.status = "extracting"
      /\ Pc \in AnalysisAwaits => rec.status = "analyzing"
      /\ Pc \in {"x_save_ev", "x_save_tree", "x_persist"} => rec.status = "extracted"
      /\ Pc \in AnalysisTail \ {"a_fail"} => rec.status = "analyzed"
      /\ Pc # "idle" => held # "gone"
  BY DEF Flight, SingleFlight, TaskStatus, HeldWhileUsed, Running
<1>b. WorkingAt(Pc)
  BY DEF Working
<1>c. ASSUME NEW pc, Pc # "idle", GoTo(t, pc), Pc \notin TaskTail \/ pc \in TaskTail,
             rec'.wm = rec.wm, rec'.status = rec.status, rec'.review = rec.review,
             UNCHANGED <<held, meta, index>>
      PROVE  Synced' /\ Stays
  <2>0. task'[t] = [pc |-> pc, seen |-> task[t].seen]
    BY <1>c, GoToSlots
  <2>1. task'[t].pc = pc
    BY <2>0
  <2>2. NoTaskAt(TaskTail)' => NoTaskAt(TaskTail)
    BY <1>c, <2>1, OthersIdle DEF NoTaskAt, TaskTail, ExtractionTail, AnalysisTail
  <2> QED BY <1>c, <2>2, SyncedFrame
<1>d. ASSUME NEW pc \in TaskTail, Pc # "idle", GoTo(t, pc), rec'.wm,
             rec'.status = meta'.status \/ meta'.status \notin Closed,
             Stays, held' = held
      PROVE  Synced' /\ Stays
  <2>0. task'[t] = [pc |-> pc, seen |-> task[t].seen]
    BY <1>d, GoToSlots
  <2>1. ~NoTaskAt(TaskTail)'
    BY <1>d, <2>0 DEF NoTaskAt
  <2> QED BY <1>a, <1>d, <2>1 DEF Synced
<1>e. ASSUME Pc # "idle", held' = held, Stays, rec'.wm,
             held = "store" => meta' = MetaOf(rec)' /\ index' = EntryOf(rec)'
      PROVE  Synced' /\ Stays
  <2>1. held = "store" => InAgreement'
    BY <1>e DEF InAgreement, MetaOf, EntryOf
  <2> QED BY <1>a, <1>e, <2>1 DEF Synced, InAgreement
<1> USE DEF ExtractionAwaits, AnalysisAwaits, BeforeMeta
<1>1. CASE IndexPlaintiff(t) \/ IndexDefendant(t)
  <2>1. \E new : task' = [task EXCEPT ![t] = new]
    BY <1>1 DEF IndexPlaintiff, IndexDefendant
  <2>2. Pc \in {"x_begin", "x_plaintiff"} /\ UNCHANGED <<rec, held, meta, index>>
    BY <1>1 DEF IndexPlaintiff, IndexDefendant, PlaintiffDone, RecordOnly
  <2>3. NoTaskAt(TaskTail)
    BY <2>2, OthersIdle DEF NoTaskAt, TaskTail, ExtractionTail, AnalysisTail
  <2> QED BY <2>2, <2>3, SyncedFrame
<1>2. CASE ExtractIssues(t)
  <2>1. /\ rec'.wm = rec.wm /\ rec'.status = rec.status /\ rec'.review = rec.review
        /\ Pc \in {"x_begin", "x_plaintiff", "x_defendant"} /\ GoTo(t, "x_issues")
        /\ UNCHANGED <<held, meta, index>>
    BY <1>2 DEF ExtractIssues, PlaintiffDone, RecordOnly, TypeOK, CaseRecord
  <2> QED BY <2>1, <1>c DEF TaskTail, ExtractionTail, AnalysisTail
<1>3. CASE ReceiveIssues(t) \/ \E docx, md \in BOOLEAN : FinishRounds(t, docx, md)
  <2>1. /\ rec'.wm = rec.wm /\ Pc \in {"x_issues", "a_rounds"} /\ UNCHANGED <<held, meta>>
        /\ \/ GoTo(t, "x_save_ev") \/ GoTo(t, "x_persist")
           \/ GoTo(t, "a_save_ev") \/ GoTo(t, "a_event")
    BY <1>3 DEF ReceiveIssues, FinishRounds, RecordOnly, TypeOK, CaseRecord
  <2>2. meta.status \in {"extracting", "analyzing"}
    BY <1>b, <2>1 DEF WorkingAt
  <2> QED BY <2>1, <2>2, <1>d DEF Synced, Stays, Closed, TaskTail, ExtractionTail, AnalysisTail
<1>4. CASE SaveEvidenceIndex(t) \/ SaveIssueTree(t) \/ SaveArtifacts(t) \/ AnnounceAnalysis(t)
           \/ CallFails(t)
  <2>1. UNCHANGED <<rec, held, meta, index>> /\ Pc # "idle"
    BY <1>4 DEF SaveEvidenceIndex, SaveIssueTree, SaveArtifacts, AnnounceAnalysis, CallFails,
                RecordOnly, FilesOnly
  <2>2. \E pc \in TaskTail : GoTo(t, pc)
    BY <1>4 DEF SaveEvidenceIndex, SaveIssueTree, SaveArtifacts, AnnounceAnalysis, CallFails,
                Write, TaskTail, ExtractionTail, AnalysisTail
  <2> QED BY <1>c, <2>1, <2>2
<1>5. CASE StartRounds(t)
  <2>1. UNCHANGED <<rec, held, meta, index>> /\ Pc = "a_begin"
        /\ (GoTo(t, "a_fail") \/ GoTo(t, "a_rounds"))
    BY <1>5 DEF StartRounds, RecordOnly
  <2> QED BY <1>c, <2>1 DEF TaskTail, ExtractionTail, AnalysisTail
<1>6. ASSUME NEW ok \in BOOLEAN, FinishExtraction(t, ok) \/ FinishAnalysis(t, ok)
      PROVE  Synced' /\ Stays
  <2>1. /\ UNCHANGED <<rec, held>> /\ Pc \in {"x_persist", "a_persist"} /\ SaveToDisk(rec, ok)
        /\ rec.wm
    BY <1>6 DEF FinishExtraction, FinishAnalysis, Synced
  <2>2. held = "store" => meta' = MetaOf(rec) /\ index' = EntryOf(rec)
    BY <2>1, SaveWorks
  <2>3. Stays
    BY <1>a, <1>b, <2>1, SaveWorks DEF WorkingAt, Stays, MetaOf, Closed, ExtractionTail, AnalysisTail
  <2> QED BY <1>e, <2>1, <2>2, <2>3 DEF MetaOf, EntryOf
<1>7. CASE SaveAnalyzedMeta(t)
  <2>1. /\ UNCHANGED <<rec, held>> /\ Pc = "a_save_meta" /\ GoTo(t, "a_event")
        /\ meta'.status = "analyzed"
    BY <1>7 DEF SaveAnalyzedMeta, NoMeta
  <2>2. rec.status = "analyzed" /\ meta.status = "analyzing"
    BY <1>a, <1>b, <2>1 DEF WorkingAt, AnalysisTail
  <2> QED BY <2>1, <2>2, <1>d DEF Synced, Stays, Closed, TaskTail, AnalysisTail
<1>8. ASSUME NEW ok \in BOOLEAN, HandleFailure(t, ok) PROVE Synced' /\ Stays
  <2>1. /\ rec'.wm /\ rec'.status = "failed" /\ held' = held /\ Pc \in {"x_fail", "a_fail"}
    BY <1>8 DEF HandleFailure, TypeOK, CaseRecord, Synced
  <2>2. held = "store" => meta' = MetaOf(rec)' /\ index' = EntryOf(rec)'
    BY <1>8, <2>1 DEF HandleFailure, SaveToDisk, MetaOf, EntryOf
  <2>3. held # "store" => meta' = meta
    BY <1>8, <2>1 DEF HandleFailure, SaveToDisk
  <2>4. held = "store" => meta.status \in {"extracting", "analyzing"}
    BY <1>b, <2>1 DEF WorkingAt, ExtractionTail
  <2>5. Stays
    BY <2>1, <2>2, <2>3, <2>4 DEF Stays, Closed
  <2> QED BY <1>e, <2>1, <2>2, <2>5
<1> QED BY <1>1, <1>2, <1>3, <1>4, <1>5, <1>6, <1>7, <1>8 DEF TaskStep, BaselineFails

\* Synced is inductive while saves work, and no step reopens a closed case.
LEMMA SyncedStep ==
    ASSUME ~SavesMayFail, Durable, Synced, [Next]_vars
    PROVE  Synced' /\ Stays
<1>1. ASSUME NEW u \in Uploads, FinishUpload(u) PROVE Synced' /\ Stays
  <2>1. upload[u] \in Mats /\ held # "gone"
    BY <1>1 DEF FinishUpload, Durable, TypeOK, Flight, HeldWhileUsed
  <2> QED BY <1>1, <2>1, MaterialSynced DEF FinishUpload
<1>2. CASE Restart
  BY <1>2 DEF Restart, NewRecord, EntryOfMeta, Synced, Stays
<1>3. CASE UNCHANGED vars
  BY <1>3, SyncedFrame DEF vars, NoTaskAt
<1> QED BY <1>1, <1>2, <1>3, RequestSynced, TaskStepSynced DEF Next

\* Memory, disk and case list are empty at the start.
LEMMA InitSynced == Init => Synced
BY DEF Init, NewRecord, NoEntry, EntryOfMeta, NoMeta, Synced

\* What holds of the states of a system whose saves work.
LEMMA SyncedHolds == ASSUME ~SavesMayFail PROVE Spec => [](Durable /\ Synced)
<1>1. Init => Durable /\ Synced
  BY InitDurable, InitSynced
<1>2. Durable /\ Synced /\ [Next]_vars => (Durable /\ Synced)'
  BY DurableStep, SyncedStep
<1> QED BY <1>1, <1>2, PTL DEF Spec

\* While saves work, what is on disk as analysed or failed is never reopened, also when
\* the case is evicted under its analysis (_try_start, save_to_disk, the handlers of a
\* failed task).
THEOREM NeverReopenedHolds == ASSUME ~SavesMayFail PROVE Spec => NeverReopened
<1>1. Spec => [](Durable /\ Synced)
  BY SyncedHolds
<1>2. Durable /\ Synced /\ [Next]_vars
        => [meta.status \in {"analyzed", "failed"} => meta'.status = meta.status]_vars
  BY SyncedStep DEF Stays, Closed
<1> QED BY <1>1, <1>2, PTL DEF NeverReopened, Spec

\* With evictions under a task excluded, what the log tells of an analysis is what the
\* disk says.
LEMMA ToldStep ==
    ASSUME ~SavesMayFail, ~TaskMayOutliveTtl, Durable, Synced, Told, [Next]_vars
    PROVE  Told'
<1> USE DEF Durable
<1>0. Stays
  BY SyncedStep
<1>1. ASSUME held' = held \/ \A t \in Tasks : task'[t].pc = "idle",
             \A t \in Tasks : Running(t)' => Running(t),
             events' \cap {"analysis_done", "analysis_failed"} \subseteq events
      PROVE  Told'
  BY <1>0, <1>1 DEF Told, Stays, Closed, Running
<1>2. ASSUME NEW t \in Tasks, TaskStep(t) PROVE Told'
  <2>1. /\ held' = held /\ Running(t)
        /\ \A u \in Tasks : u # t => task'[u] = task[u]
    <3>1. Running(t) /\ held' = held
      BY <1>2 DEF Running, TaskStep, IndexPlaintiff, IndexDefendant, PlaintiffDone, ExtractIssues,
         ReceiveIssues, SaveEvidenceIndex, SaveIssueTree, FinishExtraction, StartRounds,
         FinishRounds, BaselineFails, SaveArtifacts, SaveAnalyzedMeta, AnnounceAnalysis,
         FinishAnalysis, CallFails, HandleFailure, ExtractionAwaits, RecordOnly, FilesOnly
    <3>2. \E new : task' = [task EXCEPT ![t] = new]
      BY <1>2 DEF TaskStep, IndexPlaintiff, IndexDefendant, ExtractIssues, GoTo, Write,
         ReceiveIssues, SaveEvidenceIndex, SaveIssueTree, FinishExtraction, StartRounds,
         FinishRounds, BaselineFails, SaveArtifacts, SaveAnalyzedMeta, AnnounceAnalysis,
         FinishAnalysis, CallFails, HandleFailure
    <3> QED BY <3>1, <3>2 DEF TypeOK
  <2>2. \A u \in Tasks : Running(u)' => Running(u)
    BY <2>1 DEF Running
  <2>3. CASE AnnounceAnalysis(t)
    <3>1. meta.status = "analyzed" /\ meta' = meta
      BY <2>3 DEF AnnounceAnalysis, Working, WorkingAt
    <3>2. events' \subseteq events \cup {"analysis_done"}
      BY <2>3 DEF AnnounceAnalysis, LogEvents
    <3> QED BY <2>1, <2>2, <3>1, <3>2 DEF Told
  <2>4. ASSUME NEW ok \in BOOLEAN, HandleFailure(t, ok) PROVE Told'
    <3>1. held = "store"
      BY <2>1 DEF Told
    <3>2. rec'.status = "failed" /\ rec'.wm /\ task[t].pc \in {"x_fail", "a_fail"}
      BY <2>4 DEF HandleFailure, TypeOK, CaseRecord, Synced
    <3>3. meta'.status = "failed"
      BY <2>4, <3>1, <3>2 DEF HandleFailure, SaveToDisk, MetaOf
    <3>4. meta.status # "analyzed"
      BY <1>0, <3>3 DEF Stays, Closed
    <3>5. events' \subseteq events \cup {"analysis_failed", "extraction_failed"}
      BY <2>4 DEF HandleFailure, LogEvents
    <3> QED BY <2>1, <2>2, <3>1, <3>3, <3>4, <3>5 DEF Told
  <2>5. CASE UNCHANGED events \/ \E ok \in BOOLEAN : FinishExtraction(t, ok)
    <3>1. events' \subseteq events \cup {"extraction_done"}
      BY <2>5 DEF FinishExtraction, LogEvents
    <3> QED BY <1>1, <2>1, <2>2, <3>1
  <2> QED
    BY <1>2, <2>3, <2>4, <2>5 DEF TaskStep, IndexPlaintiff, IndexDefendant, ExtractIssues,
       ReceiveIssues, SaveEvidenceIndex, SaveIssueTree, StartRounds, FinishRounds, BaselineFails,
       SaveArtifacts, SaveAnalyzedMeta, FinishAnalysis, CallFails, RecordOnly, FilesOnly
<1>3. CASE Request
  <2>1. ASSUME NEW t \in Tasks, NEW ok \in BOOLEAN, TriggerExtraction(t, ok) \/ TriggerAnalysis(t, ok)
        PROVE  Told'
    <3>1. held = "store" /\ held' = "store"
      BY <2>1 DEF TriggerExtraction, TriggerAnalysis, TryStart, InStore
    <3>2. events' \subseteq events \cup {"extraction_started", "analysis_started"}
      BY <2>1 DEF TriggerExtraction, TriggerAnalysis, TryStart, LogEvents
    <3> QED BY <1>0, <3>1, <3>2 DEF Told, Stays, Closed
  <2>2. CASE Expire
    BY <1>1, <2>2 DEF Expire, Running
  <2>3. ASSUME NEW wmOk \in BOOLEAN, NEW metaOk \in BOOLEAN,
               CreateCase(wmOk, metaOk) \/ LoadFromDisk
        PROVE  Told'
    <3>1. \A t \in Tasks : task'[t].pc = "idle"
      BY <2>3 DEF CreateCase, LoadFromDisk, Flight, HeldWhileUsed, Running
    <3>2. events' \subseteq events \cup {"case_created"}
      BY <2>3 DEF CreateCase, LoadFromDisk
    <3> QED BY <1>1, <3>1, <3>2 DEF Running
  <2>4. CASE /\ UNCHANGED <<held, task>>
             /\ events' \subseteq events \cup {"material_added", "confirmed", "review_submitted",
                                           "exported"}
    BY <1>1, <2>4 DEF Running
  <2> QED
    BY <1>3, <2>1, <2>2, <2>3, <2>4 DEF Request, AddMaterial, BeginUpload, Confirm, SubmitReview,
       Export, LogEvents
<1>4. ASSUME NEW u \in Uploads, FinishUpload(u) PROVE Told'
  BY <1>1, <1>4 DEF FinishUpload, LogEvents, Running
<1>5. CASE Restart
  BY <1>1, <1>5 DEF Restart, NoTask, Running
<1>6. CASE UNCHANGED vars
  BY <1>1, <1>6 DEF vars, Running
<1> QED BY <1>2, <1>3, <1>4, <1>5, <1>6 DEF Next

\* While saves work and no task outlives its case in the store: whenever the loop can
\* serve a request, disk and case list agree with the live case, and the log tells
\* one outcome, which the disk confirms (_persist_record_state, _emit_event).
THEOREM DurableInSyncHolds ==
    ASSUME ~SavesMayFail, ~TaskMayOutliveTtl PROVE Spec => []DurableInSync
<1>1. Init => Told
  BY DEF Init, NoTask, Running, Told
<1>2. Durable /\ Synced /\ Told /\ [Next]_vars => Told'
  BY ToldStep
<1>3. Durable /\ Synced /\ Told => DurableInSync
  <2> SUFFICES ASSUME Durable, Synced, Told PROVE DurableInSync
    OBVIOUS
  <2>1. ~LoopBusy => NoTaskAt(TaskTail)
    BY DEF LoopBusy, NoTaskAt
  <2> QED BY <2>1 DEF Synced, InAgreement, Told, DurableInSync
<1>4. Spec => [](Durable /\ Synced)
  BY SyncedHolds
<1> QED BY <1>1, <1>2, <1>3, <1>4, PTL DEF Spec

----------------------------------------------------------------------------
(* What a restart gives back of an analysis, while saves work *)

\* Nothing is claimed of a slot without a task.
LEMMA ProducedIdle ==
    ASSUME \A t \in Tasks : task'[t].pc = "idle"
    PROVE  \A t \in Tasks : ProducedAt(task[t].pc)'
BY DEF ProducedAt, AnalysisAwaits, AnalysisTail

\* A step that leaves record, meta and files alone, and ends no write of a task.
LEMMA OutputsFrame ==
    ASSUME Outputs, UNCHANGED <<rec, meta, files>>, held' = held,
           \A t \in Tasks : ProducedAt(task[t].pc)',
           NoTaskAt(TaskTail)' => NoTaskAt(TaskTail)
    PROVE  Outputs'
<1>1. Recoverable'
  BY DEF Outputs, Recoverable, Restored
<1> QED BY <1>1 DEF Outputs, Recoverable

\* A material changes nothing that an analysis produced.
LEMMA MaterialOutputs ==
    ASSUME Durable, Outputs, NEW m \in Mats, rec' = WithMaterial(m), held # "gone",
           UNCHANGED <<held, task, meta, files>>
    PROVE  Outputs'
<1>1. /\ rec'.arts = rec.arts /\ rec'.report = rec.report /\ rec'.run = rec.run
      /\ rec.mats \subseteq rec'.mats
      /\ \/ rec'.status = rec.status /\ rec'.ev = rec.ev
         \/ rec.status \in {"extracted", "confirmed"} /\ rec'.status = "created"
  BY DEF WithMaterial, Durable, TypeOK, CaseRecord
<1>2. \A t \in Tasks : task[t].pc \in AnalysisTail => rec'.ev = rec.ev
  BY <1>1 DEF Durable, Flight, TaskStatus, AnalysisTail
<1>3. \A t \in Tasks : ProducedAt(task[t].pc)'
  <2> TAKE t \in Tasks
  <2>1. ProducedAt(task[t].pc) /\ task'[t].pc = task[t].pc
    BY DEF Outputs
  <2>2. Written(task[t].pc)' = Written(task[t].pc)
    BY <1>1 DEF Written
  <2> QED BY <1>1, <1>2, <2>1, <2>2 DEF ProducedAt
<1>4. Recoverable'
  BY <1>1 DEF Outputs, Recoverable, Restored, NoTaskAt
<1> QED BY <1>1, <1>3, <1>4 DEF Outputs, Recoverable, Early

\* A handler produces nothing of an analysis.
LEMMA RequestOutputs ==
    ASSUME ~SavesMayFail, Durable, Synced, Outputs, Request
    PROVE  Outputs'
<1> USE DEF Durable
<1>0. \A t \in Tasks : ProducedAt(task[t].pc)
  BY DEF Outputs
<1>1. ASSUME NEW wmOk \in BOOLEAN, NEW metaOk \in BOOLEAN, CreateCase(wmOk, metaOk)
      PROVE  Outputs'
  <2>1. /\ held' = "store" /\ UNCHANGED <<task, files>> /\ meta' = MetaOf(NewRecord)
        /\ files.outs = {}
    BY <1>1 DEF CreateCase, Outputs
  <2>2. /\ rec'.status = "created" /\ rec'.arts = {} /\ ~rec'.report /\ ~rec'.run
        /\ meta'.status = "created" /\ meta'.names = {} /\ ~meta'.run /\ meta'.mats = {}
    BY <1>1, <2>1 DEF CreateCase, NewRecord, MetaOf
  <2>3. \A t \in Tasks : task'[t].pc = "idle"
    BY <1>1 DEF CreateCase, Flight, HeldWhileUsed, Running
  <2> QED BY <2>1, <2>2, <2>3, ProducedIdle DEF Outputs, Recoverable
<1>2. ASSUME NEW m \in Mats, AddMaterial(m) PROVE Outputs'
  BY <1>2, MaterialOutputs DEF AddMaterial, InStore
<1>3. ASSUME NEW t \in Tasks, NEW ok \in BOOLEAN, NEW allowed, NEW active, NEW pc, NEW event,
             TryStart(t, allowed, active, pc, event, ok),
             \/ allowed = {"created"} /\ active = "extracting" /\ pc = "x_begin"
             \/ allowed = {"extracted", "confirmed"} /\ active = "analyzing" /\ pc = "a_begin"
      PROVE  Outputs'
  <2>1. /\ rec'.status = active /\ held = "store" /\ held' = "store" /\ files' = files
        /\ rec'.mats = rec.mats /\ rec'.arts = rec.arts /\ rec'.report = rec.report
        /\ rec'.run = rec.run /\ rec.status \in Early /\ rec'.wm
        /\ ~LoopBusy /\ rec.status \notin {"extracting", "analyzing"}
    BY <1>3 DEF TryStart, InStore, TypeOK, CaseRecord, Synced, Early
  <2>2. ok /\ meta' = MetaOf(rec)'
    BY <1>3, <2>1 DEF TryStart, SaveToDisk, MetaOf
  <2>3. /\ files.outs = {} /\ rec'.arts = {} /\ ~rec'.report /\ ~rec'.run
        /\ meta'.status = active /\ meta'.mats = rec'.mats /\ meta'.names = {} /\ ~meta'.run
    BY <2>1, <2>2 DEF MetaOf, Outputs
  <2>4. \A u \in Tasks : task[u].pc = "idle"
    BY <2>1, Quiet
  <2>5. task' = [task EXCEPT ![t] = [pc |-> pc, seen |-> {}]]
    BY <1>3, <2>2 DEF TryStart
  <2>6. \A u \in Tasks : task'[u].pc \in {"idle", pc}
    BY <2>4, <2>5 DEF TypeOK
  <2>7. \A u \in Tasks : ProducedAt(task[u].pc)'
    BY <1>3, <2>1, <2>3, <2>6 DEF ProducedAt, AnalysisAwaits, AnalysisTail, Written
  <2> QED BY <1>3, <2>1, <2>3, <2>7 DEF Outputs, Recoverable, Early
<1>4. ASSUME NEW t \in Tasks, NEW ok \in BOOLEAN, TriggerExtraction(t, ok) \/ TriggerAnalysis(t, ok)
      PROVE  Outputs'
  BY <1>3, <1>4 DEF TriggerExtraction, TriggerAnalysis
<1>5. ASSUME NEW edits \in BOOLEAN, Confirm(edits) PROVE Outputs'
  <2>1. /\ rec'.status = "confirmed" /\ rec'.mats = rec.mats /\ rec'.arts = rec.arts
        /\ rec'.report = rec.report /\ rec'.run = rec.run /\ rec.status \in Early
        /\ UNCHANGED <<held, meta, files, task>> /\ held = "store"
        /\ ~LoopBusy /\ rec.status \notin {"extracting", "analyzing"}
    BY <1>5 DEF Confirm, InStore, TypeOK, CaseRecord, Early
  <2>2. \A u \in Tasks : task'[u].pc = "idle"
    BY <2>1, Quiet
  <2> QED BY <2>1, <2>2, ProducedIdle DEF Outputs, Recoverable, Early
<1>6. ASSUME NEW action \in ReviewStatus, NEW ok \in BOOLEAN, SubmitReview(action, ok)
      PROVE  Outputs'
  <2>1. /\ rec'.status = "analyzed" /\ rec.status = "analyzed" /\ ~LoopBusy
        /\ rec'.mats = rec.mats /\ rec'.arts = rec.arts /\ rec'.ev = rec.ev
        /\ rec'.report = rec.report /\ rec'.run = rec.run
        /\ held = "store" /\ held' = "store" /\ UNCHANGED <<files, task>>
    BY <1>6 DEF SubmitReview, InStore, TypeOK, CaseRecord
  <2>2. meta' = MetaOf(rec)'
    BY <1>6 DEF SubmitReview, MetaOf, Synced
  <2>3. meta'.status = "analyzed" /\ meta'.mats = rec.mats /\ meta'.names = rec.arts
    BY <2>1, <2>2 DEF MetaOf
  <2>4. \A u \in Tasks : task'[u].pc = "idle"
    BY <2>1, Quiet
  <2>5. Recoverable
    BY DEF Outputs, Recoverable
  <2>6. NoTaskAt(TaskTail)
    BY <2>1 DEF LoopBusy, NoTaskAt
  <2>7. "analysis_data.json" \in files.outs
    BY <2>1, <2>6 DEF Outputs, Synced, InAgreement
  <2>8. Restored'.arts = Restored.arts /\ Restored'.report = Restored.report
    BY <2>1, <2>3, <2>5, <2>6, <2>7 DEF Recoverable, Restored, TypeOK, CaseRecord, ArtifactName
  <2>9. Recoverable'
    BY <2>1, <2>5, <2>6, <2>8 DEF Recoverable
  <2> QED BY <2>1, <2>3, <2>4, <2>7, <2>9, ProducedIdle DEF Outputs, Recoverable, Early
<1>7. CASE LoadFromDisk
  <2>1. /\ rec'.status = meta.status /\ rec'.mats = meta.mats /\ rec'.ev = files.ev
        /\ held = "gone" /\ held' = "store" /\ UNCHANGED <<meta, files, task>>
        /\ rec'.arts = Restored.arts /\ rec'.report = Restored.report /\ rec'.run = Restored.run
    BY <1>7 DEF LoadFromDisk, Restored
  <2>2. \A u \in Tasks : task'[u].pc = "idle"
    BY <1>7 DEF LoadFromDisk, Flight, HeldWhileUsed, Running
  <2>3. Restored'.arts = Restored.arts /\ Restored'.report = Restored.report
    BY <2>1 DEF Restored
  <2>4. CASE meta.status \in Early
    <3>1. files.outs = {} /\ meta.names = {} /\ ~meta.run
      BY <2>4 DEF Outputs
    <3>2. Restored.arts = {} /\ ~Restored.report /\ ~Restored.run
      BY <3>1 DEF Restored
    <3> QED BY <2>1, <2>2, <2>3, <2>4, <3>1, <3>2, ProducedIdle DEF Outputs, Recoverable, Early
  <2>5. CASE meta.status = "analyzed"
    <3>1. "analysis_data.json" \in files.outs
      BY <2>5 DEF Outputs
    <3>2. Restored.run /\ "analysis_summary.json" \in Restored.arts
      BY <3>1 DEF Restored
    <3> QED BY <2>1, <2>2, <2>3, <2>5, <3>1, <3>2, ProducedIdle DEF Outputs, Recoverable, Early
  <2>6. CASE meta.status \notin Early \cup {"analyzed"}
    BY <2>1, <2>2, <2>6, ProducedIdle DEF Outputs, Recoverable, Early
  <2> QED BY <2>4, <2>5, <2>6
<1>8. CASE Expire
  <2>1. held = "store" /\ held' = "orphan" /\ UNCHANGED <<rec, meta, files, task>>
    BY <1>8 DEF Expire, InStore
  <2>2. \A t \in Tasks : ProducedAt(task[t].pc)'
    BY <1>0, <2>1 DEF ProducedAt, Written
  <2> QED BY <2>1, <2>2 DEF Outputs, Recoverable
<1>9. CASE UNCHANGED <<rec, held, task, meta, files>>
  <2>1. \A t \in Tasks : ProducedAt(task[t].pc)'
    BY <1>0, <1>9 DEF ProducedAt, Written
  <2> QED BY <1>9, <2>1, OutputsFrame DEF NoTaskAt
<1> QED
  BY <1>1, <1>2, <1>4, <1>5, <1>6, <1>7, <1>8, <1>9 DEF Request, BeginUpload, Export

\* The files of an analysis, from one write to the next.
LEMMA WrittenGrows ==
    /\ Written("a_save_result") = {}
    /\ Written("a_save_data") = Written("a_save_result") \cup {"result.json"}
    /\ Written("a_save_md") = Written("a_save_data") \cup {"analysis_data.json"}
    /\ Written("a_save_docx") =
         Written("a_save_md") \cup (IF "report.md" \in rec.arts THEN {"report.md"} ELSE {})
    /\ Written("a_save_meta") =
         Written("a_save_docx") \cup (IF rec.report THEN {"report.docx"} ELSE {})
BY DEF Written

\* Each step of an analysis adds to the files what Written says, and the last one
\* leaves files and meta that give the record back.
LEMMA TaskStepOutputs ==
    ASSUME ~SavesMayFail, Durable, Synced, Outputs, NEW t \in Tasks, TaskStep(t)
    PROVE  Outputs'
<1> USE DEF Durable
<1> DEFINE Pc == task[t].pc
           Extracting == ExtractionAwaits \cup ExtractionTail
           Analyzing == AnalysisAwaits \cup AnalysisTail
<1>a. /\ Pc \in ExtractionAwaits => rec.status = "extracting"
      /\ Pc \in AnalysisAwaits => rec.status = "analyzing"
      /\ Pc \in {"x_save_ev", "x_save_tree", "x_persist"} => rec.status = "extracted"
      /\ Pc = "x_fail" => rec.status \in {"extracting", "extracted"}
      /\ Pc \in AnalysisTail \ {"a_fail"} => rec.status = "analyzed"
      /\ Pc = "a_fail" => rec.status \in {"analyzing", "analyzed"}
      /\ Pc # "idle" => held # "gone"
  BY DEF Flight, SingleFlight, TaskStatus, HeldWhileUsed, Running
<1>b. WorkingAt(Pc) /\ ProducedAt(Pc) /\ rec.wm
  BY DEF Working, Outputs, Synced
<1>c. /\ held # "gone" => meta.mats \subseteq rec.mats
      /\ meta.status \in Early \cup {"absent"} => files.outs = {} /\ meta.names = {} /\ ~meta.run
      /\ held # "gone" /\ rec.status \in Early =>
           files.outs = {} /\ rec.arts = {} /\ ~rec.report /\ ~rec.run
      /\ meta.status = "analyzed" => "analysis_data.json" \in files.outs
  BY DEF Outputs
<1>d. /\ Pc \in Extracting => rec.status \in Early /\ meta.status = "extracting" /\ held # "gone"
      /\ Pc \in Analyzing => meta.status \in {"analyzing", "analyzed"} /\ held # "gone"
                             /\ rec.status \in {"analyzing", "analyzed"}
  BY <1>a, <1>b DEF WorkingAt, BeforeMeta, ExtractionAwaits, ExtractionTail, AnalysisAwaits,
                    AnalysisTail, Early
\* A step of an extraction.
<1>e. ASSUME Pc \in Extracting, \A u \in Tasks : task'[u].pc \notin Analyzing, held' = held,
             rec'.status \in Early, rec'.mats = rec.mats, rec'.arts = rec.arts,
             rec'.report = rec.report, rec'.run = rec.run, files'.outs = files.outs,
             meta' = meta \/ meta' = MetaOf(rec)'
      PROVE  Outputs'
  <2>1. \A u \in Tasks : ProducedAt(task[u].pc)'
    BY <1>e DEF ProducedAt
  <2>2. meta'.mats \subseteq rec'.mats /\ meta'.names = {} /\ ~meta'.run
        /\ meta'.status \in Early
    BY <1>c, <1>d, <1>e DEF MetaOf, Early
  <2> QED BY <1>c, <1>d, <1>e, <2>1, <2>2 DEF Outputs, Recoverable, Early
\* A step of an analysis that goes on.
<1>f. ASSUME NEW pc, Pc \in Analyzing, GoTo(t, pc), ProducedAt(pc)', held' = held,
             rec'.mats = rec.mats, rec'.status \in {"analyzing", "analyzed"},
             rec'.status = "analyzed" => pc \in TaskTail, files.outs \subseteq files'.outs,
             \/ meta' = meta
             \/ /\ meta'.status = "analyzed" /\ meta'.mats = rec.mats
                /\ "analysis_data.json" \in files'.outs
      PROVE  Outputs'
  <2>0. task'[t] = [pc |-> pc, seen |-> task[t].seen]
    BY <1>f, GoToSlots DEF AnalysisAwaits, AnalysisTail
  <2>1. task'[t].pc = pc /\ \A u \in Tasks : u # t => task'[u].pc = "idle"
    BY <1>f, <2>0, GoToSlots DEF AnalysisAwaits, AnalysisTail
  <2>2. \A u \in Tasks : ProducedAt(task[u].pc)'
    BY <1>f, <2>1 DEF ProducedAt, AnalysisAwaits, AnalysisTail
  <2>3. rec'.status = "analyzed" => ~NoTaskAt(TaskTail)'
    BY <1>f, <2>1 DEF NoTaskAt
  <2> QED BY <1>c, <1>d, <1>f, <2>2, <2>3 DEF Outputs, Recoverable, Early
\* The end of a task.
<1>g. ASSUME Pc # "idle", task' = [task EXCEPT ![t] = NoTask]
      PROVE  \A u \in Tasks : task'[u].pc = "idle"
  <2>1. task'[t] = NoTask /\ \A u \in Tasks : u # t => task'[u].pc = "idle"
    BY <1>g, SlotsAfter
  <2> QED BY <2>1 DEF NoTask
<1>h. ASSUME NEW new, Pc # "idle", task' = [task EXCEPT ![t] = new], new.pc \notin Analyzing
      PROVE  \A u \in Tasks : task'[u].pc \notin Analyzing
  <2>1. task'[t] = new /\ \A u \in Tasks : u # t => task'[u].pc = "idle"
    BY <1>h, SlotsAfter
  <2> QED BY <1>h, <2>1 DEF AnalysisAwaits, AnalysisTail
<1>i. ASSUME NEW pc, Pc # "idle", GoTo(t, pc), pc \notin Analyzing
      PROVE  \A u \in Tasks : task'[u].pc \notin Analyzing
  <2>0. task'[t] = [pc |-> pc, seen |-> task[t].seen]
    BY <1>i, GoToSlots
  <2>1. task'[t].pc = pc /\ \A u \in Tasks : u # t => task'[u].pc = "idle"
    BY <1>i, <2>0, GoToSlots
  <2> QED BY <1>i, <2>1 DEF AnalysisAwaits, AnalysisTail
<1> USE DEF ExtractionAwaits, ExtractionTail, AnalysisAwaits, AnalysisTail, Early
<1>1. CASE IndexPlaintiff(t) \/ IndexDefendant(t)
  <2>1. UNCHANGED <<rec, held, meta, files>> /\ Pc \in {"x_begin", "x_plaintiff"}
    BY <1>1 DEF IndexPlaintiff, IndexDefendant, PlaintiffDone, RecordOnly
  <2>2. \/ task' = [task EXCEPT ![t] = [pc |-> "x_plaintiff", seen |-> PlaintiffPart]]
        \/ task' = [task EXCEPT ![t] = [pc |-> "x_defendant", seen |-> @.seen \cup DefendantPart]]
    BY <1>1 DEF IndexPlaintiff, IndexDefendant
  <2>3. \A u \in Tasks : task'[u].pc \notin Analyzing
    BY <1>h, <2>1, <2>2
  <2> QED BY <1>d, <1>e, <2>1, <2>3
<1>2. CASE ExtractIssues(t) \/ ReceiveIssues(t)
  <2>1. /\ rec'.mats = rec.mats /\ rec'.arts = rec.arts /\ rec'.report = rec.report
        /\ rec'.run = rec.run /\ rec'.status \in {rec.status, "extracted"}
        /\ Pc \in ExtractionAwaits /\ UNCHANGED <<held, meta, files>>
    BY <1>2 DEF ExtractIssues, ReceiveIssues, PlaintiffDone, RecordOnly, TypeOK, CaseRecord
  <2>2. GoTo(t, "x_issues") \/ GoTo(t, "x_save_ev") \/ GoTo(t, "x_persist")
    BY <1>2 DEF ExtractIssues, ReceiveIssues
  <2>3. \A u \in Tasks : task'[u].pc \notin Analyzing
    BY <1>i, <2>1, <2>2
  <2> QED BY <1>d, <1>e, <2>1, <2>3
<1>3. ASSUME Pc \in {"x_save_ev", "x_save_tree"}, SaveEvidenceIndex(t) \/ SaveIssueTree(t)
      PROVE  Outputs'
  <2>1. UNCHANGED <<rec, held, meta>>
    BY <1>3 DEF SaveEvidenceIndex, SaveIssueTree, FilesOnly
  <2>2. files'.outs = files.outs
    BY <1>3 DEF SaveEvidenceIndex, SaveIssueTree, Write, TypeOK, ArtifactDir
  <2>3. GoTo(t, "x_save_tree") \/ GoTo(t, "x_persist")
    BY <1>3 DEF SaveEvidenceIndex, SaveIssueTree, Write
  <2>4. \A u \in Tasks : task'[u].pc \notin Analyzing
    BY <1>3, <1>i, <2>3
  <2> QED BY <1>3, <1>d, <1>e, <2>1, <2>2, <2>4
<1>4. ASSUME NEW ok \in BOOLEAN, FinishExtraction(t, ok) PROVE Outputs'
  <2>1. UNCHANGED <<rec, held, files>> /\ Pc = "x_persist"
    BY <1>4 DEF FinishExtraction
  <2>2. meta' = meta \/ meta' = MetaOf(rec)'
    BY <1>4, <2>1 DEF FinishExtraction, SaveToDisk, MetaOf
  <2>3. \A u \in Tasks : task'[u].pc \notin Analyzing
    <3>1. CASE ok
      BY <1>4, <1>g, <2>1, <3>1 DEF FinishExtraction
    <3>2. CASE ~ok
      <4>1. GoTo(t, "x_fail")
        BY <1>4, <3>2 DEF FinishExtraction, GoTo
      <4> QED BY <1>i, <2>1, <4>1
    <3> QED BY <3>1, <3>2
  <2> QED BY <1>d, <1>e, <2>1, <2>2, <2>3
<1>5. CASE StartRounds(t)
  <2>1. UNCHANGED <<rec, held, meta, files>> /\ Pc = "a_begin"
        /\ (GoTo(t, "a_fail") \/ GoTo(t, "a_rounds"))
    BY <1>5 DEF StartRounds, RecordOnly
  <2>2. ProducedAt("a_fail")' /\ ProducedAt("a_rounds")'
    BY <1>b, <2>1 DEF ProducedAt, Written
  <2> QED BY <1>a, <1>f, <2>1, <2>2
<1>6. CASE CallFails(t)
  <2>1. UNCHANGED <<rec, held, meta, files>>
        /\ \/ Pc \in ExtractionAwaits /\ GoTo(t, "x_fail")
           \/ Pc = "a_rounds" /\ GoTo(t, "a_fail")
    BY <1>6 DEF CallFails, RecordOnly
  <2>2. CASE Pc \in ExtractionAwaits /\ GoTo(t, "x_fail")
    <3>1. \A u \in Tasks : task'[u].pc \notin Analyzing
      BY <1>i, <2>2
    <3> QED BY <1>d, <1>e, <2>1, <2>2, <3>1
  <2>3. CASE Pc = "a_rounds" /\ GoTo(t, "a_fail")
    <3>1. ProducedAt("a_fail")'
      BY DEF ProducedAt
    <3>2. "a_fail" \in TaskTail
      BY DEF TaskTail
    <3> QED BY <1>a, <1>f, <2>1, <2>3, <3>1, <3>2
  <2> QED BY <2>1, <2>2, <2>3
<1>7. ASSUME NEW docx \in BOOLEAN, NEW md \in BOOLEAN, FinishRounds(t, docx, md) PROVE Outputs'
  <2>1. /\ rec'.mats = rec.mats /\ rec'.status = "analyzed" /\ rec'.run
        /\ {"result.json", "analysis_summary.json"} \subseteq rec'.arts
        /\ Pc = "a_rounds" /\ UNCHANGED <<held, meta, files>> /\ GoTo(t, "a_save_ev")
    BY <1>7, <1>b DEF FinishRounds, RecordOnly, TypeOK, CaseRecord
  <2>2. files.outs = {}
    BY <1>b, <2>1 DEF ProducedAt, Written
  <2>3. ProducedAt("a_save_ev")'
    BY <2>1, <2>2 DEF ProducedAt, Written
  <2>4. "a_save_ev" \in TaskTail
    BY DEF TaskTail
  <2> QED BY <1>f, <2>1, <2>3, <2>4
<1>8. ASSUME Pc = "a_save_ev", SaveEvidenceIndex(t) PROVE Outputs'
  <2>1. /\ UNCHANGED <<rec, held, meta>> /\ files' = [files EXCEPT !.ev = rec.ev]
        /\ GoTo(t, "a_save_result")
    BY <1>8 DEF SaveEvidenceIndex, FilesOnly, Write
  <2>2. files'.ev = rec.ev /\ files'.outs = files.outs
    BY <2>1 DEF TypeOK, ArtifactDir
  <2>3. ProducedAt("a_save_result")'
    BY <1>8, <1>b, <2>1, <2>2 DEF ProducedAt, Written
  <2>4. "a_save_result" \in TaskTail
    BY DEF TaskTail
  <2> QED BY <1>8, <1>d, <1>f, <2>1, <2>2, <2>3, <2>4
<1>9. CASE SaveArtifacts(t)
  <2>1. /\ UNCHANGED <<rec, held, meta>>
        /\ Pc \in {"a_save_result", "a_save_data", "a_save_md", "a_save_docx"}
    BY <1>9 DEF SaveArtifacts, FilesOnly
  <2>2. \A name, present :
            /\ WithOutput(name, present).ev = files.ev
            /\ WithOutput(name, present).outs = files.outs \cup (IF present THEN {name} ELSE {})
    BY DEF WithOutput, TypeOK, ArtifactDir
  <2>3. ASSUME NEW pc \in (TaskTail \cap AnalysisTail) \ {"a_save_ev", "a_fail"}, GoTo(t, pc),
               files'.ev = files.ev, files'.outs = Written(pc), files.outs \subseteq files'.outs
        PROVE  Outputs'
    <3>1. Written(pc)' = Written(pc)
      BY <2>1 DEF Written
    <3>2. ProducedAt(pc)'
      <4>1. /\ rec.run /\ {"result.json", "analysis_summary.json"} \subseteq rec.arts
            /\ files.ev = rec.ev
        BY <1>b, <2>1 DEF ProducedAt
      <4> QED BY <2>1, <2>3, <3>1, <4>1 DEF ProducedAt
    <3> QED BY <1>d, <1>f, <2>1, <2>3, <3>2
  <2>4. files.outs = Written(Pc)
    BY <1>b, <2>1 DEF ProducedAt
  <2>5. CASE Pc = "a_save_result"
    <3>1. GoTo(t, "a_save_data") /\ files' = WithOutput("result.json", TRUE)
      BY <1>9, <2>5 DEF SaveArtifacts, Write
    <3>2. files'.outs = files.outs \cup (IF TRUE THEN {"result.json"} ELSE {})
      BY <2>2, <3>1
    <3>3. /\ files'.ev = files.ev /\ files.outs \subseteq files'.outs
          /\ files'.outs = Written("a_save_data")
      BY <2>2, <2>4, <2>5, <3>1, <3>2, WrittenGrows
    <3>4. "a_save_data" \in (TaskTail \cap AnalysisTail) \ {"a_save_ev", "a_fail"}
      BY DEF TaskTail
    <3> QED BY <2>3, <3>1, <3>3, <3>4
  <2>6. CASE Pc = "a_save_data"
    <3>1. GoTo(t, "a_save_md") /\ files' = WithOutput("analysis_data.json", TRUE)
      BY <1>9, <2>6 DEF SaveArtifacts, Write
    <3>2. files'.outs = files.outs \cup (IF TRUE THEN {"analysis_data.json"} ELSE {})
      BY <2>2, <3>1
    <3>3. /\ files'.ev = files.ev /\ files.outs \subseteq files'.outs
          /\ files'.outs = Written("a_save_md")
      BY <2>2, <2>4, <2>6, <3>1, <3>2, WrittenGrows
    <3>4. "a_save_md" \in (TaskTail \cap AnalysisTail) \ {"a_save_ev", "a_fail"}
      BY DEF TaskTail
    <3> QED BY <2>3, <3>1, <3>3, <3>4
  <2>7. CASE Pc = "a_save_md"
    <3>1. GoTo(t, "a_save_docx") /\ files' = WithOutput("report.md", "report.md" \in rec.arts)
      BY <1>9, <2>7 DEF SaveArtifacts, Write
    <3>2. files'.outs = files.outs \cup (IF "report.md" \in rec.arts THEN {"report.md"} ELSE {})
      BY <2>2, <3>1
    <3>3. /\ files'.ev = files.ev /\ files.outs \subseteq files'.outs
          /\ files'.outs = Written("a_save_docx")
      BY <2>2, <2>4, <2>7, <3>1, <3>2, WrittenGrows
    <3>4. "a_save_docx" \in (TaskTail \cap AnalysisTail) \ {"a_save_ev", "a_fail"}
      BY DEF TaskTail
    <3> QED BY <2>3, <3>1, <3>3, <3>4
  <2>8. CASE Pc = "a_save_docx"
    <3>1. GoTo(t, "a_save_meta") /\ files' = WithOutput("report.docx", rec.report)
      BY <1>9, <2>8 DEF SaveArtifacts, Write
    <3>2. files'.outs = files.outs \cup (IF rec.report THEN {"report.docx"} ELSE {})
      BY <2>2, <3>1
    <3>3. /\ files'.ev = files.ev /\ files.outs \subseteq files'.outs
          /\ files'.outs = Written("a_save_meta")
      BY <2>2, <2>4, <2>8, <3>1, <3>2, WrittenGrows
    <3>4. "a_save_meta" \in (TaskTail \cap AnalysisTail) \ {"a_save_ev", "a_fail"}
      BY DEF TaskTail
    <3> QED BY <2>3, <3>1, <3>3, <3>4
  <2> QED BY <2>1, <2>5, <2>6, <2>7, <2>8
<1>10. CASE SaveAnalyzedMeta(t)
  <2>1. /\ UNCHANGED <<rec, held, files>> /\ Pc = "a_save_meta" /\ GoTo(t, "a_event")
        /\ meta'.status = "analyzed" /\ meta'.mats = rec.mats
    BY <1>10 DEF SaveAnalyzedMeta, NoMeta
  <2>2. ProducedAt("a_event")' /\ "analysis_data.json" \in files.outs
    BY <1>b, <2>1 DEF ProducedAt, Written
  <2>3. "a_event" \in TaskTail
    BY DEF TaskTail
  <2> QED BY <1>d, <1>f, <2>1, <2>2, <2>3
<1>11. CASE AnnounceAnalysis(t)
  <2>1. UNCHANGED <<rec, held, meta, files>> /\ Pc = "a_event" /\ GoTo(t, "a_persist")
    BY <1>11 DEF AnnounceAnalysis
  <2>2. ProducedAt("a_persist")'
    BY <1>b, <2>1 DEF ProducedAt, Written
  <2>3. "a_persist" \in TaskTail
    BY DEF TaskTail
  <2> QED BY <1>d, <1>f, <2>1, <2>2, <2>3
<1>12. ASSUME NEW ok \in BOOLEAN, FinishAnalysis(t, ok) PROVE Outputs'
  <2>1. UNCHANGED <<rec, held, files>> /\ Pc = "a_persist"
    BY <1>12 DEF FinishAnalysis
  <2>2. CASE ~ok
    <3>1. GoTo(t, "a_fail") /\ meta' = meta
      BY <1>12, <2>2 DEF FinishAnalysis, GoTo, SaveToDisk
    <3>2. ProducedAt("a_fail")' /\ "a_fail" \in TaskTail
      BY DEF ProducedAt, TaskTail
    <3> QED BY <1>d, <1>f, <2>1, <3>1, <3>2
  <2>3. CASE ok
    <3>1. \A u \in Tasks : task'[u].pc = "idle"
      BY <1>12, <1>g, <2>1, <2>3 DEF FinishAnalysis
    <3>2. meta'.status = "analyzed" /\ meta'.mats = rec.mats /\ meta'.names = rec.arts
      BY <1>12, <1>a, <2>1, <2>3 DEF FinishAnalysis, SaveToDisk, MetaOf
    <3>3. /\ {"result.json", "analysis_summary.json"} \subseteq rec.arts /\ files.ev = rec.ev
          /\ rec.run /\ files.outs = Written("a_persist")
      BY <1>b, <2>1 DEF ProducedAt
    <3>4. /\ "analysis_data.json" \in files.outs /\ "result.json" \in files.outs
          /\ "report.md" \in files.outs => "report.md" \in rec.arts
          /\ "report.docx" \in files.outs <=> rec.report
      BY <3>3 DEF Written
    <3>5. rec.arts \subseteq ArtifactName /\ rec.report \in BOOLEAN
      BY DEF TypeOK, CaseRecord
    <3>6. Restored'.arts = rec.arts
      BY <2>1, <3>2, <3>3, <3>4, <3>5 DEF Restored, ArtifactName
    <3>7. Restored'.report = rec.report
      BY <2>1, <3>4, <3>5 DEF Restored
    <3> QED BY <1>a, <2>1, <3>1, <3>2, <3>3, <3>4, <3>6, <3>7, ProducedIdle DEF Outputs, Recoverable
  <2> QED BY <2>2, <2>3
<1>13. ASSUME NEW ok \in BOOLEAN, HandleFailure(t, ok) PROVE Outputs'
  <2>1. /\ rec'.status = "failed" /\ rec'.mats = rec.mats /\ Pc \in {"x_fail", "a_fail"}
        /\ UNCHANGED <<held, files>> /\ task' = [task EXCEPT ![t] = NoTask]
    BY <1>13 DEF HandleFailure, TypeOK, CaseRecord
  <2>2. meta' = meta \/ (meta'.status = "failed" /\ meta'.mats = rec.mats)
    BY <1>13, <2>1 DEF HandleFailure, SaveToDisk, MetaOf
  <2>3. \A u \in Tasks : task'[u].pc = "idle"
    BY <1>g, <2>1
  <2> QED BY <1>c, <2>1, <2>2, <2>3, ProducedIdle DEF Outputs, Recoverable
<1>14. CASE SaveEvidenceIndex(t) \/ SaveIssueTree(t)
  BY <1>3, <1>8, <1>14 DEF SaveEvidenceIndex, SaveIssueTree
<1> QED BY <1>1, <1>2, <1>4, <1>5, <1>6, <1>7, <1>9, <1>10, <1>11, <1>12, <1>13, <1>14
        DEF TaskStep, BaselineFails

\* Outputs is inductive while saves work.
LEMMA OutputsStep ==
    ASSUME ~SavesMayFail, Durable, Synced, Outputs, [Next]_vars
    PROVE  Outputs'
<1>1. ASSUME NEW u \in Uploads, FinishUpload(u) PROVE Outputs'
  <2>1. upload[u] \in Mats /\ held # "gone"
    BY <1>1 DEF FinishUpload, Durable, TypeOK, Flight, HeldWhileUsed
  <2> QED BY <1>1, <2>1, MaterialOutputs DEF FinishUpload
<1>2. CASE Restart
  <2>1. \A t \in Tasks : task'[t].pc = "idle"
    BY <1>2 DEF Restart, NoTask
  <2> QED BY <1>2, <2>1, ProducedIdle DEF Restart, Outputs, Recoverable
<1>3. CASE UNCHANGED vars
  <2>1. \A t \in Tasks : ProducedAt(task[t].pc)'
    BY <1>3 DEF vars, Outputs, ProducedAt, Written
  <2> QED BY <1>3, <2>1, OutputsFrame DEF vars, NoTaskAt
<1> QED BY <1>1, <1>2, <1>3, RequestOutputs, TaskStepOutputs DEF Next

\* Nothing of an analysis is there at the start.
LEMMA InitOutputs == Init => Outputs
<1> SUFFICES ASSUME Init PROVE Outputs
  OBVIOUS
<1>1. \A t \in Tasks : task[t].pc = "idle"
  BY DEF Init, NoTask
<1>2. held = "gone" /\ files.outs = {} /\ meta.names = {} /\ ~meta.run /\ meta.status = "absent"
  BY DEF Init, NoMeta
<1> QED BY <1>1, <1>2 DEF Outputs, Recoverable, ProducedAt, AnalysisAwaits, AnalysisTail

----------------------------------------------------------------------------
(* The extraction that is shown *)

\* A request finds no task inside its writes, and puts none there.
LEMMA RequestOutsideTail ==
    ASSUME TypeOK, Flight, Request
    PROVE  NoTaskAt(TaskTail)'
<1>1. CASE ~LoopBusy
  <2>1. \A t \in Tasks : task[t].pc \notin TaskTail
    BY <1>1 DEF LoopBusy
  <2>2. CASE task' = task
    BY <2>1, <2>2 DEF NoTaskAt
  <2>3. ASSUME NEW t \in Tasks, NEW new, task' = [task EXCEPT ![t] = new], new.pc \notin TaskTail
        PROVE  NoTaskAt(TaskTail)'
    BY <2>1, <2>3 DEF NoTaskAt, TypeOK
  <2>4. ASSUME NEW t \in Tasks, NEW allowed, NEW active, NEW pc, NEW event, NEW ok,
               TryStart(t, allowed, active, pc, event, ok), pc \notin TaskTail
        PROVE  NoTaskAt(TaskTail)'
    <3> DEFINE new == [pc |-> pc, seen |-> {}]
    <3>1. task' = [task EXCEPT ![t] = new] \/ task' = task
      BY <2>4 DEF TryStart
    <3>2. new.pc \notin TaskTail
      BY <2>4
    <3> HIDE DEF new
    <3> QED BY <2>2, <2>3, <3>1, <3>2
  <2>5. ASSUME NEW t \in Tasks, NEW ok, TriggerExtraction(t, ok) \/ TriggerAnalysis(t, ok)
        PROVE  NoTaskAt(TaskTail)'
    BY <2>4, <2>5 DEF TriggerExtraction, TriggerAnalysis, TaskTail, ExtractionTail, AnalysisTail
  <2> QED BY <2>2, <2>5 DEF Request, CreateCase, AddMaterial, BeginUpload, Confirm, SubmitReview,
                            Export, Expire, LoadFromDisk
<1>2. CASE held = "gone"
  <2>1. \A t \in Tasks : task[t].pc = "idle"
    BY <1>2 DEF Flight, HeldWhileUsed, Running
  <2>2. task' = task
    BY <1>2 DEF Request, CreateCase, AddMaterial, BeginUpload, TriggerExtraction, TriggerAnalysis,
                TryStart, Confirm, SubmitReview, Export, Expire, LoadFromDisk, InStore
  <2> QED BY <2>1, <2>2 DEF NoTaskAt, TaskTail, ExtractionTail, AnalysisTail
<1> QED BY <1>1, <1>2 DEF Request, CreateCase, AddMaterial, BeginUpload, TriggerExtraction,
           TriggerAnalysis, TryStart, Confirm, SubmitReview, Export, Expire, LoadFromDisk, InStore

\* An extracted case shows its extraction, or gives it up together with its status.
LEMMA MaterialDumped ==
    ASSUME Durable, Dumped, NEW m \in Mats, rec' = WithMaterial(m), held # "gone"
    PROVE  rec'.status \in Later => rec'.ext # "none"
<1>1. CASE rec.status \in {"extracted", "confirmed"}
  <2>1. rec'.status = "created"
    BY <1>1 DEF WithMaterial, Durable, TypeOK, CaseRecord
  <2> QED BY <2>1 DEF Later
<1>2. CASE rec.status \notin {"extracted", "confirmed"}
  <2>1. rec'.status = rec.status /\ rec'.ext = rec.ext
    BY <1>2 DEF WithMaterial, Durable, TypeOK, CaseRecord
  <2> QED BY <2>1 DEF Dumped
<1> QED BY <1>1, <1>2

\* No handler writes the files, and none makes an analysed case of another.
LEMMA RequestDumped ==
    ASSUME ~SavesMayFail, Durable, Indexed, Synced, Dumped, Request
    PROVE  Dumped'
<1> USE DEF Durable
<1>1. NoTaskAt(TaskTail)' /\ files' = files
  BY RequestOutsideTail DEF Request, CreateCase, AddMaterial, BeginUpload, TriggerExtraction,
     TriggerAnalysis, TryStart, Confirm, SubmitReview, Export, Expire, LoadFromDisk
<1>2. ASSUME held' # "gone" /\ rec'.status \in Later => rec'.ext # "none",
             meta'.status = "analyzed" => meta.status = "analyzed"
      PROVE  Dumped'
  BY <1>1, <1>2 DEF Dumped, NoTaskAt, TaskTail, ExtractionTail
<1>3. ASSUME NEW wmOk, NEW metaOk, CreateCase(wmOk, metaOk) PROVE Dumped'
  <2>1. rec'.status = "created" /\ (meta' = meta \/ meta'.status = "created")
    BY <1>3 DEF CreateCase, NewRecord, MetaOf
  <2> QED BY <1>2, <2>1 DEF Later
<1>4. ASSUME NEW m \in Mats, AddMaterial(m) PROVE Dumped'
  BY <1>2, <1>4, MaterialDumped DEF AddMaterial, InStore
<1>5. ASSUME NEW t \in Tasks, NEW ok \in BOOLEAN, TriggerExtraction(t, ok) PROVE Dumped'
  <2>1. rec'.status = "extracting" /\ (meta' = meta \/ meta' = MetaOf(rec'))
    BY <1>5 DEF TriggerExtraction, TryStart, SaveToDisk, TypeOK, CaseRecord
  <2> QED BY <1>2, <2>1 DEF Later, MetaOf
<1>6. ASSUME NEW t \in Tasks, NEW ok \in BOOLEAN, TriggerAnalysis(t, ok) PROVE Dumped'
  <2>1. /\ rec'.status = "analyzing" /\ rec'.ext = rec.ext /\ rec.status \in Later
        /\ held = "store" /\ (meta' = meta \/ meta' = MetaOf(rec'))
    BY <1>6 DEF TriggerAnalysis, TryStart, SaveToDisk, InStore, TypeOK, CaseRecord, Later
  <2> QED BY <1>2, <2>1 DEF Dumped, MetaOf
<1>7. ASSUME NEW edits \in BOOLEAN, Confirm(edits) PROVE Dumped'
  <2>1. /\ rec'.ext = rec.ext /\ rec.status \in Later /\ held = "store" /\ meta' = meta
    BY <1>7 DEF Confirm, InStore, TypeOK, CaseRecord, Later
  <2> QED BY <1>2, <2>1 DEF Dumped
<1>8. ASSUME NEW action \in ReviewStatus, NEW ok \in BOOLEAN, SubmitReview(action, ok)
      PROVE  Dumped'
  <2>1. rec'.ext = rec.ext /\ rec.status = "analyzed" /\ held = "store" /\ ~LoopBusy
    BY <1>8 DEF SubmitReview, InStore, TypeOK, CaseRecord
  <2>2. meta.status = "analyzed"
    BY <2>1 DEF Synced, InAgreement, NoTaskAt, LoopBusy
  <2> QED BY <1>2, <2>1, <2>2 DEF Dumped, Later
<1>9. CASE LoadFromDisk
  <2>1. rec'.status = meta.status /\ rec'.ext = Redumped /\ meta' = meta
    BY <1>9 DEF LoadFromDisk, Restored
  <2>2. meta.status \in Later => Redumped # "none"
    BY DEF Indexed, Stored, Redumped
  <2> QED BY <1>2, <2>1, <2>2
<1>10. CASE UNCHANGED <<rec, meta>> /\ held = "store"
  BY <1>2, <1>10 DEF Dumped
<1> QED BY <1>3, <1>4, <1>5, <1>6, <1>7, <1>8, <1>9, <1>10 DEF Request, BeginUpload, Export,
           Expire, InStore

\* A task drafts and promotes before it writes.
LEMMA TaskStepDumped ==
    ASSUME ~SavesMayFail, Durable, Outputs, Dumped, NEW t \in Tasks, TaskStep(t)
    PROVE  Dumped'
<1> USE DEF Durable
<1> DEFINE Pc == task[t].pc
<1>a. /\ Pc \in ExtractionAwaits => rec.status = "extracting"
      /\ Pc \in AnalysisAwaits => rec.status = "analyzing"
      /\ Pc \in {"x_save_ev", "x_save_tree", "x_persist"} => rec.status = "extracted"
      /\ Pc # "idle" => held # "gone"
  BY DEF Flight, SingleFlight, TaskStatus, HeldWhileUsed, Running
<1>b. WorkingAt(Pc)
  BY DEF Working
<1>c. ASSUME NEW new, Pc # "idle", task' = [task EXCEPT ![t] = new],
             held' = held, held # "gone" /\ rec'.status \in Later => rec'.ext # "none",
             files'.tree # "edited",
             new.pc \in {"x_save_ev", "x_save_tree"} => rec'.tree = "drafted",
             new.pc \in AnalysisTail \ {"a_fail"} => rec'.ev.promoted,
             meta'.status = "analyzed" => files'.ev.promoted
      PROVE  Dumped'
  <2>1. task'[t] = new /\ \A u \in Tasks : u # t => task'[u].pc = "idle"
    BY <1>c, SlotsAfter
  <2>2. ASSUME NEW u \in Tasks
        PROVE  /\ task'[u].pc \in {"x_save_ev", "x_save_tree"} => rec'.tree = "drafted"
               /\ task'[u].pc \in AnalysisTail \ {"a_fail"} => rec'.ev.promoted
    <3>1. CASE u = t
      BY <1>c, <2>1, <3>1
    <3>2. CASE u # t
      BY <2>1, <3>2 DEF AnalysisTail
    <3> QED BY <3>1, <3>2
  <2> QED BY <1>c, <2>2 DEF Dumped
<1>d. ASSUME NEW pc, Pc # "idle", GoTo(t, pc),
             held' = held, held # "gone" /\ rec'.status \in Later => rec'.ext # "none",
             files'.tree # "edited",
             pc \in {"x_save_ev", "x_save_tree"} => rec'.tree = "drafted",
             pc \in AnalysisTail \ {"a_fail"} => rec'.ev.promoted,
             meta'.status = "analyzed" => files'.ev.promoted
      PROVE  Dumped'
  <2> DEFINE new == [task[t] EXCEPT !.pc = pc]
  <2>1. new.pc = pc
    BY DEF TypeOK
  <2>2. task' = [task EXCEPT ![t] = new]
    BY <1>d, Zenon DEF GoTo
  <2> HIDE DEF new
  <2> QED BY <1>c, <1>d, <2>1, <2>2
\* The step of a task that changes no more than its pc.
<1>e. /\ held # "gone" /\ rec.status \in Later => rec.ext # "none"
      /\ files.tree # "edited"
      /\ Pc \in {"x_save_ev", "x_save_tree"} => rec.tree = "drafted"
      /\ Pc \in AnalysisTail \ {"a_fail"} => rec.ev.promoted
      /\ meta.status = "analyzed" => files.ev.promoted
  BY DEF Dumped
<1> USE DEF ExtractionAwaits, AnalysisAwaits
<1>1. CASE IndexPlaintiff(t) \/ IndexDefendant(t)
  <2> DEFINE plaintiff == [pc |-> "x_plaintiff", seen |-> PlaintiffPart]
             defendant == [pc |-> "x_defendant", seen |-> task[t].seen \cup DefendantPart]
  <2>1. task' = [task EXCEPT ![t] = plaintiff] \/ task' = [task EXCEPT ![t] = defendant]
    BY <1>1 DEF IndexPlaintiff, IndexDefendant
  <2>2. Pc # "idle" /\ UNCHANGED <<rec, held, meta, files>>
    BY <1>1 DEF IndexPlaintiff, IndexDefendant, PlaintiffDone, RecordOnly
  <2>3. plaintiff.pc = "x_plaintiff" /\ defendant.pc = "x_defendant"
    OBVIOUS
  <2> HIDE DEF plaintiff, defendant
  <2> QED BY <1>c, <1>e, <2>1, <2>2, <2>3 DEF AnalysisTail
<1>2. CASE ExtractIssues(t)
  <2>1. /\ rec'.status = rec.status /\ Pc \in {"x_begin", "x_plaintiff", "x_defendant"}
        /\ GoTo(t, "x_issues") /\ UNCHANGED <<held, meta, files>>
    BY <1>2 DEF ExtractIssues, PlaintiffDone, RecordOnly, TypeOK, CaseRecord
  <2> QED BY <1>a, <1>d, <1>e, <2>1 DEF AnalysisTail, Later
<1>3. CASE ReceiveIssues(t)
  <2>1. /\ rec'.tree = "drafted" /\ rec'.ext = "private" /\ Pc = "x_issues"
        /\ UNCHANGED <<held, meta, files>>
        /\ GoTo(t, "x_save_ev") \/ GoTo(t, "x_persist")
    BY <1>3 DEF ReceiveIssues, RecordOnly, TypeOK, CaseRecord
  <2> QED BY <1>d, <1>e, <2>1 DEF AnalysisTail
<1>4. CASE SaveEvidenceIndex(t)
  <2>1. /\ UNCHANGED <<rec, held, meta>> /\ files'.tree = files.tree
        /\ \/ Pc = "x_save_ev" /\ GoTo(t, "x_save_tree")
           \/ Pc = "a_save_ev" /\ GoTo(t, "a_save_result")
    BY <1>4 DEF SaveEvidenceIndex, Write, FilesOnly, TypeOK, ArtifactDir
  <2>2. meta.status # "analyzed"
    BY <1>b, <2>1 DEF WorkingAt, ExtractionTail, BeforeMeta
  <2> QED BY <1>d, <1>e, <2>1, <2>2 DEF AnalysisTail
<1>5. CASE SaveIssueTree(t)
  <2>1. /\ UNCHANGED <<rec, held, meta>> /\ files'.tree = rec.tree
        /\ Pc = "x_save_tree" /\ GoTo(t, "x_persist")
    BY <1>5 DEF SaveIssueTree, Write, FilesOnly, TypeOK, ArtifactDir
  <2>2. meta.status # "analyzed"
    BY <1>b, <2>1 DEF WorkingAt, ExtractionTail
  <2> QED BY <1>d, <1>e, <2>1, <2>2 DEF AnalysisTail
<1>6. ASSUME NEW ok \in BOOLEAN, FinishExtraction(t, ok) PROVE Dumped'
  <2>1. /\ UNCHANGED <<rec, held, files>> /\ Pc = "x_persist" /\ NoTask.pc = "idle"
        /\ task' = [task EXCEPT ![t] = NoTask] \/ GoTo(t, "x_fail")
    BY <1>6 DEF FinishExtraction, NoTask, GoTo
  <2>2. meta'.status # "analyzed"
    BY <1>6, <1>a, <1>b, <2>1 DEF FinishExtraction, SaveToDisk, MetaOf, WorkingAt, ExtractionTail
  <2> QED BY <1>c, <1>d, <1>e, <2>1, <2>2 DEF AnalysisTail
<1>7. CASE StartRounds(t) \/ CallFails(t)
  <2>1. /\ UNCHANGED <<rec, held, meta, files>> /\ Pc # "idle"
        /\ GoTo(t, "a_fail") \/ GoTo(t, "a_rounds") \/ GoTo(t, "x_fail")
    BY <1>7 DEF StartRounds, CallFails, RecordOnly
  <2> QED BY <1>d, <1>e, <2>1 DEF AnalysisTail
<1>8. ASSUME NEW docx, NEW md, FinishRounds(t, docx, md) PROVE Dumped'
  <2>1. /\ rec'.ev = [of |-> rec.ev.of, promoted |-> TRUE] /\ rec'.ext = rec.ext
        /\ Pc = "a_rounds" /\ UNCHANGED <<held, meta, files>>
        /\ GoTo(t, "a_save_ev") \/ GoTo(t, "a_event")
    BY <1>8 DEF FinishRounds, RecordOnly, TypeOK, CaseRecord
  <2>2. rec'.ev.promoted
    BY <2>1
  <2>3. held # "gone" => rec.ext # "none"
    BY <1>a, <1>e, <2>1 DEF Later
  <2> QED BY <1>d, <1>e, <2>1, <2>2, <2>3
<1>9. CASE SaveArtifacts(t)
  <2>1. /\ UNCHANGED <<rec, held, meta>> /\ files'.tree = files.tree /\ files'.ev = files.ev
        /\ Pc \in AnalysisTail \ {"a_fail"}
        /\ \E pc : GoTo(t, pc) /\ pc \notin {"x_save_ev", "x_save_tree"}
    BY <1>9 DEF SaveArtifacts, Write, WithOutput, FilesOnly, TypeOK, ArtifactDir, AnalysisTail
  <2>2. Pc # "idle"
    BY <2>1 DEF AnalysisTail
  <2> QED BY <1>d, <1>e, <2>1, <2>2
<1>10. CASE SaveAnalyzedMeta(t)
  <2>1. UNCHANGED <<rec, held, files>> /\ Pc = "a_save_meta" /\ GoTo(t, "a_event")
    BY <1>10 DEF SaveAnalyzedMeta
  <2>2. files.ev = rec.ev
    BY <2>1 DEF Outputs, ProducedAt, AnalysisTail
  <2> QED BY <1>d, <1>e, <2>1, <2>2 DEF AnalysisTail
<1>11. CASE AnnounceAnalysis(t)
  <2>1. UNCHANGED <<rec, held, meta, files>> /\ Pc = "a_event" /\ GoTo(t, "a_persist")
    BY <1>11 DEF AnnounceAnalysis
  <2> QED BY <1>d, <1>e, <2>1 DEF AnalysisTail
<1>12. ASSUME NEW ok \in BOOLEAN, FinishAnalysis(t, ok) PROVE Dumped'
  <2>1. /\ UNCHANGED <<rec, held, files>> /\ Pc = "a_persist" /\ NoTask.pc = "idle"
        /\ task' = [task EXCEPT ![t] = NoTask] \/ GoTo(t, "a_fail")
    BY <1>12 DEF FinishAnalysis, NoTask, GoTo
  <2>2. meta.status = "analyzed"
    BY <1>b, <2>1 DEF WorkingAt
  <2> QED BY <1>c, <1>d, <1>e, <2>1, <2>2 DEF AnalysisTail
<1>13. ASSUME NEW ok \in BOOLEAN, HandleFailure(t, ok) PROVE Dumped'
  <2>1. /\ rec'.status = "failed" /\ UNCHANGED <<held, files>> /\ Pc # "idle"
        /\ task' = [task EXCEPT ![t] = NoTask] /\ NoTask.pc = "idle"
        /\ meta' = meta \/ meta'.status = "failed"
    BY <1>13 DEF HandleFailure, SaveToDisk, MetaOf, NoTask, TypeOK, CaseRecord
  <2> QED BY <1>c, <1>e, <2>1 DEF AnalysisTail, Later
<1> QED BY <1>1, <1>2, <1>3, <1>4, <1>5, <1>6, <1>7, <1>8, <1>9, <1>10, <1>11, <1>12, <1>13
        DEF TaskStep, BaselineFails

\* Dumped is inductive, relative to the other parts.
LEMMA DumpedStep ==
    ASSUME ~SavesMayFail, Durable, Indexed, Synced, Outputs, Dumped, [Next]_vars
    PROVE  Dumped'
<1>1. ASSUME NEW u \in Uploads, FinishUpload(u) PROVE Dumped'
  <2>1. upload[u] \in Mats /\ held # "gone"
    BY <1>1 DEF FinishUpload, Durable, TypeOK, Flight, HeldWhileUsed
  <2>2. rec'.status \in Later => rec'.ext # "none"
    BY <1>1, <2>1, MaterialDumped DEF FinishUpload
  <2>3. NoTaskAt(TaskTail) /\ UNCHANGED <<task, meta, files>>
    BY <1>1 DEF FinishUpload, LoopBusy, NoTaskAt
  <2> QED BY <2>2, <2>3 DEF Dumped, NoTaskAt, TaskTail, ExtractionTail
<1>2. CASE Restart
  BY <1>2 DEF Restart, NoTask, Dumped, AnalysisTail
<1>3. CASE UNCHANGED vars
  BY <1>3 DEF vars, Dumped
<1> QED BY <1>1, <1>2, <1>3, RequestDumped, TaskStepDumped DEF Next

\* Nothing is shown at the start.
LEMMA InitDumped == Init => Dumped
<1> SUFFICES ASSUME Init PROVE Dumped
  OBVIOUS
<1>1. held = "gone" /\ files.tree = "none" /\ meta.status = "absent"
  BY DEF Init, NoMeta
<1>2. \A t \in Tasks : task[t].pc = "idle"
  BY DEF Init, NoTask
<1> QED BY <1>1, <1>2 DEF Dumped, AnalysisTail

----------------------------------------------------------------------------
(* The answers of the API *)

\* Replies are changed in two lists, two headings or what they show.
Listing(reply, e, i) == [reply EXCEPT !.evidence = e, !.issues = i]
Heading(reply, s, v) == [reply EXCEPT !.status = s, !.review = v]
Showing(reply, x) == [reply EXCEPT !.shows = x]

\* Setting one field of a reply and then another.
LEMMA ReplyAlgebra ==
    ASSUME NEW a, NEW s, NEW v, NEW e, NEW i, NEW f, NEW j, NEW x, NEW y
    PROVE  /\ Listing(Listing(a, e, i), f, j) = Listing(a, f, j)
           /\ Showing(Listing(a, e, i), x) = Listing(Showing(a, x), e, i)
           /\ Showing(Heading(a, s, v), x) = Heading(Showing(a, x), s, v)
           /\ Showing(Showing(a, x), y) = Showing(a, y)
<1>1. Listing(Listing(a, e, i), f, j) = Listing(a, f, j)
  BY DEF Listing
<1>2. Showing(Listing(a, e, i), x) = Listing(Showing(a, x), e, i)
  BY DEF Listing, Showing
<1>3. Showing(Heading(a, s, v), x) = Heading(Showing(a, x), s, v)
  BY DEF Heading, Showing
<1>4. Showing(Showing(a, x), y) = Showing(a, y)
  BY DEF Showing
<1> QED BY <1>1, <1>2, <1>3, <1>4

\* The files replace both lists of an extraction.
LEMMA RereadLists ==
    ASSUME NEW a, NEW r, HasExtraction(r)
    PROVE  /\ WithExtraction(a, r) = Listing(a, r.ext, r.tree)
           /\ Reread(WithExtraction(a, r)) = Listing(a, "promoted", "drafted")
<1>1. WithExtraction(a, r) = Listing(a, r.ext, r.tree)
  BY DEF WithExtraction, Listing
<1>2. Reread(Listing(a, r.ext, r.tree)) = Listing(Listing(a, r.ext, r.tree), "promoted", "drafted")
  BY DEF Reread, Listing
<1> QED BY <1>1, <1>2, ReplyAlgebra

\* What the snapshot of a case with an extraction shows.
LEMMA SnapshotLists ==
    ASSUME NEW r, HasExtraction(r)
    PROVE  LET x == (Parts(r) \ {"extraction"}) \cup r.mats \cup Log(r)
           IN  /\ Snapshot(r) = Listing(Heading(Shows(x), r.status, r.review), r.ext, r.tree)
               /\ Snapshot(r).shows = x
<1> DEFINE x == (Parts(r) \ {"extraction"}) \cup r.mats \cup Log(r)
<1>1. Snapshot(r) = WithExtraction(Heading(Shows(x), r.status, r.review), r)
  BY DEF Snapshot, Heading
<1>2. Snapshot(r) = Listing(Heading(Shows(x), r.status, r.review), r.ext, r.tree)
  BY <1>1, RereadLists
<1> HIDE DEF x
<1>3. Shows(x).shows = x
  BY DEF Shows, Reply
<1>4. Listing(Heading(Shows(x), r.status, r.review), r.ext, r.tree).shows = Shows(x).shows
  BY DEF Listing, Heading
<1> QED BY <1>2, <1>3, <1>4 DEF x

\* An entry of the case list without its report.
LEMMA Unreported ==
    ASSUME NEW s, NEW v, NEW p
    PROVE  /\ WithoutReport([Shows({}) EXCEPT !.status = s, !.review = v, !.report = p])
                = [Shows({}) EXCEPT !.status = s, !.review = v, !.report = FALSE]
           /\ WithoutReport(Shows({})) = Shows({})
<1> DEFINE no == FALSE
           c == 200
           n == "none"
           a == "absent"
           e == {}
           base == [code |-> c, status |-> a, review |-> n, run |-> no, report |-> no,
                    evidence |-> n, issues |-> n, shows |-> e]
           sh == Shows({})
<1>1. sh = [base EXCEPT !.shows = e]
  BY DEF Shows, Reply
<1>2. \A r : WithoutReport(r) = [r EXCEPT !.report = no]
  BY DEF WithoutReport
<1> HIDE DEF no, c, n, a, e, sh
<1>3. [base EXCEPT !.shows = e] = base
  OBVIOUS
<1>4. [base EXCEPT !.report = no] = base
  OBVIOUS
<1>5. [[sh EXCEPT !.status = s, !.review = v, !.report = p] EXCEPT !.report = no]
       = [sh EXCEPT !.status = s, !.review = v, !.report = no]
  OBVIOUS
<1>6. WithoutReport(sh) = sh
  BY <1>1, <1>2, <1>3, <1>4
<1> QED BY <1>2, <1>5, <1>6 DEF sh, no

\* Two records that differ at most in their materials and in the extraction they show
\* are answered alike, by every endpoint that shows neither.
LEMMA SameAnswers ==
    ASSUME NEW r, NEW s, s.status = r.status, s.review = r.review, s.run = r.run,
           HasExtraction(s) = HasExtraction(r), s.arts = r.arts,
           s.report = r.report, s.wm = r.wm
    PROVE  /\ Parts(s) = Parts(r) /\ Log(s) = Log(r)
           /\ GetCase(s) = GetCase(r) /\ GetEvents(s) = GetEvents(r)
           /\ GetResult(s) = GetResult(r)
           /\ ListArtifacts(s) = ListArtifacts(r)
           /\ \A name \in ArtifactName : GetArtifact(s, name) = GetArtifact(r, name)
           /\ DownloadReport(s) = DownloadReport(r) /\ GetMarkdown(s) = GetMarkdown(r)
           /\ ListReviews(s) = ListReviews(r)
           /\ \A format : Deliverable(s, format) = Deliverable(r, format)
<1>1. Parts(s) = Parts(r) /\ Log(s) = Log(r)
  BY DEF Parts, Log, HasAnalysis
<1>2. GetCase(s) = GetCase(r) /\ GetEvents(s) = GetEvents(r)
  BY <1>1 DEF GetCase, GetEvents
<1>3. GetResult(s) = GetResult(r) /\ ListArtifacts(s) = ListArtifacts(r)
  BY <1>1 DEF GetResult, ListArtifacts
<1>4. \A name \in ArtifactName : GetArtifact(s, name) = GetArtifact(r, name)
  BY DEF GetArtifact
<1>5. /\ DownloadReport(s) = DownloadReport(r) /\ GetMarkdown(s) = GetMarkdown(r)
      /\ ListReviews(s) = ListReviews(r)
  BY DEF DownloadReport, GetMarkdown, ListReviews
<1>6. \A format : Deliverable(s, format) = Deliverable(r, format)
  BY DEF Deliverable
<1> QED BY <1>1, <1>2, <1>3, <1>4, <1>5, <1>6

\* Taking the late materials away takes nothing else from a snapshot.
LEMMA OnlyLateGoes ==
    ASSUME TypeOK, meta.mats \subseteq rec.mats
    PROVE  LET others == (Parts(rec) \ {"extraction"}) \cup Log(rec)
           IN  (others \cup rec.mats) \ Late = others \cup meta.mats
<1>1. Late \subseteq Mats
  BY DEF Late, TypeOK, CaseRecord
<1>2. Parts(rec) \subseteq {"extraction", "analysis"} /\ Log(rec) \subseteq EventType
  BY DEF Parts, Log, TypeOK
<1>3. rec.mats \ Late = meta.mats
  BY DEF Late
<1> QED BY <1>1, <1>2, <1>3, ViewsAssumption DEF ViewsAssumption

\* What a restart would give back of an analysed case, field by field.
LEMMA AnalyzedRestored ==
    ASSUME Durable, Indexed, Synced, Outputs, Dumped,
           held = "store", ~LoopBusy, rec.status = "analyzed"
    PROVE  /\ Restored.status = rec.status /\ Restored.review = rec.review
           /\ Restored.run = rec.run /\ Restored.ev = rec.ev
           /\ Restored.tree = "drafted" /\ Restored.ext = "promoted" /\ rec.ext # "none"
           /\ Restored.arts = rec.arts /\ Restored.report = rec.report
           /\ Restored.wm = rec.wm /\ Restored.mats = meta.mats /\ meta.mats \subseteq rec.mats
           /\ index.status = meta.status /\ index.review = meta.review
<1>1. NoTaskAt(TaskTail)
  BY DEF LoopBusy, NoTaskAt
<1>2. Recoverable /\ InAgreement
  BY <1>1 DEF Outputs, Recoverable, Synced
<1>3. files.ev # NoIndex /\ files.tree = "drafted"
  BY <1>2 DEF InAgreement, Indexed, Stored, Dumped, Durable, TypeOK, ArtifactDir, IssueTree, Later
<1>4. files.ev.promoted /\ rec.ext # "none"
  BY <1>2 DEF InAgreement, Dumped, Later
<1>5. Restored.tree = "drafted" /\ Restored.ext = "promoted"
  BY <1>3, <1>4 DEF Restored, Redumped
<1>6. "analysis_data.json" \in files.outs /\ meta.mats \subseteq rec.mats
  BY <1>2 DEF Outputs, InAgreement
<1>7. Restored.run /\ rec.run /\ rec.wm /\ Restored.run \in BOOLEAN
      /\ rec.run \in BOOLEAN /\ rec.wm \in BOOLEAN
  BY <1>1, <1>2, <1>6 DEF Recoverable, Restored, Synced, Durable, TypeOK, CaseRecord, CaseMeta
<1> QED BY <1>1, <1>2, <1>4, <1>5, <1>6, <1>7 DEF Recoverable, InAgreement, Restored

\* While saves work, the answers about an analysed case that has been restored from the
\* disk are those of before but for three things: a material that arrived late is gone,
\* the extraction is shown as the files have it, unedited and promoted, and the case
\* list tells of no report (run_analysis, _load_from_disk, the reading endpoints).
THEOREM AnalyzedSurvivesRestartHolds ==
    ASSUME ~SavesMayFail PROVE Spec => []AnalyzedSurvivesRestart
<1>1. Durable /\ Indexed /\ Synced /\ Outputs /\ Dumped => AnalyzedSurvivesRestart
  <2> SUFFICES ASSUME Durable, Indexed, Synced, Outputs, Dumped,
                      held = "store", ~LoopBusy, rec.status = "analyzed"
               PROVE  AnalyzedSurvivesRestart
    BY DEF AnalyzedSurvivesRestart
  <2> DEFINE Back == Restored
  <2>1. /\ Back.status = rec.status /\ Back.review = rec.review
        /\ Back.run = rec.run /\ Back.ev = rec.ev
        /\ Back.tree = "drafted" /\ Back.ext = "promoted" /\ rec.ext # "none"
        /\ Back.arts = rec.arts /\ Back.report = rec.report
        /\ Back.wm = rec.wm /\ Back.mats = meta.mats /\ meta.mats \subseteq rec.mats
        /\ index.status = meta.status /\ index.review = meta.review
    BY AnalyzedRestored
  <2> HIDE DEF Back
  <2>2. HasExtraction(Back) = TRUE /\ HasExtraction(rec) = TRUE
    BY <2>1 DEF HasExtraction
  <2>3. /\ Parts(Back) = Parts(rec) /\ Log(Back) = Log(rec)
        /\ GetCase(Back) = GetCase(rec) /\ GetEvents(Back) = GetEvents(rec)
        /\ GetResult(Back) = GetResult(rec)
        /\ ListArtifacts(Back) = ListArtifacts(rec)
        /\ \A name \in ArtifactName : GetArtifact(Back, name) = GetArtifact(rec, name)
        /\ DownloadReport(Back) = DownloadReport(rec) /\ GetMarkdown(Back) = GetMarkdown(rec)
        /\ ListReviews(Back) = ListReviews(rec)
        /\ \A format : Deliverable(Back, format) = Deliverable(rec, format)
    BY <2>1, <2>2, SameAnswers
  <2>4. GetExtraction(Back) = Reread(GetExtraction(rec))
    <3> DEFINE found == [Reply(200) EXCEPT !.status = rec.status]
    <3>1. GetExtraction(rec) = WithExtraction(found, rec)
      BY <2>2 DEF GetExtraction
    <3>2. GetExtraction(Back) = WithExtraction(found, Back)
      BY <2>1, <2>2 DEF GetExtraction
    <3> HIDE DEF found
    <3>3. WithExtraction(found, Back) = Listing(found, "promoted", "drafted")
      BY <2>1, <2>2, RereadLists
    <3> QED BY <2>2, <3>1, <3>2, <3>3, RereadLists
  <2>5. ASSUME NEW status \in CaseStatus \cup {"any"}
        PROVE  ListCases(EntryOfMeta(meta), status) = WithoutReport(ListCases(index, status))
    <3>1. "report.docx" \notin meta.names
      BY DEF Durable, TypeOK, CaseMeta, ArtifactName
    <3> DEFINE back == EntryOfMeta(meta)
    <3>2. back.status = index.status /\ back.review = index.review
      BY <2>1 DEF EntryOfMeta
    <3>3. back.hasReport = FALSE
      <4> DEFINE told == "report.docx" \in meta.names
                 heading == [status |-> meta.status, review |-> meta.review, hasReport |-> told]
      <4>1. told = FALSE
        BY <3>1
      <4>2. EntryOfMeta(meta) = heading
        BY DEF EntryOfMeta
      <4> HIDE DEF told
      <4>3. heading.hasReport = told
        OBVIOUS
      <4> QED BY <4>1, <4>2, <4>3
    <3> HIDE DEF back
    <3>4. CASE status \in {"any", index.status}
      <4>1. ListCases(back, status)
              = [Shows({}) EXCEPT !.status = index.status, !.review = index.review, !.report = FALSE]
        BY <3>2, <3>3, <3>4 DEF ListCases
      <4>2. ListCases(index, status)
              = [Shows({}) EXCEPT !.status = index.status, !.review = index.review,
                                  !.report = index.hasReport]
        BY <3>4 DEF ListCases
      <4>3. WithoutReport(ListCases(index, status))
              = [Shows({}) EXCEPT !.status = index.status, !.review = index.review, !.report = FALSE]
        <5> DEFINE told == index.hasReport
                   shown == [Shows({}) EXCEPT !.status = index.status, !.review = index.review,
                                              !.report = told]
        <5>1. ListCases(index, status) = shown
          BY <4>2
        <5> HIDE DEF told
        <5>2. WithoutReport(shown)
                = [Shows({}) EXCEPT !.status = index.status, !.review = index.review,
                                    !.report = FALSE]
          BY Unreported
        <5> HIDE DEF shown
        <5> QED BY <5>1, <5>2
      <4> QED BY <4>1, <4>3 DEF back
    <3>5. CASE status \notin {"any", index.status}
      <4>1. ListCases(back, status) = Shows({}) /\ ListCases(index, status) = Shows({})
        BY <3>2, <3>5 DEF ListCases
      <4> QED BY <4>1, Unreported DEF back
    <3> QED BY <3>4, <3>5
  <2>6. Snapshot(Back) = Reread(WithoutLate(Snapshot(rec)))
    <3> DEFINE others == (Parts(rec) \ {"extraction"}) \cup Log(rec)
               full == others \cup rec.mats
               left == others \cup meta.mats
               Titled(x) == Heading(Shows(x), rec.status, rec.review)
    <3>1. full \ Late = left
      BY <2>1, OnlyLateGoes DEF Durable
    <3>2. /\ (Parts(rec) \ {"extraction"}) \cup rec.mats \cup Log(rec) = full
          /\ (Parts(Back) \ {"extraction"}) \cup Back.mats \cup Log(Back) = left
      BY <2>1, <2>3
    <3> HIDE DEF full, left
    <3>3. /\ Snapshot(rec) = Listing(Titled(full), rec.ext, rec.tree)
          /\ Snapshot(rec).shows = full
      BY <2>2, <3>2, SnapshotLists
    <3>4. Snapshot(Back) = Listing(Titled(left), "promoted", "drafted")
      BY <2>1, <2>2, <3>2, SnapshotLists
    <3>5. WithoutLate(Snapshot(rec)) = Showing(Snapshot(rec), left)
      BY <3>1, <3>3 DEF WithoutLate, Showing
    <3>6. Showing(Titled(full), left) = Titled(left)
      <4>1. /\ Shows(full) = Showing(Reply(200), full)
            /\ Shows(left) = Showing(Reply(200), left)
        BY DEF Shows, Showing
      <4>2. Showing(Titled(full), left) = Heading(Showing(Shows(full), left), rec.status, rec.review)
        BY ReplyAlgebra
      <4>3. Showing(Showing(Reply(200), full), left) = Showing(Reply(200), left)
        BY ReplyAlgebra
      <4> QED BY <4>1, <4>2, <4>3
    <3>7. WithoutLate(Snapshot(rec)) = Listing(Titled(left), rec.ext, rec.tree)
      BY <3>3, <3>5, <3>6, ReplyAlgebra
    <3>8. Reread(Listing(Titled(left), rec.ext, rec.tree)) = Listing(Titled(left), "promoted", "drafted")
      BY <2>2, RereadLists
    <3> QED BY <3>4, <3>7, <3>8
  <2>7. ASSUME NEW format \in ExportFormats \ {"json"}
        PROVE  /\ ExportCase(Back, format) = ExportCase(rec, format)
               /\ BulkEntry(Back, format) = BulkEntry(rec, format)
    BY <2>3 DEF ExportCase, BulkEntry
  <2> QED BY <2>1, <2>3, <2>4, <2>5, <2>6, <2>7 DEF AnalyzedSurvivesRestart, Back
<1>2. Durable /\ Synced /\ Outputs /\ [Next]_vars => Outputs'
  BY OutputsStep
<1>3. Durable /\ Indexed /\ [Next]_vars => Indexed'
  BY IndexedStep
<1>4. Durable /\ Indexed /\ Synced /\ Outputs /\ Dumped /\ [Next]_vars => Dumped'
  BY DumpedStep
<1>5. Spec => [](Durable /\ Synced)
  BY SyncedHolds
<1> QED BY <1>1, <1>2, <1>3, <1>4, <1>5, InitIndexed, InitOutputs, InitDumped, PTL DEF Spec
=============================================================================
