---------------------------- MODULE CasePipeline ----------------------------
(***************************************************************************)
(* scripts/run_case.py: eight steps, each of which writes its artifacts to *)
(* the output directory, one file after the other, and then the checkpoint. *)
(* The process may die between any two writes (a crash, Ctrl-C, an LLM     *)
(* call that raises); --resume skips the steps that the checkpoint names   *)
(* and reads their artifacts back instead.                                 *)
(*                                                                         *)
(* One output directory, begun once.  A single write is taken as atomic.   *)
(***************************************************************************)
EXTENDS Naturals, Sequences

CONSTANTS
    RelativeDir,    \* --output-dir is a relative path
    MaxCrashes      \* bound on the process deaths of one behaviour

ASSUME CasePipelineAssumption == RelativeDir \in BOOLEAN /\ MaxCrashes \in Nat

VARIABLES
    run,        \* "none", "running", "done"; "rejected": --resume exits at once
    last,       \* last_completed, as this process read it (0: None)
    step,       \* the step it is in
    written,    \* artifacts of that step already written
    skip,       \* --skip-pretrial of this process
    search,     \* its similar-case search: "off" without --with-similar-cases, "due" or "done"
    evidence,   \* ev_index in memory: "none", "private" or "promoted"
    parts,      \* groups of post-debate artifacts in memory
    disk,       \* the artifacts in the output directory
    ckpt,       \* checkpoint.json: last step (0: no file) and artifact_paths
    crashes

vars == <<run, last, step, written, skip, search, evidence, parts, disk, ckpt, crashes>>

\* STEP_ORDER
Evidence == 1
Issues == 2
Debate == 3
Pretrial == 4
PostDebate == 5
Outputs == 6
Docx == 7
Documents == 8
Steps == 1..8

\* "core" stands for the post-debate artifacts that a resume reads back (six),
\* "defence" for the others (admissibility, dependency graph, hearing order,
\* defence chain).
Artifact == {"evidence_index", "issue_tree", "result", "conference", "core", "defence",
             "report_md", "report_v3", "report_docx", "drafts"}
Version == {"absent", "private", "promoted", "whole", "partial"}

\* Mutant: the pretrial step does not save the index it has promoted.
Writes_KeepsIndex(s) ==
    CASE s = Evidence -> <<"evidence_index">>
      [] s = Issues -> <<"issue_tree">>
      [] s = Debate -> <<"result", "evidence_index">>
      [] s = Pretrial -> <<"conference">>
      [] s = PostDebate -> <<"core", "defence">>
      [] s = Outputs -> <<"result", "report_md", "report_v3">>
      [] s = Docx -> <<"report_docx">>
      [] OTHER -> <<"drafts">>

\* The artifacts of a step, in the order of their writes.
Writes(s) ==
    CASE s = Evidence -> <<"evidence_index">>
      [] s = Issues -> <<"issue_tree">>
      [] s = Debate -> <<"result", "evidence_index">>
      [] s = Pretrial -> IF skip THEN <<"evidence_index">>
                         ELSE <<"conference", "evidence_index">>
      [] s = PostDebate -> <<"core", "defence">>
      [] s = Outputs -> <<"result", "report_md", "report_v3">>
      [] s = Docx -> <<"report_docx">>
      [] OTHER -> <<"drafts">>

\* ev_index in memory once the LLM calls of the step are done.
EvidenceNow ==
    CASE step = Evidence -> "private"
      [] step = Pretrial -> "promoted"
      [] OTHER -> evidence

\* What a write leaves on the disk.  A conference over an index that is already
\* promoted finds nothing left to examine, and the report has the sections whose
\* artifacts are in memory.
Product(f) ==
    CASE f = "evidence_index" -> EvidenceNow
      [] f = "conference" -> IF evidence = "private" THEN "whole" ELSE "partial"
      [] f \in {"report_md", "report_v3"} -> IF "defence" \in parts THEN "whole" ELSE "partial"
      [] f = "report_docx" -> disk["report_v3"]
      [] OTHER -> "whole"

Present(f) == disk[f] # "absent"

\* Mutant: the last completed step is done again.
ShouldSkip_Before(s) == s < last

\* _should_skip
ShouldSkip(s) == s <= last

----------------------------------------------------------------------------
(* The command *)

Begin(from, skipPretrial, similar) ==
    /\ run' = "running" /\ last' = from /\ step' = Evidence /\ written' = 0
    /\ skip' = skipPretrial /\ search' = IF similar THEN "due" ELSE "off"
    /\ evidence' = "none" /\ parts' = {}
    /\ UNCHANGED <<disk, ckpt, crashes>>

\* Without --resume; again if the first step did not reach its checkpoint.
Start(skipPretrial, similar) ==
    run = "none" /\ ckpt.last = 0 /\ Begin(0, skipPretrial, similar)

\* validate_artifacts: a path is read relative to the output directory, which a
\* path saved as str(out / name) of a relative directory already contains.
MissingArtifacts == IF RelativeDir THEN ckpt.paths ELSE {f \in ckpt.paths : ~Present(f)}

Resume(skipPretrial, similar) ==
    /\ run = "none" /\ ckpt.last > 0
    /\ IF MissingArtifacts = {}
       THEN Begin(ckpt.last, skipPretrial, similar)
       ELSE run' = "rejected"
            /\ UNCHANGED <<last, step, written, skip, search, evidence, parts, disk, ckpt, crashes>>

----------------------------------------------------------------------------
(* The steps *)

Advance == step' = step + 1 /\ written' = 0

\* Step 5 comes after the search.
AtStep == run = "running" /\ step \in Steps /\ (step = Docx => search # "due")

\* A skipped step reads back what later ones need.  The conference is read when
\* it exists; a skipped step 4 renders the report again from its JSON.
SkipStep ==
    /\ AtStep /\ ShouldSkip(step)
    /\ evidence' = IF step \in {Evidence, Debate, Pretrial} THEN disk["evidence_index"]
                   ELSE evidence
    /\ parts' = IF step = PostDebate /\ Present("core") THEN {"core"} ELSE parts
    /\ \/ UNCHANGED disk
       \/ /\ step = Outputs /\ Present("report_v3")
          /\ \E docx \in BOOLEAN :
                disk' = [disk EXCEPT !["report_md"] = disk["report_v3"],
                                     !["report_docx"] = IF docx THEN disk["report_v3"] ELSE @]
    /\ Advance
    /\ UNCHANGED <<run, last, skip, search, ckpt, crashes>>

Working == AtStep /\ ~ShouldSkip(step)

\* The next artifact of the step; the first write comes after all of its LLM
\* calls.
WriteArtifact ==
    /\ Working /\ written < Len(Writes(step))
    /\ LET f == Writes(step)[written + 1] IN disk' = [disk EXCEPT ![f] = Product(f)]
    /\ evidence' = EvidenceNow
    /\ parts' = IF step = PostDebate THEN {"core", "defence"} ELSE parts
    /\ written' = written + 1
    /\ UNCHANGED <<run, last, step, skip, search, ckpt, crashes>>

GivenUp == 2    \* `written` of an optional step that produced nothing

\* The Word report or the drafts cannot be produced: a warning, no file.
OptionalFails ==
    /\ Working /\ step \in {Docx, Documents} /\ written = 0
    /\ written' = GivenUp
    /\ UNCHANGED <<run, last, step, skip, search, evidence, parts, disk, ckpt, crashes>>

\* The artifacts whose paths the step's checkpoint records.
Recorded ==
    IF step \in {Docx, Documents} /\ written = GivenUp THEN {}
    ELSE {Writes(step)[i] : i \in 1..Len(Writes(step))}

\* Mutant: the path of the Word report is recorded whether or not it exists.
SaveCheckpoint_Unwritten ==
    /\ Working /\ written >= Len(Writes(step))
    /\ ckpt' = [last |-> step,
                paths |-> ckpt.paths \cup {Writes(step)[i] : i \in 1..Len(Writes(step))}]
    /\ Advance
    /\ UNCHANGED <<run, last, skip, search, evidence, parts, disk, crashes>>

\* Mutant: the checkpoint is saved before the step's last artifact.
SaveCheckpoint_Early ==
    /\ Working /\ written + 1 >= Len(Writes(step))
    /\ ckpt' = [last |-> step, paths |-> ckpt.paths \cup Recorded]
    /\ Advance
    /\ UNCHANGED <<run, last, skip, search, evidence, parts, disk, crashes>>

\* CheckpointManager.save: the recorded paths accumulate.
SaveCheckpoint ==
    /\ Working /\ written >= Len(Writes(step))
    /\ ckpt' = [last |-> step, paths |-> ckpt.paths \cup Recorded]
    /\ Advance
    /\ UNCHANGED <<run, last, skip, search, evidence, parts, disk, crashes>>

\* Step 4.5, whose LLM calls no checkpoint records; a failure is a warning.
Search ==
    /\ run = "running" /\ step = Docx /\ search = "due"
    /\ search' = "done"
    /\ UNCHANGED <<run, last, step, written, skip, evidence, parts, disk, ckpt, crashes>>

Finish ==
    /\ run = "running" /\ step > Documents
    /\ run' = "done"
    /\ UNCHANGED <<last, step, written, skip, search, evidence, parts, disk, ckpt, crashes>>

\* The process dies or raises; its memory is gone.
Crash ==
    /\ run = "running" /\ crashes < MaxCrashes
    /\ run' = "none" /\ crashes' = crashes + 1
    /\ last' = 0 /\ step' = Evidence /\ written' = 0 /\ skip' = FALSE
    /\ search' = "off" /\ evidence' = "none" /\ parts' = {}
    /\ UNCHANGED <<disk, ckpt>>

----------------------------------------------------------------------------
Init ==
    /\ run = "none" /\ last = 0 /\ step = Evidence /\ written = 0 /\ skip = FALSE
    /\ search = "off" /\ evidence = "none" /\ parts = {}
    /\ disk = [f \in Artifact |-> "absent"]
    /\ ckpt = [last |-> 0, paths |-> {}]
    /\ crashes = 0

Command ==
    \E skipPretrial, similar \in BOOLEAN :
        Start(skipPretrial, similar) \/ Resume(skipPretrial, similar)
Process == SkipStep \/ WriteArtifact \/ OptionalFails \/ SaveCheckpoint \/ Search \/ Finish

Next == Command \/ Process \/ Crash

Spec == Init /\ [][Next]_vars

\* The process goes on while it lives, and whoever started it wants it done:
\* after a crash the command is given again.
FairSpec == Spec /\ WF_vars(Process) /\ WF_vars(Command)

----------------------------------------------------------------------------
(* Properties *)

\* Every variable keeps the shape the code gives it.
TypeOK ==
    /\ run \in {"none", "running", "done", "rejected"}
    /\ last \in 0..8 /\ step \in 1..9 /\ written \in 0..3
    /\ skip \in BOOLEAN /\ search \in {"off", "due", "done"}
    /\ evidence \in {"none", "private", "promoted"}
    /\ parts \subseteq {"core", "defence"}
    /\ disk \in [Artifact -> Version]
    /\ ckpt \in [last : 0..8, paths : SUBSET Artifact]
    /\ crashes \in 0..MaxCrashes

\* What the checkpoint calls completed can be read back: the artifacts that the
\* skipped steps' readers open are there, and the evidence has gone through the
\* pretrial step if the checkpoint says so (checkpoint.py, save after the writes).
CheckpointCovered ==
    /\ ckpt.last >= Evidence => Present("evidence_index")
    /\ ckpt.last >= Issues => Present("issue_tree")
    /\ ckpt.last >= Debate => Present("result")
    /\ ckpt.last >= Pretrial => disk["evidence_index"] = "promoted"
    /\ ckpt.last >= PostDebate => Present("core") /\ Present("defence")
    /\ ckpt.last >= Outputs => Present("report_md") /\ Present("report_v3")

\* The post-debate analysis and all that follows it work on evidence that has
\* gone through the pretrial step, wherever the run was interrupted before.
AnalysisSeesPromoted ==
    run = "running" /\ step > Pretrial => evidence = "promoted"

\* What the checkpoint calls completed is not done again: its step neither calls the
\* LLM nor writes, but for the Markdown and the Word report, which a resume renders anew,
\* and the checkpoint never goes back (_should_skip).  Calls are paid again where no
\* checkpoint covers them: those of the step that a process died in, and, at every
\* resume, those of the similar-case search.
NeverRedone ==
    [][/\ written' > written => step > ckpt.last
       /\ \A f \in Artifact :
             disk'[f] # disk[f] =>
                \/ step > ckpt.last
                \/ step = Outputs /\ f \in {"report_md", "report_docx"}
       /\ ckpt'.last >= ckpt.last]_vars

\* A run that is resumed after every interruption ends.
RunFinishes == <>(run = "done")

(* What the documents say and the code does not keep. *)

\* --resume goes on from the checkpoint in --output-dir (run_case.py:1909).
ResumeAccepted == run # "rejected"
=============================================================================
