# Case adversarial engine: a verification development

TLA+ models of the parts of this repository whose correctness depends on order and
on what an LLM may answer: requests and background tasks that share one case, disk
writes that a process death can cut in two, six agents that argue in rounds, engines
that refer to each other's results, reports that are built, repaired and rebuilt. TLC
checks the models on small instances; TLAPS proves theorems about them for every
value of the constants. All paths below are relative to the repository.

## 1. The system and its parts

The program turns the materials of two parties into an evidence index and an issue
tree, lets LLM agents debate them in three rounds, analyses the outcome with a chain
of engines, and writes reports. Two programs do this: an HTTP service (`api/`) and a
command line (`scripts/run_case.py`).

| Part | State | Operations | What is hard | Modules |
|---|---|---|---|---|
| Case API (`api/app.py`, `api/service.py`) | `CaseStore` (records, TTL, evicted ids), one `CaseRecord` per case, `case_meta.json`, `artifacts/`, `events.jsonl` | create, add material, upload, extract, confirm, analyse, review, export, `get` (expire, recover), two background tasks, restart | handlers and tasks interleave at every `await`; many files written one after the other; failing saves; eviction under a running task | `CaseService`, `CaseViews`, `CaseLifecycle` |
| Case index, review, audit log | one list entry, one review status, event types per case | upsert, rebuild, query, four decisions | they trail the record; decisions are final | in `CaseService`, `CaseViews` |
| Progress stream | one list and one queue per case | `log`, `iter_progress`, `stream_analysis` | several clients on one queue, markers of an earlier task | `ProgressStream` |
| Follow-up and scenario jobs of the API | job tables in memory, `scenario.json`, baseline | submit, run, poll | background tasks that nobody awaits; a restart between baseline and job | `BackgroundJobs` |
| Job manager, round engine, agents | `Job` file; outputs of six agent calls | three rounds, parallel rebuttals, transitions by others | retries, failures of one of two parallel calls, an operator who cancels | `Debate` |
| Evidence access control | none | filter by role and domain | what one party may see of the other | in `Debate` |
| Evidence state machine | status and access domain of each item | submit, challenge, admit, bulk | two coupled fields, owner rules | `EvidenceLifecycle`, `EvidenceBoard` |
| Pretrial conference | index, opinions, records, questions | submission, two examinations, rule layer, judge | arbitrary answers, merging two batches | `PretrialConference` |
| Case structuring | index, issue tree | two indexing calls, extraction | references through temporary names, four fallbacks | `CaseIntake` |
| LLM client | none | run the command, read an object or list from its text, repair, retry | prose, code blocks, cut-off answers | `LlmAnswer` |
| Command-line follow-up | `session.json` | question, answer, resume | torn file, answers about things that do not exist | `FollowupSession` |
| CLI pipeline, checkpoint | output directory, `checkpoint.json`, values in memory | eight steps, `--resume`, `--skip-pretrial` | a death between any two writes; skipped steps re-read what later steps overwrite | `CasePipeline` |
| Post-debate engines | eleven results | gaps, amounts, ranking in batches, paths and attacks in parallel, advice, admissibility, hearing order, defence, summary | every call fails or invents ids; filters in several orders; sums | `AnalysisInput`, `AmountCheck`, `IssueRanking`, `DecisionPaths`, `ActionAdvice`, `HearingPlan`, `ExecutiveSummary`, `PostDebate` |
| Four-layer report, Word report, similar cases, drafts | `report.md`, `report_v3.json`, two Word files, three drafts | build, repair, lint, write, rebuild | cyclic parents, numbers given out in advance, refusal after all the work, torn files | `ReportInput`, `EvidenceCards`, `IssueMap`, `ScenarioTree`, `ReportLayers`, `ReportText`, `WordReport`, `ReportExtras`, `CaseReport` |
| Authentication; engines without a caller; preparation and evaluation scripts | none that a case depends on | - | - | not modelled |

How they interact: requests and tasks share the `CaseRecord` object by reference
(tasks and uploads keep it even after the store has evicted it); tasks write the
workspace that a restarted process reads; every save of the meta updates the index;
streams and tasks share one queue. The debate and the pretrial conference both work
on the evidence index, through access control and the state machine. The engines
after the debate hand their results to each other in memory; the report takes all of
them, and a resumed run takes what its predecessor left in the output directory.

`PROJECT.json` lists all components, the hazards of this code at their lines, and
which lines every definition models.

## 2. Modules and how they correspond to the code

In all modules: code between two awaits is one action, since everything runs on one
asyncio loop; an LLM answer is any member of a set that has sound, incomplete,
contradictory and invented answers, or a failure; texts are left out.

**`CaseService`** is one case of the API. Cases share only the dictionary of the
store, so one case stands for all. A run of disk writes is one action per write,
since the process may die between two of them, and while a task is inside such a run
(`LoopBusy`) no handler runs.

- `rec`, `held`, `evicted`: the `CaseRecord`, whether the store holds it, and
  `CaseStore._evicted`. `held = "orphan"`: evicted, but tasks or uploads still refer
  to it. `meta`, `files`: `case_meta.json` and `artifacts/`. `index`: the entry of
  the case list. `events`: which types `events.jsonl` holds. `task[t]`: where each
  background task is. `upload[u]`: what an upload request is still reading.
- Materials are model values, an evidence index is the set of materials it was built
  from and whether the debate's evidence has been promoted, an issue tree is drafted
  or edited, an artifact is there or not. `rec.ext` is the evidence that the answers show:
  as it was extracted, while the process that extracted it runs, or promoted, once a
  restart has read it back (`ExtractionData`, `Redumped`); the issues shown are those of
  the tree in memory.
- Requests: `CreateCase`, `AddMaterial`, `BeginUpload`/`FinishUpload` (around the
  `await file.read()`), `TriggerExtraction`, `TriggerAnalysis` (both through
  `TryStart`), `Confirm`, `SubmitReview`, `Export`, `Expire` and `LoadFromDisk` (both
  inside `store.get`). Tasks: `IndexPlaintiff` ... `FinishExtraction` and
  `StartRounds` ... `FinishAnalysis`, with `CallFails`, `BaselineFails` and
  `HandleFailure`. `Restart`: the process dies at any point.

**`CaseViews`** has what each reading endpoint answers, as functions of the record,
the log or the list entry. **`CaseLifecycle`** is the promise seen by clients: a live
status and a saved one, the legal moves, and that a restart never invents a status.
`CaseService` implements it (`LifecycleSpec`).

**`CaseClients`** composes `ProgressStream` (`record.progress`, its queue, and where
each stream is in the two) and `BackgroundJobs` (the tables of the follow-up and the
scenario manager, `ScenarioService`, `ScenarioSimulator` and its validators) over one
server and its restarts.

**`Debate`** has both drivers of the agents: `RoundEngine` with a job and parallel
rebuttals, and the sequential `_run_rounds` of the API and the scripts. `calls[x]`,
`active`, `output[x]`: attempts, waiting calls and results. Its section on `JobManager` is the transition table of a job;
`OperatorMoves` uses it while an agent is awaited.

**`EvidenceLifecycle`** has the state machine as operators: `LegalTransitions`,
`DomainMap`, `Transition`, `BulkSubmit`. **`PretrialConference`** puts a board of
evidence through the CLI's conferences or the API's promotion (`route`). `Validated`
is the parsing layer, `Resolve` the rule layer. **`EvidenceBoard`** is the abstract
promise: the audience of an item only widens. `PretrialConference` implements it with
the access domains as audience.

**`LlmAnswer`** is one run of the LLM command and the ways of reading an object or a
list from what it prints; **`CaseIntake`** is what indexer and extractor make of it;
**`FollowupSession`** is the command line from the materials to the interactive
questions, with `session.json` and its torn writes.

**`CasePipeline`** is a CLI run: each step writes its artifacts in the order of
`Writes`, then `SaveCheckpoint`; `Crash` may come between any two writes, and
`Resume` starts over from `checkpoint.json`. What matters about a file is its
`Version`: an evidence index is private or promoted, a report or a conference is
whole or partial. The similar-case search lies between two steps, and no checkpoint
records it (`Search`).

**`PostDebate`** is `_run_post_debate`: one action per stage, with the engines as
operators of a module each. `Ordering` has the stable sort that Python's `sorted` is
and the parts of a list. Both arrange members by counting those that come before
them (`Arranged`), without recursion, so that they can be reasoned about; for the
same reason the loop of the hearing order is a function from the number of turns to
its state (`KahnStart`, `KahnStep`).
**`CaseReport`** is steps 4 to 5.5: `Report` (`ReportLayers`) builds the four layers
from the earlier results (`ReportInput`, `EvidenceCards`, `IssueMap`,
`ScenarioTree`), `Text` (`ReportText`) makes the Markdown with its repairs and its
gate, `WordDocument` (`WordReport`) the Word file; `ReportExtras` has the similar-case
search and the drafts. Two parts of the code call themselves: the traversal of the
issue map is a function from the number of calls to the cards that they have made
(`Visit`, `MakeCard`), and the partition of the decision paths is the set of its calls
with their stretch of paths and their first number (`Stretches`, `Split`). Both give
what a direct recursive transcription gives; TLC compared them on 33,643 inputs.

`MC*`: the instances that TLC checks; `CaseViews` and `CasePipeline` are instantiated
by their `.cfg` files alone. `CaseProofs`, `ClientsProofs`, `DebateProofs`,
`PretrialProofs`, `PipelineProofs`, `FollowupProofs`, `PostDebateProofs`,
`CaseReportProofs`: the proofs.

## 3. Runs

| Run | Instance | States | Shows |
|---|---|---|---|
| `case_service` | 3 materials, 1 upload, 2 task slots, 1 restart, working saves, fair tasks | 113,406 | the invariants and action properties of a case, and that a started task ends |
| `case_faults` | 2 materials, failing saves, TTL under tasks, 2 restarts | 151,725 | the lifecycle, under faults |
| `clients` | 2 clients one after the other, 3 messages, 1 follow-up and 1 scenario job, 1 retry, 1 restart | 80,552 | a stream loses nothing and ends with the outcome; jobs are decided and say what their results say |
| `debate` | an item of evidence of each kind, 2 issues, 2 retries, both drivers | 96,631 | what the parties may cite, what the job tells and keeps, that a debate ends |
| `pretrial` | 3 items of 2 parties, 2 opinions per answer, 2 retries, 2 conferences | 106,596 | index, records, focus list and questions agree; silence is no consent; the audience only widens |
| `post_debate` | 4 issues with a dependency cycle, 3 items of evidence, 2 batches | 112,403 | what is filtered resolves, no issue is lost, order of hearing |
| `followup` | 1 material per party, answers of up to 2 items, 2 runs of 2 turns, 1 retry | 1,032,612 | the issue tree's contract, grounded turns, the session over a crash |
| `pipeline` | 3 crashes | 19,165 | the checkpoint covers what it claims, no completed step is redone, a resumed run ends |
| `report` | 7 issues, 4 items of evidence, 14 inputs, 2 processes | 204,614 | issue map, scenario tree, repairs, and files against checkpoint |
| `stuck_after_restart`, `over_repaid`, `resume_report` | as above | - | violated: see section 6 |

The properties, by run:

`case_service`, `case_faults`
- `SingleFlight`: no two tasks on one case, and the status names the one there is.
- `EvidenceHasMaterial`: an extracted case has its index and issues, built only
  from materials that the case has, although the parties' materials are read at
  different awaits, uploads arrive in between, and a restart joins several files.
- `AnalyzedSurvivesRestart`: what the endpoints answer of an analysed case is what
  they would answer after a restart at that moment, but for three things that it names:
  a material that came late is gone (`WithoutLate`), the extraction is shown as the files
  have it, issues unedited and evidence promoted (`Reread`), and the case list tells of
  no report (`WithoutReport`). The last two are against the documents, see section 6.
- `DurableInSync`: disk and case list agree with the live case, except in the two
  statuses that no handler saves (`created` after a reset, `confirmed`).
- `NeverReopened`, `DecisionIsFinal`: action properties over what is on disk.
- `StartedTaskEnds`: liveness within one process. `LifecycleSpec`: the refinement.

`clients`
- `NoHoles`: without repetitions, a client has received a beginning of the log, and
  all of it once its stream has ended, although the client before it may have taken
  any part of the queue. True for one stream at a time only (`Together = 1`).
- `ToldTheOutcome`: no marker that an earlier task has left ends a stream.
- `DiffGrounded`: a job, its result in memory and its file say the same, and only of
  issues and evidence that exist, whatever the LLM answered.
- `EveryStreamEnds`, `EveryJobEnds`: liveness.

`debate`
- `OnlyVisibleCited`: whatever the LLM answers, no party argues with the other's
  private evidence or an invented one.
- `MissingAgreesWithArguments`: the report of missing evidence agrees with what was
  argued.
- `JobTellsOutcome`: the job ends as the run ends, whoever moves it meanwhile.
- `OutcomeIsFinal`: the job is read, checked and rewritten across awaits while an
  operator cancels or pends it; no late answer, failure or progress report overwrites an
  outcome, and the progress never falls back.
- `DebateEnds`: liveness, also when one of two parallel calls fails.

`pretrial`
- `BoardConsistent`, `RecordsMatchBoard`, `NothingPrivateDisclosed`: the index agrees
  with itself, with the records and with what is asked and disclosed.
- `SilenceIsNoConsent`: a conference admits an item only while it is submitted, and on
  opinions of its own of which none, in either batch, challenges it. Verdicts are
  accepted, challenged or reserved; a reserved one does not stand in the way, against
  the docstring (section 6).
- `ConferenceEnds`: liveness. `BoardSpec`: the refinement.

`post_debate`
- `ReferencesResolve`: what the engines filter, derive from other ids and filter again
  exists, in every result, and every conflict of the amounts is a blocking condition
  unless the call for the tree has failed. Two references are copied without a filter
  and not covered, see section 6.
- `EveryIssueKept`: each issue is ranked and heard exactly once, whichever batches
  fail and whatever part of the issues an answer covers.
- `DependenciesFirst`: in the hearing order, outside of a cycle.

`followup`
- `TreeKeepsContract`: what `IssueExtractor` accepts after its repairs and
  fallbacks has the references that the later stages dereference.
- `TurnsGrounded`: a turn is about an issue and cites evidence of the report only.
- `HistoryKept`: a resumed session continues the one in the file; a torn file is the
  only way to lose turns.

`pipeline`
- `CheckpointCovered`: what a resume reads back is there, wherever a process died.
- `AnalysisSeesPromoted`: which of two versions of the index a resumed run works on.
- `NeverRedone`: a step that the checkpoint calls completed neither calls the LLM nor
  writes again, but for the two reports that a resume renders anew. Calls that no
  checkpoint covers are paid again: those of the step that was interrupted, and those of
  the similar-case search at every resume.
- `RunFinishes`: liveness.

`report`
- `MapIsForest`: cards and children are a forest although parents are invented and
  form cycles, and roots are merged and capped.
- `ScenarioTreeSound`: links given out in advance lead to nodes, without cycle.
- `RepairableIsWritten`: a report that the fixers can repair is not refused.
- `FilesAgree`: once the checkpoint says so, Markdown, JSON and Word file tell the
  same, in a first run and after a resume.

Some definitions state what a document says and have no run, because the code does
otherwise in a way that section 6 describes: `MaterialsOnlyBetweenTasks`,
`OpponentExamines`, `AdmittedOnlyIfAccepted`, `ResumeAccepted`, `IndexInSync`,
`FactsUndisputed`, `ExtractionSurvivesRestart`, `ListSurvivesRestart`,
`CopiedReferencesResolve`, `AdviceFollowsTree`.

**Bounds.** Three materials let one party have two (one seen by the extraction, one
arriving later) and the other one; in `case_faults` one each is enough, since what
matters is which party was read before. Two task slots are enough to violate single
flight; the theorem covers any number. One restart cuts every pair of writes, two
let a restart hit what a restart left. Two clients let one leave part of the queue to
the other; three messages give one before, one during and one after a replay. Two
issues let the parties have different evidence for each. Two opinions per answer give
agreement, reservation and contradiction within a batch and across batches; two conferences let
the second meet items in every status. Four issues are a cycle, a dependant of it and
an independent one, in two batches of which one may fail. In `followup` the code
tries three times and the instance twice (`MaxRetries = 1`): the attempts do not
differ. Seven issues exceed the four roots that the map keeps, which the instance sets
to two, and have a cycle of two parents; the fourteen inputs each exercise one path of layers, repairs or gate. Three
crashes let each of several steps be interrupted, and one step twice. Deadlock checking is off because
cases, conferences, debates and runs really stop.

**Fairness.** `CaseService`: weak fairness of each task and each upload. The event
loop runs every ready coroutine, and every LLM call has a timeout (600 s), so an
await ends. Nothing obliges a client to send a request, or the process to die. The
TTL (86,400 s, renewed when a task starts) is much longer than a task's calls, so
`case_service` lets it pass only while no task runs (`TaskMayOutliveTtl = FALSE`);
`case_faults` drops this. `CaseClients`: the same loop runs each task and each open
stream. `Debate`, `PretrialConference`: every call returns or times out; the operator
is not obliged to do anything. `CasePipeline`: a living process goes on, and
`RunFinishes` also assumes that whoever started the run gives the command again
after a crash. `PostDebate`, `FollowupSession` and `CaseReport` are checked for
safety only and assume none.

Every property of a passing run has a mutant: a definition changed as a plausible
bug would change it (`..._Repeats`, `..._NotSaved`, `..._Early` next to the
originals), under which TLC finds the property violated.

## 4. Proofs

TLAPS checks the theorems below for every value of the constants that satisfies the
assumptions of the modules, which TLC evaluates in the runs. They say what the kinds
of things are, and that kinds which the code tells apart are disjoint:
`CaseServiceAssumption` (the parties' materials, the two "none" values),
`ViewsAssumption` (a material is none of the other things that a reply shows),
`StreamAssumption`, `JobsAssumption`, `EvidenceAssumption`, `ConferenceAssumption`,
`DebateAssumption`, `IntakeAssumption`, `SessionAssumption`, `CasePipelineAssumption`,
`AnalysisAssumption`, `RankingAssumption`, `AmountAssumption` (a case with figures has
a loan and a claim), `PathsAssumption`, `AdviceAssumption`, `PostDebateAssumption`, `MapAssumption` (there
may be at least one root), `ReportAssumption` and `CaseReportAssumption` (of the results
that the report is made from, what their models require: a ranking has every issue once,
what the debate wrote ends with text), `ExtrasAssumption` (an object that is read has its
lists).

**`CaseProofs`**: any sets of materials, tasks and uploads, any number of restarts.

With or without failing saves, and evictions under a task:

- `TypeCorrect`, `SingleFlightHolds`: `Spec => []TypeOK`, `Spec => []SingleFlight`.
- `EvidenceHasMaterialHolds`, `DecisionIsFinalHolds`.
- `ImplementsLifecycle`: `Spec => LifecycleSpec`, the refinement.

While saves work (`~SavesMayFail`):

- `NeverReopenedHolds`, `AnalyzedSurvivesRestartHolds`, and `DurableInSyncHolds`,
  which also needs that no task outlives its case in the store
  (`~TaskMayOutliveTtl`).

The last three need their hypotheses: the handler of a failed task ignores what its
own save returns, and a finished analysis is announced before the last save. If that
one fails, the case becomes failed after the log has told both outcomes.

`SingleFlight` alone is not inductive. A task in its tail writes the status, so
the status it finds there must be known (`TaskStatus`); creating or recovering a
case assumes that no task is left on the record (`HeldWhileUsed`); promoting the
evidence of a debate assumes that there is an index, which also the types need
(`DebateHasIndex`). `Flight` is the conjunction, and `TypeOK /\ Flight` is
inductive. The proof rests on two lemmas. `Quiet`: when the loop is free and the
status is not active, nothing runs, so a handler that changes the status never
does so under a task. `MoveFlight`: a step of the only task keeps the invariant if
its new pc fits the new status. Every action is then one case.

The other invariants are each inductive relative to those before them. `Durable` adds
which status and review the meta has while a task is at each of its pcs (`Working`,
`Reviewed`). `Indexed` is about the evidence: what a task has read (`Read`), what the
record has (`Built`) and what a restart would join from three files written one after
the other (`Stored`). `Synced` relates record, meta and case list, `Told` the log and
the meta. `Outputs` counts the files that an analysis has written at each of its pcs,
and says that what `_load_from_disk` would make of them is what the record holds.
`Dumped` is about what is shown: a case from the extraction on shows one, the tree on the
disk is never an edited one, and the index of an analysed case is promoted.

**`ClientsProofs`**: any clients, any number of messages, visits, jobs and restarts.

- `StreamsTyped`, `ToldTheOutcomeHolds`: also with several streams on one queue.
- `NoHolesHolds`: `Spec => [](Together = 1 => NoHoles)`.
- `DiffGroundedHolds`: `Spec => []DiffGrounded`.

What a stream has received says nothing of what is still to come, so the invariant
`Streams` has the queue (`QueueInOrder`): the messages after the first `k`, in their
order, and the end marker behind them once there is an outcome. That a stream may
take the head without leaving a hole needs that it has received at least those `k`
(`Alone`), which the replay provides, and no more than have been logged. `Attached`
is what holds of a stream whoever else takes from the queue. With two of them `Alone`
fails at the first message that the other one takes. For the jobs the invariant is
`Jobs` (each job is in one of the states that its two halves can be in,
`JobInOrder`), and `HasBaseline`: a job that runs has a baseline to be compared with.

**`DebateProofs`**: any evidence, issues and retries, both drivers.

- `TypeCorrect`, `OnlyVisibleCitedHolds`, `MissingAgreesWithArgumentsHolds`,
  `JobTellsOutcomeHolds`, `OutcomeIsFinalHolds`: the safety properties of the run
  `debate`.

The inductive invariant is `Sound`. `Flow` says which calls are waiting and which
outputs are there in each phase; `Attempted` bounds the retries; `Record` says of
each output that only visible evidence is in it; `Final`
ties the result to the outputs; `JobFollows` relates the job to the phase.
`MissingAgreesWithArguments` follows from `Record` and `Final`: the arguments cite
only the visible evidence that the report of missing evidence is computed from.
`OutcomeIsFinal` goes through each step that writes the job: whoever reports, completes
or fails asks the transition table first, and no way leads out of an outcome.

**`PretrialProofs`**: any evidence and owners, any number of opinions per answer,
of retries and of conferences.

- `BoardConsistentHolds`, `RecordsMatchBoardHolds`, `NothingPrivateDisclosedHolds`,
  `SilenceIsNoConsentHolds`: the safety properties of the run `pretrial`.
- `ImplementsBoard`: `Spec => BoardSpec`, the refinement.

The inductive invariant is `Sound`. Besides the invariants themselves it needs
`Fresh`: until the rule layer has run, a conference has no records. Then
the records are made in the same step as the board they describe, and nothing
touches the board until the next conference discards them. The refinement adds
that every step only `Widens` the board, which for each item is a lemma on
`Transition` (`SubmitItem`, `AdmitItem`, `ChallengeItem`).

**`FollowupProofs`**: any materials, answers, questions, turns, retries and runs.

- `TreeKeepsContractHolds`, `TurnsGroundedHolds`: `Spec => []...`.
- `HistoryKeptHolds`: `Spec => HistoryKept`.

That the repairs of `IssueExtractor` meet its contract for an answer of any length is
a lemma about an operator (`TreeContract`): of two items with one name the first
counts, which exists since every non-empty set of numbers has a least one. The
inductive invariant is `Sound`: the files have what they should (`FilesTyped`,
`TreeOnDisk`); while somebody may ask, memory and file have the same turns
(`InStep`), so that the file grows by what is appended to memory; the question that is
waiting is about an issue (`Asked`); each turn is grounded in the tree it was asked
on, which a resumed session reads back.

**`PipelineProofs`**: any number of crashes, absolute or relative directories.

- `CheckpointCoveredHolds`, `AnalysisSeesPromotedHolds`, `NeverRedoneHolds`: the
  safety properties of the run `pipeline`.

`CheckpointCovered` speaks of the disk after a crash, and is kept by
`SaveCheckpoint` only if what the step had to write is there. So the inductive
invariant `Covered` adds what the process knows on its way: which step the
checkpoint names (`Progress`), that the artifacts counted by `written` are on the
disk (`InStep`), and which version of the index is in memory and on the disk
(`EvidenceFlow`). A later step that overwrites an artifact of an earlier one
(`result`, `evidence_index`) never makes it absent, and never takes a promoted
index back.

**`PostDebateProofs`**: any number of issues with any dependencies, any evidence,
figures, batches and answers.

- `ReferencesResolveHolds`, `EveryIssueKeptHolds`, `DependenciesFirstHolds`: the
  invariants of the run `post_debate`.

First come facts about lists: arranging by counting puts every member into one place
(`ArrangedInOrder`), so a sort neither drops nor repeats one and keeps the order of
equals (`SortArranges`), and a part of a list is in its order (`AtKeeps`). With them
each engine has a lemma on what its result refers to, whatever the calls return. The
inductive invariant `Sound` says for each stage which results are there and that they
are results of those engines. `DependenciesFirst` is about a loop: `KahnSound` is its
invariant, kept by every turn (`KahnSteps`) and so after any number of them (the least
turn that breaks it cannot exist). After as many turns as there are issues the queue
is empty, by counting; what has not been taken then is a set in which everything
waits for a member of it, which is what the property calls a cycle. The sort by phase
afterwards is stable.

**`CaseReportProofs`**: any number of issues with any parents, scores and evidence, any
results of the earlier steps, any limit of roots, any answers of the search and the
drafts, any number of processes.

- `FilesAgreeHolds`, `MapIsForestHolds`, `RepairableIsWrittenHolds`,
  `ScenarioTreeSoundHolds`: the invariants of the run `report`.

The files need an inductive invariant, `FilesInv`: at each stage the report in memory is
one that `Report` builds or that was read back (`ReportSound`, `StageSound`), a refusal
has its reason (`RaisedSound`), what the checkpoint counts as saved is whole and accepted
(`SavedSound`), and each Word file or draft is absent, torn, or made of that same report
(`WordSound`, `DraftsSound`). A death tears at most the file that is being written, and
nothing that the checkpoint counts as saved is written again by a later process but
files made from it (`CrashFiles`). The other three properties are about what `Report`
and `Text` compute, so they are lemmas on operators, used through `ReportSound`.

`MapIsForest`: every root is one of those that remain or is moved under one, directly or
through one other (`MergedSound`). The traversal is a loop with the invariant
`VisitInv`: a parent's card is there before its children are called, and no issue has two
cards. That it ends is a count: the calls that are waiting and the places of children
whose parent has no card yet are together one less after each call (`CallsLeft`). What no
root leads to is a set of issues whose parents are in it (`PlacesKnown`), hence the cycle
of parents that the property allows more roots for.

`ScenarioTreeSound`: in each round of `Split` the numbers and the paths of the calls that
are through and of the open ones tile their ranges, a call's halves belong to no other
call, and the open stretches get shorter (`CallsInv`). After as many rounds as there are
paths nothing is open; then the numbers are those of the nodes, each but the first is
named by exactly one smaller one (`IsTree`).

`RepairableIsWritten`: titles without a number are all different after the fixer
(`RenumberedApart`), no section is empty after the repairs, and too few are placeholders
for the gate. The lemma needs the condition on the agents' empty sections in `Repairable`: with more of
them, none empty in the end but all filled with the placeholder, the gate refuses.

**Only model-checked.** All liveness (`StartedTaskEnds`, `EveryStreamEnds`,
`EveryJobEnds`, `DebateEnds`, `ConferenceEnds`, `RunFinishes`), which is out of the
prover's reach. Every invariant, every action property and both refinements of the
passing runs have a theorem; the three hypotheses above (`SavesMayFail`,
`TaskMayOutliveTtl`, `Together`) are those under which the runs check them.

## 5. Not modelled, and simplifications

- Several cases at once, order and paging of the case list; authentication.
- Audit events are appended with the change that they report, except the one of a
  finished analysis, which the code writes between two saves.
- `workspace.json`, its material index and the records of single runs: no program
  reads them. `_emit_event` failures (logged only).
- In `CaseService` and `CasePipeline` a file write is atomic. `CaseReport` and
  `FollowupSession` have torn files, where a later run reads them.
- `CaseStore.evict_expired` is called by tests only; the TTL acts in `get`.
- In `CaseService` the awaits inside the debate and the analysis that follows it are
  one await: between them the task changes nothing that another request sees but the
  log, which is `ProgressStream`.
- Texts: prompts, wording and layout. Of a text the report models keep what the lint
  rules, the repairs and the gate look at.
- Interest in the amount table, which depends on a contract validity that the command
  line never gives; the roles of the access table that the debate does not use.
- `--perspective judge`: the option exists, the report's model refuses it.
- A fresh run in a directory that holds the files of another one.
- Engines that only tests or the scripts of one recorded case call, the preparation
  of case files and the evaluation of finished runs: sequential code without state
  that another part shares.

## 6. Where documents and code disagree

- `stuck_after_restart`: a restart during a task leaves the case at work for ever
  (`api/service.py:372` against `api/README.md:72`).
- `resume_report`: a resume rebuilds the report from `report_v3.json`, which does not
  keep the two fields of a key card (`v3/models.py:312` against `plans/v3-plan.md:287`).
- `over_repaid`: with more repaid than lent the anchor of the claim is negative and
  its model refuses it (`executive_summarizer/summarizer.py:371` against
  `models/analysis.py:752`).

Seen and not given a run (engines are under `engines/`):

API
- A file upload can add a material during an extraction (`api/app.py:322` against the
  message at `api/app.py:268`; `MaterialsOnlyBetweenTasks`). The case stays
  consistent, the material is just not indexed.
- `add_material` and `confirm` neither save nor index the status (`api/case_index.py:3`
  says the index is in sync; `IndexInSync`). Bulk export logs "exported" also for cases
  without a file (`app.py:150`).
- A restart changes what is shown of a case whose state it recovers
  (`api/README.md:72`): edited issues (`app.py:414`) are never written, so the drafted
  ones come back, and the evidence is read from the promoted index
  (`service.py:262`; `ExtractionSurvivesRestart`). `has_report` turns false in the case
  list, although the report can be fetched (`case_index.py:149`; `ListSurvivesRestart`).
- Two streams on one queue starve each other (`service.py:125`; `NoHoles` and
  `EveryStreamEnds` with `Together = 2`); a single one gets what it has replayed once
  more from the queue. `/progress` serves a registry that nothing fills.
- Every API follow-up job fails: `_run_followup` builds a `ReportSection` without its
  required `section_index` (`models/analysis.py:342`, `service.py:1214`), which tests
  patch out. A failed scenario is reported as completed (`service.py:1111`), and
  `ScenarioService` files it under another id than the job's.

Debate and pretrial
- The rule layer only looks for a challenge, so an item is admitted on reserved opinions
  (`cross_examination_engine.py:267-291` against its lines 10 and 266, "全部 accepted";
  `AdmittedOnlyIfAccepted`).
- An item of evidence may be judged by its own owner's examiner call
  (`cross_examination_engine.py:209` against its line 7; `OpponentExamines`).
- A gap without description in the LLM's summary fails the whole finished debate
  (`adversarial/summarizer.py:263`, `schemas.py:127`).
- `base_agent.py:143` says that unreadable JSON is retried; `ValueError` is not caught.
- The prompt of the evidence manager has both parties' private evidence, and its
  citations are not checked; nor are the agents' issue ids.
- Job transitions read, check and rewrite a file without a lock
  (`shared/job_manager.py:100`), which matters with two processes only.

Structuring and follow-up
- Two issues of one answer with the same temporary name get one id
  (`extractor.py:275`, against `validator.py:132`); an issue may be its own parent.
- `validate_evidence` refuses what the model itself dumps; only tests call it.
- A malformed answer ends the interactive session (`responder.py:214`).
  `session.json` is loaded whichever case it is of, and a torn one loses the history.

Engines after the debate
- `disputed_fact` evidence is shown as an undisputed fact: `fact_base.py:47` reads a
  field that conflicts do not have (against its line 5; `FactsUndisputed`).
- The ranker's `all(...)` gates hold for empty lists (748-811) and its id match is
  fuzzy (646, against `ranker.py:17`); it sorts by the composite score first (against
  its line 10).
- Key and counter evidence of a path may overlap: the one is filtered before the
  other is derived (`decision_path_tree/generator.py:738`, against
  `models/pipeline.py`). A failed call also drops the automatic conditions.
- `fallback_path_id` of a path and `amendment_reason_evidence_ids` are copied without a
  check: the path may not exist or have been left out, the evidence may be invented
  (`decision_path_tree/generator.py:801` against `models/pipeline.py:254`,
  `action_recommender/recommender.py:530`; `CopiedReferencesResolve`).
- With the defendant likely to win, headline and plan are searched for different words
  (`recommender.py:322` and `:333` against its line 305), so either may still ask for the
  whole claim (`AdviceFollowsTree`).
- A most likely path that favours "neutral" makes the summary's winner "neutral".
- A defence with one good and one rejected point is both defended and unevaluated.
- Issues outside of the dependency order keep the given order, not the order by id
  that the rationale tells (`hearing_order/generator.py:192`); no program fills
  `depends_on` at all.

Pipeline and report
- `--resume` with a relative directory is always rejected (`checkpoint.py:172` against
  `run_case.py:1909`; `ResumeAccepted`). A crash between the promoted index and the
  pretrial checkpoint makes the resumed conference lose its records, contrary to the
  comment at `run_case.py:1412`.
- `--perspective judge` is offered (`run_case.py:1937`) and refused by the report's
  model (`v3/models.py:415`) after all LLM work. A report that the gate refuses is
  refused by every resume. The same case can pass the gate in the neutral view and
  not in a party's.
- A resume past the checkpoint of the outputs ignores its perspective, repeats the
  search with its LLM calls (`run_case.py:1642`) and discards it; a torn copy of the Word report stays; a Word report that is
  written again has no similar cases.
- A pivot path's possible outcome is lost when it has a yes child
  (`scenario_tree.py:104` against its line 30). The Word report has no scenario tree,
  and no unified strategy that stands alone.
- "X (2)" of the fixer can be the title of another section (`report_fixer.py:79`).
  `layer1_cover.py:165` reads a field that arguments lack; section 4.4 is never shown;
  milestones are added again (`layer4`, 182). Challenged bank records can still be
  facts (`fact_base.py:141`). The drafts' cited ids are not checked. One relevance
  score out of range loses all similar cases (`relevance_ranker.py:134`).

## 7. Done, and what could follow

Done: every part that keeps state or orders work is modelled (section 1), the
composition of streams, jobs and case over one server, the drivers of the debate, the
engines from intake to report, two refinements, and proofs of all safety properties of
the passing runs.

What could follow: several cases on one store; two processes on one workspace, which
nothing in the code provides for; that a resumed process finds in its files what the
pipeline says of them (`CasePipeline` and `CaseReport` composed).
