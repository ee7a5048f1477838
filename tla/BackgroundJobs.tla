--------------------------- MODULE BackgroundJobs ---------------------------
(***************************************************************************)
(* The follow-up and scenario jobs of one analysed case: a request answers *)
(* 202 with a job id, an asyncio task works on the job, other requests     *)
(* read it.  The job tables live in memory; the result of a scenario also  *)
(* goes to outputs/.                                                       *)
(*                                                                         *)
(* A diff is a list in the code and the set of its entries here: nothing   *)
(* depends on their order, and a repeated entry says nothing new.          *)
(***************************************************************************)
EXTENDS Naturals, Sequences, SequencesExt, FiniteSets

CONSTANTS
    Followups,      \* ids of follow-up jobs
    Scenarios,      \* ids of scenario jobs
    Issues,         \* issues of the baseline's tree
    Evidence,       \* evidence of the baseline's index
    Invented,       \* issue ids that the LLM, and evidence ids that a request, may make up
    Entries,        \* the diff entries that the LLM may return, ...
    MaxEntries,     \* ... and how many at a time
    ChangeSets,     \* the objects that the change set of a request may be about
    MaxRetries      \* max_retries of call_llm_with_retry

Directions == {"strengthen", "weaken", "neutral"}

\* LLMDiffEntry: the direction is any string, the impact may be empty.
Entry == [issue : Issues \cup Invented, direction : STRING, impact : {"", "text"}]

ASSUME JobsAssumption ==
    /\ (Issues \cup Evidence) \cap Invented = {} /\ Issues \cap Evidence = {}
    /\ Entries \subseteq Entry
    /\ ChangeSets \subseteq Seq(Issues \cup Evidence \cup Invented)
    /\ MaxEntries \in Nat /\ MaxRetries \in Nat

VARIABLES
    followup,   \* followup[j]: FollowupJobManager._jobs
    scenario,   \* scenario[j]: CaseScenarioManager._jobs
    result      \* result[j]: the diff_summary.json that job j has written

jobVars == <<followup, scenario, result>>

JobStatus == {"none", "pending", "running", "completed", "failed"}
NoJob == [status |-> "none", calls |-> 0, change |-> <<>>, diff |-> {}, affected |-> {},
          evidence |-> {}]
NoResult == [status |-> "none", change |-> <<>>, diff |-> {}, affected |-> {},
             evidence |-> {}, inputs |-> {}, outputs |-> 0]

Answers == {answer \in SUBSET Entries : Cardinality(answer) <= MaxEntries}

----------------------------------------------------------------------------
(* FollowupJobManager *)

SubmitFollowup(j, analyzed) ==
    /\ analyzed
    /\ followup[j] = "none"
    /\ followup' = [followup EXCEPT ![j] = "pending"]
    /\ UNCHANGED <<scenario, result>>

\* _run_followup up to its first await, which it never reaches: it builds a
\* ReportSection without section_index, which the model requires, and the
\* ValidationError makes the job fail.
RunFollowup(j) ==
    /\ followup[j] = "pending"
    /\ followup' = [followup EXCEPT ![j] = "failed"]
    /\ UNCHANGED <<scenario, result>>

----------------------------------------------------------------------------
(* ScenarioSimulator *)

\* _resolve_direction; the Chinese synonyms it knows stand with the English words.
Direction(raw) == IF raw \in Directions THEN raw ELSE "neutral"

\* _build_result: entries about unknown issues are dropped; without an entry left,
\* every issue gets a neutral one.
BuildDiff(answer) ==
    LET known == {e \in answer : e.issue \in Issues}
    IN  IF known = {}
        THEN {[issue |-> i, direction |-> "neutral", impact |-> "default"] : i \in Issues}
        ELSE {[issue |-> e.issue, direction |-> Direction(e.direction),
               impact |-> IF e.impact = "" THEN "default" ELSE e.impact] : e \in known}

IssuesOf(diff) == {d.issue : d \in diff}

\* The scenario and its run, which lists all that the simulation has read.
Completed(change, answer) ==
    [status |-> "completed", change |-> change, diff |-> BuildDiff(answer),
     affected |-> IssuesOf(BuildDiff(answer)), evidence |-> ToSet(change) \cap Evidence,
     inputs |-> Issues \cup Evidence, outputs |-> 1]

\* simulate catches what its LLM call raises and returns a failed result.
FailedResult(change) == [NoResult EXCEPT !.status = "failed", !.change = change]

\* validate_scenario_result, which the tests call and the service does not: the errors
\* and warnings that it finds.  A diff_summary of the service is never "baseline".
ScenarioErrors(r) ==
    (IF r.change = <<>> THEN {"BASELINE_ANCHOR_VIOLATION"} ELSE {})
    \cup {"EMPTY_IMPACT_DESCRIPTION" : d \in {x \in r.diff : x.impact = ""}}
    \cup {"INVALID_DIRECTION" : d \in {x \in r.diff : x.direction \notin Directions}}
    \cup {"AFFECTED_ISSUE_IDS_INCOMPLETE" : i \in IssuesOf(r.diff) \ r.affected}
    \cup {"DANGLING_ISSUE_REF" : i \in IssuesOf(r.diff) \ Issues}

ScenarioWarnings(r) ==
    {w \in {"EMPTY_DIFF_ENTRIES"} : r.diff = {}}
        \cup {w \in {"RUN_EMPTY_OUTPUT_REFS"} : r.outputs = 0}

----------------------------------------------------------------------------
(* CaseScenarioManager and ScenarioService *)

\* A new id: neither in the table nor used by an earlier process.
SubmitScenario(j, analyzed) ==
    /\ analyzed
    /\ scenario[j].status = "none" /\ result[j] = NoResult
    /\ \E change \in ChangeSets :
          scenario' = [scenario EXCEPT ![j].status = "pending", ![j].change = change]
    /\ UNCHANGED <<followup, result>>

\* _validate_input; tree and index are of one case, being of one baseline.
ValidInput(change) == Issues # {} /\ change # <<>>

\* _run_scenario up to the LLM call: the baseline is read from outputs/, and the
\* models may refuse an item of the change set, the simulator the case type.
StartScenario(j, baseline) ==
    /\ scenario[j].status = "pending"
    /\ \E accepted \in BOOLEAN :
          scenario' = [scenario EXCEPT ![j].status =
                          IF baseline /\ accepted /\ ValidInput(scenario[j].change)
                          THEN "running" ELSE "failed"]
    /\ UNCHANGED <<followup, result>>

\* Mutant: no limit on the calls.
CallRaises_Endless(j) ==
    /\ scenario[j].status = "running"
    /\ scenario' = [scenario EXCEPT ![j].calls = MaxRetries - @]
    /\ UNCHANGED <<followup, result>>

\* call_llm_with_retry waits and calls again.
CallRaises(j) ==
    /\ scenario[j].status = "running" /\ scenario[j].calls < MaxRetries
    /\ scenario' = [scenario EXCEPT ![j].calls = @ + 1]
    /\ UNCHANGED <<followup, result>>

\* Mutant: the job keeps the ids of its request, not those of the result.
Deliver_AllIssues(j, r) ==
    /\ result' = [result EXCEPT ![j] = r]
    /\ scenario' = [scenario EXCEPT ![j].status = "completed", ![j].diff = r.diff,
                                    ![j].affected = Issues, ![j].evidence = r.evidence]
    /\ UNCHANGED followup

\* The result is written and copied into the job, whose status is "completed"
\* for a failed result too.
Deliver(j, r) ==
    /\ result' = [result EXCEPT ![j] = r]
    /\ scenario' = [scenario EXCEPT ![j].status = "completed", ![j].diff = r.diff,
                                    ![j].affected = r.affected, ![j].evidence = r.evidence]
    /\ UNCHANGED followup

SimulationAnswers(j) ==
    /\ scenario[j].status = "running"
    /\ \E answer \in Answers : Deliver(j, Completed(scenario[j].change, answer))

\* The last call raises, or the answer is not the JSON that was asked for.
SimulationFails(j) ==
    /\ scenario[j].status = "running"
    /\ Deliver(j, FailedResult(scenario[j].change))

\* diff_summary.json cannot be written.
ResultNotWritten(j) ==
    /\ scenario[j].status = "running"
    /\ scenario' = [scenario EXCEPT ![j].status = "failed"]
    /\ UNCHANGED <<followup, result>>

----------------------------------------------------------------------------
(* What clients read *)

DiffOf(x) == [diff |-> x.diff, affected |-> x.affected, evidence |-> x.evidence]

\* GET /api/cases/{case_id}/scenarios/{scenario_id} shows the job; /api/scenarios
\* shows the file, also after a restart, under an id of its own.
GetCaseScenario(j) == DiffOf(scenario[j])
GetScenario(j) == DiffOf(result[j])

----------------------------------------------------------------------------
JobsInit ==
    /\ followup = [j \in Followups |-> "none"]
    /\ scenario = [j \in Scenarios |-> NoJob]
    /\ result = [j \in Scenarios |-> NoResult]

\* A new process has empty tables.
JobsLost ==
    /\ followup' = [j \in Followups |-> "none"]
    /\ scenario' = [j \in Scenarios |-> NoJob]
    /\ UNCHANGED result

JobSubmitted(analyzed) ==
    \/ \E j \in Followups : SubmitFollowup(j, analyzed)
    \/ \E j \in Scenarios : SubmitScenario(j, analyzed)

ScenarioStep(j, baseline) ==
    \/ StartScenario(j, baseline)
    \/ CallRaises(j) \/ SimulationAnswers(j) \/ SimulationFails(j) \/ ResultNotWritten(j)

DiffType == SUBSET [issue : Issues, direction : Directions, impact : {"text", "default"}]

JobsTypeOK ==
    /\ followup \in [Followups -> JobStatus]
    /\ scenario \in [Scenarios -> [status : JobStatus, calls : 0..MaxRetries,
                                   change : ChangeSets \cup {<<>>}, diff : DiffType,
                                   affected : SUBSET Issues, evidence : SUBSET Evidence]]
    /\ result \in [Scenarios -> [status : {"none", "completed", "failed"},
                                 change : ChangeSets \cup {<<>>}, diff : DiffType,
                                 affected : SUBSET Issues, evidence : SUBSET Evidence,
                                 inputs : SUBSET (Issues \cup Evidence), outputs : {0, 1}]]
=============================================================================
