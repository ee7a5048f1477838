------------------------------- MODULE Debate -------------------------------
(***************************************************************************)
(* The three rounds of the adversarial debate: both parties' claims, the   *)
(* evidence manager's review, both rebuttals, the summary.  Two drivers    *)
(* run the same agents: RoundEngine ("engine"), with a job and with the    *)
(* rebuttals in parallel, and the _run_rounds of the API and of the        *)
(* scripts ("script"), without a job and one call after the other.         *)
(*                                                                         *)
(* An answer of the LLM is arbitrary; what the prompts say is left out.    *)
(***************************************************************************)
EXTENDS Naturals, FiniteSets

CONSTANTS
    PlaintiffPrivate, DefendantPrivate,     \* evidence in owner_private
    SharedCommon, AdmittedRecord,           \* evidence in the other two domains
    MadeUp,                                \* evidence ids that the LLM invents
    Issues,                                 \* issues of the tree
    OpenIssues,                             \* those whose status is "open"
    EvidenceOf,                             \* EvidenceOf[i]: issue.evidence_ids
    MaxRetries                              \* config.max_retries

ASSUME DebateAssumption ==
    /\ MaxRetries \in Nat \ {0}
    /\ PlaintiffPrivate \cap (DefendantPrivate \cup SharedCommon \cup AdmittedRecord) = {}
    /\ DefendantPrivate \cap (SharedCommon \cup AdmittedRecord) = {}
    /\ MadeUp \cap (PlaintiffPrivate \cup DefendantPrivate
                       \cup SharedCommon \cup AdmittedRecord) = {}
    /\ OpenIssues \subseteq Issues
    /\ EvidenceOf \in [Issues -> SUBSET (PlaintiffPrivate \cup DefendantPrivate
                                           \cup SharedCommon \cup AdmittedRecord)]

----------------------------------------------------------------------------
(* JobManager: the status of one long-running job in its file.  Every      *)
(* method reads the file, checks, and writes it again without an await, in *)
(* the one process that uses the workspace.  A method that raises leaves   *)
(* the file as it was.                                                     *)

Terminal == {"completed", "failed", "cancelled"}
JobStatus == {"created", "pending", "running"} \cup Terminal

\* _VALID_TRANSITIONS
ValidTransitions ==
    [created   |-> {"pending", "running", "cancelled", "failed"},
     pending   |-> {"running", "cancelled", "failed"},
     running   |-> {"pending", "completed", "failed", "cancelled"},
     completed |-> {}, failed |-> {}, cancelled |-> {}]

May(job, new) == new \in ValidTransitions[job.status]

\* progress counts thirds; result_ref and error are there or not.
Created == [status |-> "created", progress |-> 0, result |-> FALSE, error |-> FALSE]

\* The model_validator of Job.
WellFormed(job) ==
    /\ job.status = "created" => job.progress = 0
    /\ job.status = "completed" <=> job.progress = 3
    /\ job.status = "completed" <=> job.result
    /\ job.status = "failed" <=> job.error

Moved(job, new) == [job EXCEPT !.status = new]

Completed(job) == [job EXCEPT !.status = "completed", !.progress = 3,
                              !.result = TRUE, !.error = FALSE]

Failed(job) == [job EXCEPT !.status = "failed", !.result = FALSE, !.error = TRUE]

Cancelled(job) == [job EXCEPT !.status = "cancelled", !.result = FALSE, !.error = FALSE]

\* update_progress raises for every other status.
TakesProgress(job) == job.status \in {"running", "pending"}

----------------------------------------------------------------------------
VARIABLES
    driver,     \* "engine" or "script"
    phase,      \* "idle", "running", "done", "failed"
    job,        \* the file of the job, if there is one
    calls,      \* calls[x]: failed attempts of agent call x
    active,     \* the agent calls that are waiting for their LLM
    output,     \* output[x]: what agent call x has returned
    result      \* the AdversarialResult, without the rounds and the summary

vars == <<driver, phase, job, calls, active, output, result>>

Claims == {"p_claim", "d_claim"}
Rebuttals == {"p_rebuttal", "d_rebuttal"}
PartyCalls == Claims \cup Rebuttals
AgentCalls == PartyCalls \cup {"ev", "summary"}

Evidence == PlaintiffPrivate \cup DefendantPrivate \cup SharedCommon \cup AdmittedRecord
NoJob == [Created EXCEPT !.status = "none"]
NoOutput == [cites |-> {}, conflicts |-> {}]
NoResult == [plaintiff |-> {}, defendant |-> {}, unresolved |-> {}, missing |-> {}]
Parties == {"plaintiff_agent", "defendant_agent"}

----------------------------------------------------------------------------
(* AccessController *)

Agent(x) == IF x \in {"p_claim", "p_rebuttal"} THEN "plaintiff_agent" ELSE "defendant_agent"

OwnPrivate(role) ==
    IF role = "plaintiff_agent" THEN PlaintiffPrivate ELSE DefendantPrivate

\* filter_evidence_for_agent with the rows of the two party agents.
Visible(role) == SharedCommon \cup AdmittedRecord \cup OwnPrivate(role)

----------------------------------------------------------------------------
(* Answers of the LLM *)

\* One citation per answer tells the properties apart.  Nobody checks the issue
\* ids of a party, nor the citations of the evidence manager.
PartyAnswers == [cites : {{e} : e \in Evidence \cup MadeUp}, conflicts : {{}}]
ManagerAnswers == [cites : {Evidence}, conflicts : SUBSET Issues]
Summary == [cites |-> Evidence, conflicts |-> {}]

\* Mutant: hallucinated citations pass.
Accepted_Unchecked(x, a) == a \in PartyAnswers

\* _parse_agent_output and _validate_citations.
Accepted(x, a) == a \in PartyAnswers /\ a.cites \subseteq Visible(Agent(x))

\* The order of the rounds: the calls that follow once these have returned.
Returned == {x \in AgentCalls : output[x] # NoOutput}

Following(done) ==
    CASE done = {} -> {"p_claim"}
      [] done = {"p_claim"} -> {"d_claim"}
      [] done = Claims -> {"ev"}
      [] done = Claims \cup {"ev"} ->
            IF driver = "engine" THEN Rebuttals ELSE {"p_rebuttal"}
      [] done = Claims \cup {"ev", "p_rebuttal"} ->
            IF driver = "engine" THEN {} ELSE {"d_rebuttal"}
      [] done = PartyCalls \cup {"ev"} -> {"summary"}
      [] OTHER -> {}

----------------------------------------------------------------------------
(* The result *)

\* _extract_best_arguments: the citations of a party's claim and rebuttal.
BestArguments(role, out) == UNION {out[x].cites : x \in {y \in PartyCalls : Agent(y) = role}}

\* _compute_unresolved_issues
Unresolved(conflicts) == OpenIssues \cup (conflicts \cap Issues)

\* Mutant: all of the issue's evidence must be visible.
MissingFor_NotAll(role) ==
    {i \in Issues : EvidenceOf[i] # {} /\ ~(EvidenceOf[i] \subseteq Visible(role))}

\* _build_missing_evidence_report
MissingFor(role) ==
    {i \in Issues : EvidenceOf[i] # {} /\ EvidenceOf[i] \cap Visible(role) = {}}

ResultOf(out) ==
    [plaintiff |-> BestArguments("plaintiff_agent", out),
     defendant |-> BestArguments("defendant_agent", out),
     unresolved |-> Unresolved(out["ev"].conflicts),
     missing |-> {m \in Parties \X Issues : m[2] \in MissingFor(m[1])}]

----------------------------------------------------------------------------
(* Driver *)

Begin(done) == active' = (active \cup Following(done)) \ done

StartRun ==
    /\ phase = "idle" /\ phase' = "running"
    /\ job' = IF driver = "engine" THEN Moved(Created, "running") ELSE job
    /\ Begin({})
    /\ UNCHANGED <<driver, calls, output, result>>

\* Mutant: the except branch is missing.
Raises_KeepsJob(x) ==
    /\ phase' = "failed" /\ active' = active \ {x}
    /\ UNCHANGED <<job>>

\* Mutant: fail_job does not look at the status of the job.
Raises_Overwrites(x) ==
    /\ phase' = "failed" /\ active' = active \ {x}
    /\ job' = IF driver = "engine" THEN Failed(job) ELSE job

\* The except branch of RoundEngine.run.  fail_job raises for a cancelled job,
\* and the job stays as it is.  gather does not cancel the other rebuttal.
Raises(x) ==
    /\ phase' = "failed" /\ active' = active \ {x}
    /\ job' = IF driver = "engine" /\ May(job, "failed") THEN Failed(job) ELSE job

\* Thirds of the progress after the round that call x ends.
ProgressAfter(done) ==
    IF done = Claims THEN 1 ELSE IF done = Claims \cup {"ev"} THEN 2 ELSE 0

\* Call x has returned o: the driver saves it, updates the progress of the job
\* and makes the next calls; what the job manager raises ends the run.
Proceed(x, o) ==
    LET done == Returned \cup {x}
        reports == driver = "engine" /\ ProgressAfter(done) > 0
        out == [output EXCEPT ![x] = o]
    IN  /\ output' = out
        /\ result' = IF done = PartyCalls \cup {"ev"} THEN ResultOf(out) ELSE result
        /\ IF reports /\ ~TakesProgress(job)
           THEN Raises(x)
           ELSE /\ job' = IF reports THEN [job EXCEPT !.progress = ProgressAfter(done)] ELSE job
                /\ Begin(done)
                /\ UNCHANGED phase

----------------------------------------------------------------------------
(* The agents *)

\* The agents take max_retries for the number of attempts, call_llm_with_retry of
\* the summarizer for that of the attempts after the first.
Attempts(x) == IF x = "summary" THEN MaxRetries + 1 ELSE MaxRetries

\* Mutant: a rejected answer does not count.
Retry_Endless(x) ==
    /\ calls' = [calls EXCEPT ![x] = 1 - @]
    /\ UNCHANGED <<phase, job, active>>

GivesUp(x) ==
    IF phase = "running" THEN Raises(x)
    ELSE active' = active \ {x} /\ UNCHANGED <<phase, job>>

\* An attempt has failed: the next one, or RuntimeError.  After the end of the run
\* nobody waits for the result.
Retry(x) ==
    /\ calls' = [calls EXCEPT ![x] = @ + 1]
    /\ IF calls[x] + 1 < Attempts(x) THEN UNCHANGED <<phase, job, active>> ELSE GivesUp(x)

\* The LLM raises, or the answer has no issue, no citation or a made-up one.
AttemptFails(x) ==
    /\ x \in active
    /\ Retry(x)
    /\ UNCHANGED <<driver, output, result>>

\* An answer that is not a JSON object, or not an AgentOutput, raises at once.
AnswerUnreadable(x) ==
    /\ x \in active
    /\ GivesUp(x)
    /\ UNCHANGED <<driver, calls, output, result>>

PartyReturns(x) ==
    /\ x \in active \cap PartyCalls /\ phase = "running"
    /\ \E a \in PartyAnswers : Accepted(x, a) /\ Proceed(x, a)
    /\ UNCHANGED <<driver, calls>>

ManagerReturns ==
    /\ "ev" \in active /\ phase = "running"
    /\ \E a \in ManagerAnswers : Proceed("ev", a)
    /\ UNCHANGED <<driver, calls>>

\* complete_job raises for a job that was set to pending or cancelled.
SummaryReturns ==
    /\ "summary" \in active /\ phase = "running"
    /\ output' = [output EXCEPT !["summary"] = Summary]
    /\ IF driver = "engine" /\ ~May(job, "completed")
       THEN Raises("summary")
       ELSE /\ job' = IF driver = "engine" THEN Completed(job) ELSE job
            /\ phase' = "done" /\ active' = {}
    /\ UNCHANGED <<driver, calls, result>>

\* The other rebuttal returns after the run has failed.
OrphanReturns(x) ==
    /\ x \in active /\ phase = "failed"
    /\ active' = active \ {x}
    /\ UNCHANGED <<driver, phase, job, calls, output, result>>

----------------------------------------------------------------------------
(* Other users of the job manager *)

\* pend_job, start_job, cancel_job while the engine awaits an agent.
OperatorMoves ==
    /\ job.status \in {"running", "pending"}
    /\ \E new \in {"pending", "running", "cancelled"} :
          /\ May(job, new)
          /\ job' = IF new = "cancelled" THEN Cancelled(job) ELSE Moved(job, new)
    /\ UNCHANGED <<driver, phase, calls, active, output, result>>

----------------------------------------------------------------------------
Init ==
    /\ driver \in {"engine", "script"}
    /\ phase = "idle" /\ job = NoJob
    /\ calls = [x \in AgentCalls |-> 0]
    /\ active = {}
    /\ output = [x \in AgentCalls |-> NoOutput]
    /\ result = NoResult

AgentStep(x) == AttemptFails(x) \/ AnswerUnreadable(x) \/ PartyReturns(x) \/ OrphanReturns(x)

RunStep == StartRun \/ ManagerReturns \/ SummaryReturns \/ \E x \in AgentCalls : AgentStep(x)

Next == RunStep \/ OperatorMoves

Spec == Init /\ [][Next]_vars

\* Every LLM call returns or times out.
FairSpec == Spec /\ WF_vars(RunStep)

----------------------------------------------------------------------------
(* Properties *)

TypeOK ==
    /\ driver \in {"engine", "script"}
    /\ phase \in {"idle", "running", "done", "failed"}
    /\ job \in [status : JobStatus \cup {"none"}, progress : 0..3,
                result : BOOLEAN, error : BOOLEAN]
    /\ calls \in [AgentCalls -> 0..MaxRetries + 1]
    /\ active \subseteq AgentCalls
    /\ output \in [AgentCalls -> [cites : SUBSET (Evidence \cup MadeUp),
                                 conflicts : SUBSET Issues]]
    /\ result \in [plaintiff : SUBSET (Evidence \cup MadeUp),
                   defendant : SUBSET (Evidence \cup MadeUp),
                   unresolved : SUBSET Issues, missing : SUBSET (Parties \X Issues)]

\* No party argues with evidence that it may not see, in any round, whatever the
\* LLM answers: neither the opponent's private evidence nor an invented one
\* (AccessController, _validate_citations).
OnlyVisibleCited ==
    /\ \A x \in PartyCalls : output[x].cites \subseteq Visible(Agent(x))
    /\ result.plaintiff \cap (DefendantPrivate \cup MadeUp) = {}
    /\ result.defendant \cap (PlaintiffPrivate \cup MadeUp) = {}

\* The missing-evidence report never tells a party that it lacks evidence for an
\* issue whose evidence it has argued with (_build_missing_evidence_report works
\* with the same filtered lists as the agents).
MissingAgreesWithArguments ==
    \A r \in Parties, i \in Issues :
        <<r, i>> \in result.missing =>
            BestArguments(r, output) \cap EvidenceOf[i] = {}

\* The job tells how the run has ended: completed exactly for a finished debate,
\* failed for a failed one unless it was cancelled before, and always with the
\* fields that Job requires (RoundEngine.run, Job.model_validator).
JobTellsOutcome ==
    driver = "engine" =>
        /\ phase # "idle" => WellFormed(job)
        /\ job.status = "completed" <=> phase = "done"
        /\ job.status = "failed" => phase = "failed"
        /\ phase = "failed" => job.status \in {"failed", "cancelled"}

\* What the file of the job has told stays told: an operator cancels or pends the
\* job while agents wait, and neither a late answer, a failure, a progress report
\* nor the end of the run overwrites an outcome; nor does the progress that is
\* shown ever fall back (JobManager._transition, update_progress).
OutcomeIsFinal ==
    [][/\ job.status \in Terminal => job' = job
       /\ job.progress <= job'.progress]_vars

\* A debate that has begun ends, and leaves no agent running.
DebateEnds == phase # "idle" ~> phase \in {"done", "failed"} /\ active = {}
=============================================================================
