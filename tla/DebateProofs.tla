---------------------------- MODULE DebateProofs ----------------------------
(***************************************************************************)
(* Proofs about Debate: any evidence in the four domains, any issues and   *)
(* any number of retries, under both drivers and whatever other users do   *)
(* to the job.                                                             *)
(***************************************************************************)
EXTENDS Debate, TLAPS

\* Who waits for the LLM, and who has not been asked yet.
Flow ==
    /\ phase = "idle" => /\ active = {} /\ result = NoResult
                         /\ output = [x \in AgentCalls |-> NoOutput]
    /\ phase = "done" => active = {}
    /\ phase = "running" => \A x \in active : output[x] = NoOutput

\* No call that may be made again has used up its attempts.
Attempted == \A x \in AgentCalls : phase # "failed" \/ x \in active => calls[x] < Attempts(x)

\* What the agents argue with.
Record == \A x \in PartyCalls : output[x].cites \subseteq Visible(Agent(x))

\* The result is that of the outputs, which do not change any more.
Final ==
    \/ result = NoResult
    \/ /\ result = ResultOf(output)
       /\ phase = "running" => active \cap (PartyCalls \cup {"ev"}) = {}

\* The job follows the run; only another user can have taken it away.
JobFollows ==
    /\ driver = "script" \/ phase = "idle" => job = NoJob
    /\ driver = "engine" /\ phase = "running" => job.status \in {"running", "pending", "cancelled"}
    /\ JobTellsOutcome

\* What TypeOK says of the job.
JobType == [status : JobStatus \cup {"none"}, progress : 0..3,
            result : BOOLEAN, error : BOOLEAN]

\* The inductive invariant.
Sound == TypeOK /\ Flow /\ Attempted /\ Record /\ Final /\ JobFollows

----------------------------------------------------------------------------
\* There are two attempts or more at the summary and one or more at the rest.
LEMMA AttemptsType == \A x \in AgentCalls : Attempts(x) \in 1..MaxRetries + 1
BY DebateAssumption DEF DebateAssumption, Attempts

\* The agents that may be called next are agents.
LEMMA FollowingType == \A done : Following(done) \subseteq AgentCalls
BY DEF Following, AgentCalls, PartyCalls, Claims, Rebuttals

\* The result of well-formed outputs is well-formed.
LEMMA ResultType ==
    ASSUME NEW out \in [AgentCalls -> [cites : SUBSET (Evidence \cup MadeUp),
                                       conflicts : SUBSET Issues]]
    PROVE  ResultOf(out) \in [plaintiff : SUBSET (Evidence \cup MadeUp),
                              defendant : SUBSET (Evidence \cup MadeUp),
                              unresolved : SUBSET Issues, missing : SUBSET (Parties \X Issues)]
<1>1. \A x \in AgentCalls : out[x].cites \subseteq Evidence \cup MadeUp /\ out[x].conflicts \subseteq Issues
  OBVIOUS
<1>2. PartyCalls \subseteq AgentCalls /\ "ev" \in AgentCalls
  BY DEF AgentCalls
<1>3. \A r : BestArguments(r, out) \subseteq Evidence \cup MadeUp
  BY <1>1, <1>2 DEF BestArguments
<1>4. Unresolved(out["ev"].conflicts) \subseteq Issues
  BY <1>1, <1>2, DebateAssumption DEF Unresolved, DebateAssumption
<1>5. {m \in Parties \X Issues : m[2] \in MissingFor(m[1])} \subseteq Parties \X Issues
  OBVIOUS
<1> QED BY <1>3, <1>4, <1>5 DEF ResultOf

\* A new job and a completed one are jobs.
LEMMA CreatedType == Created \in JobType
BY DEF Created, JobType, JobStatus

\* A job that has completed is still a job.
LEMMA CompletedType == ASSUME NEW j \in JobType PROVE Completed(j) \in JobType
<1>1. "completed" \in JobStatus /\ 3 \in 0..3
  BY DEF JobStatus, Terminal
<1> QED BY <1>1 DEF Completed, JobType

\* The progress of a job after a round.
LEMMA ProgressType == \A done : ProgressAfter(done) \in 0..2
BY DEF ProgressAfter

----------------------------------------------------------------------------
\* What raises ends the run: the job fails with it, unless it was cancelled.
LEMMA RaisesKeeps ==
    ASSUME TypeOK, JobFollows, phase = "running", NEW x, Raises(x), driver' = driver
    PROVE  /\ phase' = "failed" /\ active' = active \ {x}
           /\ job' \in JobType
           /\ JobFollows'
<1>1. phase' = "failed" /\ active' = active \ {x}
  BY DEF Raises
<1>2. CASE driver = "script"
  BY <1>1, <1>2 DEF Raises, JobFollows, JobTellsOutcome, TypeOK, JobType
<1>3. CASE driver = "engine"
  <2>1. job.status \in {"running", "pending", "cancelled"} /\ WellFormed(job)
    BY <1>3 DEF JobFollows, JobTellsOutcome
  <2>2. CASE job.status = "cancelled"
    <3>1. job' = job
      BY <2>2 DEF Raises, May, ValidTransitions
    <3> QED BY <1>1, <1>3, <2>1, <2>2, <3>1 DEF JobFollows, JobTellsOutcome, TypeOK, JobType
  <2>3. CASE job.status \in {"running", "pending"}
    <3>1. job' = Failed(job)
      BY <1>3, <2>3 DEF Raises, May, ValidTransitions
    <3>2. job' \in JobType
      BY <3>1 DEF TypeOK, Failed, JobStatus, Terminal, JobType
    <3>3. job'.status = "failed" /\ WellFormed(job')
      BY <2>1, <2>3, <3>1 DEF TypeOK, Failed, WellFormed, JobType
    <3> QED BY <1>1, <1>3, <3>2, <3>3 DEF JobFollows, JobTellsOutcome
  <2> QED BY <2>1, <2>2, <2>3
<1> QED BY <1>2, <1>3 DEF TypeOK, JobType

\* The calls that a return leads to are made with nothing returned yet.
LEMMA BeginKeeps ==
    ASSUME TypeOK, NEW done \in SUBSET AgentCalls, Begin(done)
    PROVE  active' \subseteq AgentCalls /\ active' \cap done = {}
BY FollowingType DEF Begin, TypeOK

----------------------------------------------------------------------------
\* Before the run.
LEMMA InitSound == Init => Sound
<1> SUFFICES ASSUME Init PROVE Sound
  OBVIOUS
<1>1. TypeOK
  <2>1. NoOutput \in [cites : SUBSET (Evidence \cup MadeUp), conflicts : SUBSET Issues]
    BY DEF NoOutput
  <2>2. NoJob \in JobType
    BY CreatedType DEF NoJob, JobType
  <2>3. 0 \in 0..MaxRetries + 1
    BY DebateAssumption DEF DebateAssumption
  <2> QED BY <2>1, <2>2, <2>3 DEF Init, TypeOK, NoResult, JobType
<1>2. Flow /\ Record /\ Final
  BY DEF Init, Flow, Record, Final, NoOutput, PartyCalls, Rebuttals, AgentCalls, NoResult
<1>3. Attempted
  BY AttemptsType DEF Init, Attempted
<1>4. JobFollows
  BY DEF Init, JobFollows, JobTellsOutcome, NoJob, Created
<1> QED BY <1>1, <1>2, <1>3, <1>4 DEF Sound

\* A step that changes the phase, the waiting calls and the counts only, as a failed
\* attempt does, keeps what is said of the outputs.
LEMMA FailureKeeps ==
    ASSUME Sound, phase \in {"running", "failed"},
           phase' = phase \/ phase' = "failed", active' \subseteq active,
           UNCHANGED <<driver, output, result>>
    PROVE  Flow' /\ Record' /\ Final'
<1>1. Flow'
  BY DEF Sound, Flow
<1>2. Record'
  BY DEF Sound, Record, Visible, OwnPrivate
<1>3. Final'
  BY DEF Sound, Final, ResultOf, BestArguments, Unresolved, MissingFor, Visible, OwnPrivate
<1> QED BY <1>1, <1>2, <1>3

\* What a call that raises for good leaves behind.
LEMMA GivesUpKeeps ==
    ASSUME Sound, NEW x \in active, GivesUp(x), UNCHANGED <<driver, output, result>>
    PROVE  /\ phase \in {"running", "failed"} /\ phase' = "failed" /\ active' = active \ {x}
           /\ job' \in JobType
           /\ Flow' /\ Record' /\ Final' /\ JobFollows'
<1>1. phase \in {"running", "failed"}
  BY DEF Sound, Flow, TypeOK, JobType
<1>2. CASE phase = "running"
  <2>1. Raises(x)
    BY <1>2 DEF GivesUp
  <2> QED BY <1>1, <1>2, <2>1, RaisesKeeps, FailureKeeps DEF Sound
<1>3. CASE phase = "failed"
  <2>1. phase' = phase /\ active' = active \ {x} /\ job' = job
    BY <1>3 DEF GivesUp
  <2>2. JobFollows'
    BY <2>1 DEF Sound, JobFollows, JobTellsOutcome, WellFormed
  <2> QED BY <1>1, <1>3, <2>1, <2>2, FailureKeeps DEF Sound, TypeOK, JobType
<1> QED BY <1>1, <1>2, <1>3

\* The return of an agent, with whatever comes of it.
LEMMA ProceedKeeps ==
    ASSUME Sound, phase = "running",
           NEW x \in active, x # "summary",
           NEW o \in [cites : SUBSET (Evidence \cup MadeUp), conflicts : SUBSET Issues],
           x \in PartyCalls => o.cites \subseteq Visible(Agent(x)),
           Proceed(x, o), UNCHANGED <<driver, calls>>
    PROVE  Sound'
<1> DEFINE done == Returned \cup {x}
           reports == driver = "engine" /\ ProgressAfter(done) > 0
           refused == reports /\ ~TakesProgress(job)
<1>a. x \in AgentCalls /\ done \in SUBSET AgentCalls
  BY DEF Sound, TypeOK, Returned, JobType
<1>b. output' = [output EXCEPT ![x] = o]
  BY DEF Proceed
<1>c. result' = IF done = PartyCalls \cup {"ev"} THEN ResultOf(output') ELSE result
  BY <1>b DEF Proceed
<1>d. output' \in [AgentCalls -> [cites : SUBSET (Evidence \cup MadeUp), conflicts : SUBSET Issues]]
  BY <1>a, <1>b DEF Sound, TypeOK, JobType
<1>e. /\ result' \in [plaintiff : SUBSET (Evidence \cup MadeUp),
                      defendant : SUBSET (Evidence \cup MadeUp),
                      unresolved : SUBSET Issues, missing : SUBSET (Parties \X Issues)]
      /\ \A y \in PartyCalls : output'[y].cites \subseteq Visible(Agent(y))'
  <2>1. \A y \in PartyCalls : output'[y].cites \subseteq Visible(Agent(y))
    BY <1>a, <1>b DEF Sound, TypeOK, Record, AgentCalls, JobType
  <2>2. \A r : Visible(r)' = Visible(r)
    BY DEF Visible, OwnPrivate
  <2> QED BY <1>c, <1>d, <2>1, <2>2, ResultType DEF Sound, TypeOK, JobType
\* Until now there was no result if x counts for it.
<1>f. result = NoResult
  <2>1. x \in PartyCalls \cup {"ev"}
    BY <1>a DEF AgentCalls
  <2> QED BY <2>1 DEF Sound, Final
<1>g. /\ phase' \in {"running", "failed"} /\ active' \subseteq AgentCalls
      /\ job' \in JobType
      /\ phase' = "running" => active' \cap done = {}
      /\ phase' = "failed" => active' \subseteq active
      /\ JobFollows'
  <2>1. CASE refused
    <3>1. Raises(x)
      BY <2>1 DEF Proceed
    <3> QED BY <2>1, <3>1, RaisesKeeps DEF Sound, TypeOK, JobType
  <2>2. CASE ~refused
    <3>1. /\ job' = IF reports THEN [job EXCEPT !.progress = ProgressAfter(done)] ELSE job
          /\ Begin(done) /\ phase' = phase
      BY <2>2 DEF Proceed
    <3>2. job' \in JobType
      BY <3>1, ProgressType DEF Sound, TypeOK, JobType
    <3>3. JobFollows'
      <4>1. CASE reports
        <5>1. job.status \in {"running", "pending"} /\ driver = "engine"
          BY <2>2, <4>1 DEF TakesProgress
        <5>2. ProgressAfter(done) \in 0..2
          BY ProgressType
        <5>3. job'.status = job.status /\ WellFormed(job')
          BY <3>1, <4>1, <5>1, <5>2 DEF Sound, TypeOK, JobFollows, JobTellsOutcome, WellFormed, JobType
        <5> QED BY <3>1, <5>1, <5>3 DEF Sound, JobFollows, JobTellsOutcome
      <4>2. CASE ~reports
        BY <3>1, <4>2 DEF Sound, JobFollows, JobTellsOutcome, WellFormed
      <4> QED BY <4>1, <4>2
    <3> QED BY <1>a, <3>1, <3>2, <3>3, BeginKeeps DEF Sound
  <2> QED BY <2>1, <2>2
<1>1. TypeOK'
  BY <1>d, <1>e, <1>g DEF Sound, TypeOK, JobType
<1>2. Flow'
  <2>1. ASSUME phase' = "running", NEW y \in active' PROVE output'[y] = NoOutput
    <3>1. y \in AgentCalls /\ y # x /\ y \notin Returned
      BY <1>g, <2>1
    <3> QED BY <1>b, <3>1 DEF Returned, Sound, TypeOK, JobType
  <2> QED BY <1>g, <2>1 DEF Flow
<1>3. Attempted'
  <2>1. \A y \in AgentCalls : calls[y] < Attempts(y)
    BY DEF Sound, Attempted
  <2> QED BY <2>1 DEF Attempted, Attempts
<1>4. Record'
  BY <1>e DEF Record
<1>5. Final'
  <2>1. ResultOf(output)' = ResultOf(output')
    BY DEF ResultOf, BestArguments, Unresolved, MissingFor, Visible, OwnPrivate
  <2>2. CASE done = PartyCalls \cup {"ev"}
    BY <1>c, <1>g, <2>1, <2>2 DEF Final
  <2>3. CASE done # PartyCalls \cup {"ev"}
    BY <1>c, <1>f, <2>3 DEF Final
  <2> QED BY <2>2, <2>3
<1> QED BY <1>1, <1>2, <1>3, <1>4, <1>5, <1>g DEF Sound

\* The summary is the last call and changes nothing that the result is made of.
LEMMA SummaryKeeps == ASSUME Sound, SummaryReturns PROVE Sound'
<1>1. /\ "summary" \in active /\ phase = "running" /\ "summary" \notin PartyCalls \cup {"ev"}
      /\ output' = [output EXCEPT !["summary"] = Summary]
      /\ UNCHANGED <<driver, calls, result>>
  BY DEF SummaryReturns, PartyCalls, Claims, Rebuttals
<1>2. \A y \in PartyCalls \cup {"ev"} : output'[y] = output[y]
  BY <1>1 DEF Sound, TypeOK, AgentCalls, JobType
<1>3. phase' \in {"done", "failed"} /\ active' \subseteq active => Record' /\ Final'
  <2> SUFFICES ASSUME phase' \in {"done", "failed"}, active' \subseteq active
               PROVE  Record' /\ Final'
    OBVIOUS
  <2>1. Record'
    BY <1>2 DEF Sound, Record, Visible, OwnPrivate
  <2>2. Final'
    <3>1. BestArguments("plaintiff_agent", output') = BestArguments("plaintiff_agent", output)
      BY <1>2 DEF BestArguments
    <3>2. BestArguments("defendant_agent", output') = BestArguments("defendant_agent", output)
      BY <1>2 DEF BestArguments
    <3>3. ResultOf(output') = ResultOf(output)
      BY <1>2, <3>1, <3>2 DEF ResultOf
    <3>4. ResultOf(output)' = ResultOf(output')
      BY DEF ResultOf, BestArguments, Unresolved, MissingFor, Visible, OwnPrivate
    <3> QED BY <1>1, <3>3, <3>4 DEF Sound, Final
  <2> QED BY <2>1, <2>2
<1>4. Summary \in [cites : SUBSET (Evidence \cup MadeUp), conflicts : SUBSET Issues]
  BY DEF Summary
<1>5. output' \in [AgentCalls -> [cites : SUBSET (Evidence \cup MadeUp), conflicts : SUBSET Issues]]
  BY <1>1, <1>4 DEF Sound, TypeOK, JobType
<1>6. /\ phase' \in {"done", "failed"} /\ active' \subseteq active
      /\ phase' = "done" => active' = {}
      /\ job' \in JobType
      /\ JobFollows'
  <2>1. CASE driver = "engine" /\ ~May(job, "completed")
    <3>1. Raises("summary")
      BY <2>1 DEF SummaryReturns
    <3> QED BY <1>1, <3>1, RaisesKeeps DEF Sound, JobType
  <2>2. CASE driver = "engine" /\ May(job, "completed")
    <3>1. job' = Completed(job) /\ phase' = "done" /\ active' = {}
      BY <2>2 DEF SummaryReturns
    <3>2. job' \in JobType
      BY <3>1, CompletedType DEF Sound, TypeOK, JobType
    <3>3. job'.status = "completed" /\ WellFormed(job')
      BY <3>1 DEF Sound, TypeOK, Completed, WellFormed, JobType
    <3> QED BY <1>1, <2>2, <3>1, <3>2, <3>3 DEF JobFollows, JobTellsOutcome
  <2>3. CASE driver # "engine"
    <3>1. driver = "script" /\ job' = job /\ phase' = "done" /\ active' = {}
      BY <2>3 DEF SummaryReturns, Sound, TypeOK, JobType
    <3> QED BY <1>1, <3>1 DEF Sound, TypeOK, JobFollows, JobTellsOutcome, JobType
  <2> QED BY <2>1, <2>2, <2>3
<1>7. TypeOK'
  BY <1>1, <1>5, <1>6 DEF Sound, TypeOK, JobType
<1>8. Flow'
  BY <1>6 DEF Flow
<1>9. Attempted'
  BY <1>1, <1>6 DEF Sound, Attempted, Attempts
<1> QED BY <1>3, <1>6, <1>7, <1>8, <1>9 DEF Sound

\* Another user moves the job, never out of a run's reach except by cancelling it.
LEMMA OperatorKeeps == ASSUME Sound, OperatorMoves PROVE Sound'
<1>1. PICK new \in {"pending", "running", "cancelled"} :
          job' = IF new = "cancelled" THEN Cancelled(job) ELSE Moved(job, new)
  BY DEF OperatorMoves
<1>2. /\ job.status \in {"running", "pending"}
      /\ UNCHANGED <<driver, phase, calls, active, output, result>>
  BY DEF OperatorMoves
<1>3. driver = "engine" /\ phase = "running" /\ WellFormed(job)
  <2>1. job # NoJob
    BY <1>2 DEF NoJob, Created
  <2> QED BY <1>2, <2>1 DEF Sound, TypeOK, JobFollows, JobTellsOutcome, JobType
<1>4. /\ job' \in JobType
      /\ job'.status \in {"running", "pending", "cancelled"}
  BY <1>1 DEF Sound, TypeOK, Cancelled, Moved, JobStatus, Terminal, JobType
<1>5. WellFormed(job')
  BY <1>1, <1>2, <1>3, <1>4 DEF Sound, TypeOK, WellFormed, Cancelled, Moved, JobType
<1>6. JobFollows'
  BY <1>2, <1>3, <1>4, <1>5 DEF JobFollows, JobTellsOutcome
<1>7. TypeOK' /\ Flow' /\ Attempted'
  BY <1>2, <1>4 DEF Sound, TypeOK, Flow, Attempted, Attempts, JobType
<1>8. Record' /\ Final'
  BY <1>2, <1>3, FailureKeeps DEF Sound
<1> QED BY <1>6, <1>7, <1>8 DEF Sound

\* The beginning of the run.
LEMMA StartKeeps == ASSUME Sound, StartRun PROVE Sound'
<1>1. /\ phase = "idle" /\ phase' = "running" /\ active = {} /\ result = NoResult /\ result' = result
      /\ output' = [x \in AgentCalls |-> NoOutput] /\ output' = output
      /\ driver' = driver /\ calls' = calls /\ Begin({})
      /\ job = NoJob /\ job' = IF driver = "engine" THEN Moved(Created, "running") ELSE NoJob
  BY DEF StartRun, Sound, Flow, JobFollows
<1>2. active' \subseteq AgentCalls
  BY <1>1, BeginKeeps DEF Sound
<1>3. /\ job' \in JobType
      /\ driver = "engine" => job'.status = "running" /\ WellFormed(job')
  <2>1. Moved(Created, "running") \in JobType
    BY CreatedType DEF Moved, JobType, JobStatus
  <2>2. NoJob \in JobType
    BY CreatedType DEF NoJob, JobType
  <2>3. Moved(Created, "running").status = "running" /\ WellFormed(Moved(Created, "running"))
    BY CreatedType DEF Moved, JobType, WellFormed, Created
  <2>4. CASE driver = "engine"
    <3>1. job' = Moved(Created, "running")
      BY <1>1, <2>4
    <3> QED BY <2>1, <2>3, <3>1
  <2>5. CASE driver # "engine"
    <3>1. job' = NoJob
      BY <1>1, <2>5
    <3> QED BY <2>2, <2>5, <3>1
  <2> QED BY <2>4, <2>5
<1>4. TypeOK'
  BY <1>1, <1>2, <1>3 DEF Sound, TypeOK, JobType
<1>5. Flow' /\ Final' /\ Attempted'
  BY <1>1, <1>2 DEF Sound, Flow, Final, Attempted, Attempts
<1>6. Record'
  <2>1. \A x \in PartyCalls : x \in AgentCalls
    BY DEF AgentCalls
  <2>2. \A x \in PartyCalls : output'[x].cites \subseteq Visible(Agent(x))'
    BY <1>1, <2>1 DEF NoOutput
  <2> QED BY <2>2 DEF Record
<1>7. JobFollows'
  BY <1>1, <1>3 DEF Sound, TypeOK, JobFollows, JobTellsOutcome, JobType
<1> QED BY <1>4, <1>5, <1>6, <1>7 DEF Sound

----------------------------------------------------------------------------
\* Every step keeps the invariant.
LEMMA SoundStep == Sound /\ [Next]_vars => Sound'
<1> SUFFICES ASSUME Sound, [Next]_vars PROVE Sound'
  OBVIOUS
<1>1. CASE StartRun
  BY <1>1, StartKeeps
<1>2. CASE SummaryReturns
  BY <1>2, SummaryKeeps
<1>3. CASE OperatorMoves
  BY <1>3, OperatorKeeps
<1>4. CASE ManagerReturns
  <2>1. PICK a \in ManagerAnswers : Proceed("ev", a)
    BY <1>4 DEF ManagerReturns
  <2>2. a \in [cites : SUBSET (Evidence \cup MadeUp), conflicts : SUBSET Issues]
    BY DEF ManagerAnswers
  <2>3. "ev" \in active /\ phase = "running" /\ UNCHANGED <<driver, calls>> /\ "ev" \notin PartyCalls
    BY <1>4 DEF ManagerReturns, PartyCalls, Claims, Rebuttals
  <2> QED BY <2>1, <2>2, <2>3, ProceedKeeps
<1>5. ASSUME NEW x \in AgentCalls, PartyReturns(x) PROVE Sound'
  <2>1. PICK a \in PartyAnswers : Accepted(x, a) /\ Proceed(x, a)
    BY <1>5 DEF PartyReturns
  <2>2. a \in [cites : SUBSET (Evidence \cup MadeUp), conflicts : SUBSET Issues]
    BY DEF PartyAnswers
  <2>3. x \in active /\ x # "summary" /\ phase = "running" /\ UNCHANGED <<driver, calls>>
    BY <1>5 DEF PartyReturns, PartyCalls, Claims, Rebuttals
  <2>4. a.cites \subseteq Visible(Agent(x))
    BY <2>1 DEF Accepted
  <2> QED BY <2>1, <2>2, <2>3, <2>4, ProceedKeeps
<1>6. ASSUME NEW x \in AgentCalls, AttemptFails(x) PROVE Sound'
  <2>1. x \in active /\ Retry(x) /\ UNCHANGED <<driver, output, result>>
    BY <1>6 DEF AttemptFails
  <2>2. calls[x] \in 0..MaxRetries + 1 /\ calls[x] < Attempts(x) /\ phase \in {"running", "failed"}
    BY <2>1 DEF Sound, TypeOK, Flow, Attempted, JobType
  <2>3. calls' = [calls EXCEPT ![x] = calls[x] + 1] /\ calls' \in [AgentCalls -> 0..MaxRetries + 1]
    BY <2>1, <2>2, AttemptsType, DebateAssumption DEF Retry, Sound, TypeOK, DebateAssumption, JobType
  <2>4. CASE calls[x] + 1 < Attempts(x)
    <3>1. UNCHANGED <<phase, job, active>>
      BY <2>1, <2>4 DEF Retry
    <3>2. Flow' /\ Record' /\ Final'
      BY <2>1, <2>2, <3>1, FailureKeeps
    <3>3. TypeOK'
      BY <2>1, <2>3, <3>1 DEF Sound, TypeOK, JobType
    <3>4. JobFollows'
      BY <2>1, <3>1 DEF Sound, JobFollows, JobTellsOutcome, WellFormed
    <3>5. Attempted'
      BY <2>3, <2>4, <3>1 DEF Sound, TypeOK, Attempted, Attempts, JobType
    <3> QED BY <3>2, <3>3, <3>4, <3>5 DEF Sound
  <2>5. CASE ~(calls[x] + 1 < Attempts(x))
    <3>1. GivesUp(x)
      BY <2>1, <2>5 DEF Retry
    <3>2. /\ phase' = "failed" /\ active' = active \ {x}
          /\ job' \in JobType
          /\ Flow' /\ Record' /\ Final' /\ JobFollows'
      BY <2>1, <3>1, GivesUpKeeps
    <3>3. TypeOK'
      BY <2>1, <2>3, <3>2 DEF Sound, TypeOK, JobType
    <3>4. Attempted'
      BY <2>3, <3>2 DEF Sound, TypeOK, Attempted, Attempts, JobType
    <3> QED BY <3>2, <3>3, <3>4 DEF Sound
  <2> QED BY <2>4, <2>5
<1>7. ASSUME NEW x \in AgentCalls, AnswerUnreadable(x) PROVE Sound'
  <2>1. x \in active /\ GivesUp(x) /\ UNCHANGED <<driver, calls, output, result>>
    BY <1>7 DEF AnswerUnreadable
  <2>2. /\ phase' = "failed" /\ active' = active \ {x}
        /\ job' \in JobType
        /\ Flow' /\ Record' /\ Final' /\ JobFollows'
    BY <2>1, GivesUpKeeps
  <2>3. TypeOK'
    BY <2>1, <2>2 DEF Sound, TypeOK, JobType
  <2>4. Attempted'
    BY <2>1, <2>2 DEF Sound, Attempted, Attempts
  <2> QED BY <2>2, <2>3, <2>4 DEF Sound
<1>8. ASSUME NEW x \in AgentCalls, OrphanReturns(x) PROVE Sound'
  <2>1. /\ x \in active /\ phase = "failed" /\ active' = active \ {x}
        /\ UNCHANGED <<driver, phase, job, calls, output, result>>
    BY <1>8 DEF OrphanReturns
  <2>2. Flow' /\ Record' /\ Final'
    BY <2>1, FailureKeeps
  <2>3. TypeOK' /\ Attempted'
    BY <2>1 DEF Sound, TypeOK, Attempted, Attempts, JobType
  <2>4. JobFollows'
    BY <2>1 DEF Sound, JobFollows, JobTellsOutcome, WellFormed
  <2> QED BY <2>2, <2>3, <2>4 DEF Sound
<1>9. CASE UNCHANGED vars
  <2>1. TypeOK' /\ Flow' /\ Attempted'
    BY <1>9 DEF vars, Sound, TypeOK, Flow, Attempted, Attempts, JobType
  <2>2. Record'
    BY <1>9 DEF vars, Sound, Record, Visible, OwnPrivate
  <2>3. Final'
    BY <1>9 DEF vars, Sound, Final, ResultOf, BestArguments, Unresolved, MissingFor, Visible, OwnPrivate
  <2>4. JobFollows'
    BY <1>9 DEF vars, Sound, JobFollows, JobTellsOutcome, WellFormed
  <2> QED BY <2>1, <2>2, <2>3, <2>4 DEF Sound
<1> QED BY <1>1, <1>2, <1>3, <1>4, <1>5, <1>6, <1>7, <1>8, <1>9 DEF Next, RunStep, AgentStep

\* The inductive invariant holds.
LEMMA Invariance == Spec => []Sound
BY InitSound, SoundStep, PTL DEF Spec

----------------------------------------------------------------------------
\* Every variable of the debate keeps its type, for any number of retries.
THEOREM TypeCorrect == Spec => []TypeOK
<1>1. Sound => TypeOK
  BY DEF Sound
<1> QED BY <1>1, Invariance, PTL

\* No party ever argues with evidence that it may not see, whatever the LLM answers.
THEOREM OnlyVisibleCitedHolds == Spec => []OnlyVisibleCited
<1>1. ASSUME Sound PROVE OnlyVisibleCited
  <2>1. \A r : BestArguments(r, output) \subseteq Visible(r)
    BY <1>1 DEF Sound, Record, BestArguments
  <2>2. Visible("plaintiff_agent") \cap (DefendantPrivate \cup MadeUp) = {}
    BY DebateAssumption DEF DebateAssumption, Visible, OwnPrivate
  <2>3. Visible("defendant_agent") \cap (PlaintiffPrivate \cup MadeUp) = {}
    BY DebateAssumption DEF DebateAssumption, Visible, OwnPrivate
  <2>4. result.plaintiff \subseteq Visible("plaintiff_agent")
    BY <1>1, <2>1 DEF Sound, Final, ResultOf, NoResult
  <2>5. result.defendant \subseteq Visible("defendant_agent")
    BY <1>1, <2>1 DEF Sound, Final, ResultOf, NoResult
  <2> QED BY <1>1, <2>2, <2>3, <2>4, <2>5 DEF Sound, Record, OnlyVisibleCited
<1> QED BY <1>1, Invariance, PTL

\* The missing-evidence report never contradicts what a party has argued with.
THEOREM MissingAgreesWithArgumentsHolds == Spec => []MissingAgreesWithArguments
<1>1. ASSUME Sound PROVE MissingAgreesWithArguments
  <2> SUFFICES ASSUME NEW r \in Parties, NEW i \in Issues, <<r, i>> \in result.missing
               PROVE  BestArguments(r, output) \cap EvidenceOf[i] = {}
    BY DEF MissingAgreesWithArguments
  <2>1. BestArguments(r, output) \subseteq Visible(r)
    BY <1>1 DEF Sound, Record, BestArguments
  <2>2. i \in MissingFor(r)
    BY <1>1 DEF Sound, Final, ResultOf, NoResult
  <2> QED BY <2>1, <2>2 DEF MissingFor
<1> QED BY <1>1, Invariance, PTL

\* The job tells how the run has ended, whatever others have done to it.
THEOREM JobTellsOutcomeHolds == Spec => []JobTellsOutcome
<1>1. Sound => JobTellsOutcome
  BY DEF Sound, JobFollows
<1> QED BY <1>1, Invariance, PTL

\* The rounds that are still to be reported: OutcomeIsFinal needs to know that no
\* claim is waited for after the first report and no review after the second.
Reported ==
    phase = "running" =>
        /\ active \cap Claims # {} => job.progress = 0
        /\ "ev" \in active => job.progress <= 1

\* What one step may do to the file of the job.
Kept == (job.status \in Terminal => job' = job) /\ job.progress <= job'.progress

\* What raises leaves an outcome as it was.
LEMMA RaisesTells == ASSUME Sound, NEW x, Raises(x) PROVE Kept
<1>1. job \in JobType
  BY DEF Sound, TypeOK, JobType
<1>2. CASE driver = "engine" /\ May(job, "failed")
  BY <1>1, <1>2 DEF Raises, May, ValidTransitions, Terminal, Failed, JobType, Kept
<1>3. CASE ~(driver = "engine" /\ May(job, "failed"))
  BY <1>1, <1>3 DEF Raises, JobType, Kept
<1> QED BY <1>2, <1>3

\* Calls that fail, while nothing returns.
LEMMA FailuresTell ==
    ASSUME Sound, Reported, NEW x \in active,
           GivesUp(x) \/ UNCHANGED <<phase, job, active>>
    PROVE  Reported' /\ Kept
<1>1. job.progress <= job.progress
  BY DEF Sound, TypeOK, JobType
<1>2. CASE UNCHANGED <<phase, job, active>>
  BY <1>1, <1>2 DEF Reported, Kept
<1>3. CASE GivesUp(x) /\ phase = "running"
  BY <1>3, RaisesTells DEF GivesUp, Raises, Reported
<1>4. CASE GivesUp(x) /\ phase # "running"
  BY <1>1, <1>4 DEF GivesUp, Reported, Kept
<1> QED BY <1>2, <1>3, <1>4

\* A return reports the round that it ends, and that round only once.
LEMMA ProceedTells ==
    ASSUME Sound, Reported, phase = "running", NEW x \in active, NEW o, Proceed(x, o)
    PROVE  Reported' /\ Kept
<1> DEFINE done == Returned \cup {x}
           reports == driver = "engine" /\ ProgressAfter(done) > 0
<1>1. job \in JobType
  BY DEF Sound, TypeOK, JobType
<1>2. CASE reports /\ ~TakesProgress(job)
  BY <1>2, RaisesTells DEF Proceed, Raises, Reported
<1>3. CASE ~(reports /\ ~TakesProgress(job))
  <2>1. /\ job' = IF reports THEN [job EXCEPT !.progress = ProgressAfter(done)] ELSE job
        /\ active' = (active \cup Following(done)) \ done /\ phase' = phase
    BY <1>3 DEF Proceed, Begin
  <2>2. x \in Claims => job.progress = 0
    BY DEF Reported
  <2>3. x = "ev" => job.progress <= 1
    BY DEF Reported
  <2>4. "ev" \in Following(done) => done = Claims
    BY DEF Following, Rebuttals, Claims
  <2>5. Following(done) \cap Claims # {} => done = {"p_claim"}
    BY DEF Following, Rebuttals, Claims
  <2>6. CASE reports
    <3>1. done = Claims \/ done = Claims \cup {"ev"}
      BY <2>6 DEF ProgressAfter
    <3>2. job'.progress = ProgressAfter(done) /\ job.progress <= ProgressAfter(done)
      <4>1. x \in Claims \/ x = "ev"
        BY <3>1
      <4>2. CASE done = Claims
        <5>1. x \in Claims
          BY <4>2
        <5> QED BY <1>1, <2>1, <2>2, <2>6, <4>2, <5>1 DEF ProgressAfter, JobType
      <4>3. CASE done = Claims \cup {"ev"} /\ done # Claims
        BY <1>1, <2>1, <2>2, <2>3, <2>6, <4>1, <4>3 DEF ProgressAfter, JobType
      <4> QED BY <3>1, <4>2, <4>3
    <3>3. job.status \notin Terminal
      BY <1>3, <2>6 DEF TakesProgress, Terminal
    <3>4. active' \cap Claims = {}
      BY <2>1, <3>1
    <3>5. "ev" \in active' => job'.progress <= 1
      BY <2>1, <3>1, <3>2 DEF ProgressAfter
    <3> QED BY <3>2, <3>3, <3>4, <3>5 DEF Kept, Reported
  <2>7. CASE ~reports
    <3>1. job' = job /\ job.progress <= job.progress
      BY <1>1, <2>1, <2>7 DEF JobType
    <3>2. active' \cap Claims # {} => job.progress = 0
      <4>1. CASE active \cap Claims # {}
        BY <4>1 DEF Reported
      <4>2. CASE active \cap Claims = {}
        BY <2>1, <2>5, <4>2 DEF Claims
      <4> QED BY <4>1, <4>2
    <3>3. "ev" \in active' => job.progress <= 1
      <4>1. CASE "ev" \in active
        BY <4>1 DEF Reported
      <4>2. CASE "ev" \notin active
        <5>1. "ev" \in active' => x \in Claims
          BY <2>1, <2>4, <4>2
        <5> QED BY <2>2, <5>1
      <4> QED BY <4>1, <4>2
    <3> QED BY <3>1, <3>2, <3>3 DEF Kept, Reported
  <2> QED BY <2>6, <2>7
<1> QED BY <1>2, <1>3

\* Every step reports in order and leaves outcomes alone.
LEMMA StepTells == Sound /\ Reported /\ [Next]_vars => Reported' /\ [Kept]_vars
<1> SUFFICES ASSUME Sound, Reported, [Next]_vars PROVE Reported' /\ [Kept]_vars
  OBVIOUS
<1>a. job.progress <= job.progress
  BY DEF Sound, TypeOK, JobType
<1>1. CASE StartRun
  <2>1. /\ job = NoJob /\ active = {} /\ active' = Following({}) \ {}
        /\ job' = IF driver = "engine" THEN Moved(Created, "running") ELSE job
    BY <1>1 DEF StartRun, Begin, Sound, Flow, JobFollows
  <2>2. job.progress = 0 /\ job'.progress = 0 /\ job.status \notin Terminal
    BY <2>1 DEF NoJob, Moved, Created, Terminal
  <2> QED BY <2>2 DEF Reported, Kept
<1>2. CASE ManagerReturns
  BY <1>2, ProceedTells DEF ManagerReturns
<1>3. CASE SummaryReturns
  <2>1. CASE driver = "engine" /\ ~May(job, "completed")
    BY <1>3, <2>1, RaisesTells DEF SummaryReturns, Raises, Reported
  <2>2. CASE ~(driver = "engine" /\ ~May(job, "completed"))
    <3>1. /\ job' = IF driver = "engine" THEN Completed(job) ELSE job
          /\ phase' = "done"
      BY <1>3, <2>2 DEF SummaryReturns
    <3>2. CASE driver = "engine"
      BY <2>2, <3>1, <3>2 DEF May, ValidTransitions, Terminal, Completed, Sound, TypeOK, Reported, Kept
    <3>3. CASE driver # "engine"
      BY <1>a, <3>1, <3>3 DEF Reported, Kept
    <3> QED BY <3>2, <3>3
  <2> QED BY <2>1, <2>2
<1>4. ASSUME NEW x, AttemptFails(x) \/ AnswerUnreadable(x) PROVE Reported' /\ Kept
  BY <1>4, FailuresTell DEF AttemptFails, AnswerUnreadable, Retry
<1>5. ASSUME NEW x, PartyReturns(x) PROVE Reported' /\ Kept
  BY <1>5, ProceedTells DEF PartyReturns
<1>6. ASSUME NEW x, OrphanReturns(x) PROVE Reported' /\ Kept
  BY <1>a, <1>6 DEF OrphanReturns, Reported, Kept
<1>7. CASE OperatorMoves
  <2>1. PICK new \in {"pending", "running", "cancelled"} :
            job' = IF new = "cancelled" THEN Cancelled(job) ELSE Moved(job, new)
    BY <1>7 DEF OperatorMoves
  <2>2. job'.progress = job.progress
    BY <2>1 DEF Cancelled, Moved, Sound, TypeOK
  <2>3. job.status \notin Terminal /\ UNCHANGED <<phase, active>>
    BY <1>7 DEF OperatorMoves, Terminal
  <2> QED BY <1>a, <2>2, <2>3 DEF Reported, Kept
<1>8. CASE UNCHANGED vars
  BY <1>8 DEF vars, Reported
<1> QED BY <1>1, <1>2, <1>3, <1>4, <1>5, <1>6, <1>7, <1>8 DEF Next, RunStep, AgentStep

\* Nothing overwrites the outcome in the file of a job, and its progress never falls
\* back, whatever an operator does to it while agents wait.
THEOREM OutcomeIsFinalHolds == Spec => OutcomeIsFinal
<1>1. Init => Reported
  BY DEF Init, Reported
<1> QED BY <1>1, StepTells, Invariance, PTL DEF Spec, OutcomeIsFinal, Kept
=============================================================================
