---------------------------- MODULE CaseClients ----------------------------
(***************************************************************************)
(* What the clients of one case have going with one server process at the  *)
(* same time: progress streams on the analysis, then scenario and          *)
(* follow-up jobs on its result.  All of it is in the memory of the        *)
(* process, and one event loop runs it.                                    *)
(*                                                                         *)
(* CaseService models the case itself; here its status is that of the one  *)
(* analysis the streams are about.  A restart during an analysis is left   *)
(* to CaseService, whose run stuck_after_restart shows what comes of it.   *)
(***************************************************************************)
EXTENDS ProgressStream, BackgroundJobs

CONSTANTS MaxRestarts   \* bound on the restarts of the server

VARIABLES
    baseline,   \* outputs/<run_id> holds the issue tree and the evidence index
    restarts

vars == <<streamVars, jobVars, baseline, restarts>>

Init == StreamInit /\ JobsInit /\ baseline = FALSE /\ restarts = 0

\* Mutant: the baseline is written after the status is set.
AnalysisEnds_NoBaseline ==
    Finish /\ UNCHANGED <<jobVars, baseline, restarts>>

\* run_analysis writes the baseline before it sets the status; an analysis that
\* fails may have written it.
AnalysisEnds ==
    /\ Finish
    /\ baseline' \in {b \in BOOLEAN : status' = "analyzed" => b}
    /\ UNCHANGED <<jobVars, restarts>>

StreamStep ==
    /\ \/ StartAnalysis \/ Log
       \/ \E c \in Clients : Attach(c) \/ Send(c) \/ Disconnect(c)
    /\ UNCHANGED <<jobVars, baseline, restarts>>

Submit ==
    /\ JobSubmitted(status = "analyzed")
    /\ UNCHANGED <<streamVars, baseline, restarts>>

JobRuns ==
    /\ \/ \E j \in Followups : RunFollowup(j)
       \/ \E j \in Scenarios : ScenarioStep(j, baseline)
    /\ UNCHANGED <<streamVars, baseline, restarts>>

\* Connections and tables are gone; the restored record has a new queue and no
\* progress.
Restart ==
    /\ restarts < MaxRestarts /\ status # "analyzing"
    /\ restarts' = restarts + 1
    /\ JobsLost
    /\ stream' = [c \in Clients |-> [NoStream EXCEPT !.visits = stream[c].visits]]
    /\ logged' = 0 /\ queue' = <<>>
    /\ UNCHANGED <<status, baseline>>

Next == StreamStep \/ AnalysisEnds \/ Submit \/ JobRuns \/ Restart

Spec == Init /\ [][Next]_vars

\* The event loop runs every task and every open generator; calls have timeouts.
Fairness ==
    /\ WF_vars(Log /\ UNCHANGED <<jobVars, baseline, restarts>>) /\ WF_vars(AnalysisEnds)
    /\ \A c \in Clients : WF_vars(Send(c) /\ UNCHANGED <<jobVars, baseline, restarts>>)
    /\ \A j \in Followups : WF_vars(RunFollowup(j) /\ UNCHANGED <<streamVars, baseline, restarts>>)
    /\ \A j \in Scenarios :
          WF_vars(ScenarioStep(j, baseline) /\ UNCHANGED <<streamVars, baseline, restarts>>)

FairSpec == Spec /\ Fairness

----------------------------------------------------------------------------
(* Properties *)

\* Streams, tables, files and the baseline keep the shape the code gives them.
TypeOK == StreamTypeOK /\ JobsTypeOK /\ baseline \in BOOLEAN /\ restarts \in 0..MaxRestarts

\* What a completed job shows is what its file says, and the file passes
\* validate_scenario_result whatever the LLM has answered; a successful simulation
\* says something, names as affected exactly the issues it says something about, and
\* only evidence that the request changes and the baseline has (_build_result,
\* _run_scenario); the baseline is on disk for every job, also when the server was
\* restarted before the request.
DiffGrounded ==
    /\ (\E j \in Scenarios : scenario[j].status # "none") => status = "analyzed" /\ baseline
    /\ \A j \in Scenarios : scenario[j].status = "completed" =>
         /\ GetCaseScenario(j) = GetScenario(j) /\ scenario[j].change = result[j].change
         /\ ScenarioErrors(result[j]) = {}
         /\ result[j].status = "completed" <=> ScenarioWarnings(result[j]) = {}
         /\ scenario[j].affected = IssuesOf(scenario[j].diff)
         /\ scenario[j].evidence \subseteq ToSet(scenario[j].change) \cap result[j].inputs

\* Every job that was accepted is decided, unless its table is lost first.
EveryJobEnds ==
    /\ \A j \in Followups : followup[j] = "pending" ~> followup[j] # "pending"
    /\ \A j \in Scenarios :
          scenario[j].status \in {"pending", "running"} ~>
              scenario[j].status \notin {"pending", "running"}
=============================================================================
