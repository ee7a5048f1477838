------------------------- MODULE PretrialConference -------------------------
(***************************************************************************)
(* A board of evidence from the debate to the record, on either route:     *)
(* the CLI holds pretrial conferences (submission, cross-examination by    *)
(* two LLM calls, judge's questions), the API promotes what was cited.     *)
(* The answers of the LLM are arbitrary: they may name unknown evidence,   *)
(* evidence of the other batch or private evidence, carry values that do   *)
(* not validate, or never come.                                            *)
(***************************************************************************)
EXTENDS EvidenceLifecycle, Naturals

CONSTANTS
    Plaintiff, Defendant,
    Ghost,              \* an evidence id that does not exist
    MaxRetries,         \* max_retries of the cross-examination
    MaxOpinions,        \* bound on the opinions of one answer
    MaxConferences      \* bound on the conferences of one behaviour

ASSUME ConferenceAssumption ==
    /\ Plaintiff # Defendant
    /\ Parties = {Plaintiff, Defendant}
    /\ Ghost \notin Evidence
    /\ MaxRetries \in Nat /\ MaxOpinions \in Nat /\ MaxConferences \in Nat

VARIABLES
    board,      \* the evidence index
    route,      \* which program works on it: "cli" or "api"
    phase,      \* where the conference is
    attempt,    \* failed attempts of the current LLM call
    opinions,   \* all_opinions of this conference
    records,    \* its CrossExaminationRecords
    focus,      \* evidence on its focus list
    questions,  \* evidence that the judge's questions refer to
    conferences \* conferences begun so far

vars == <<board, route, phase, attempt, opinions, records, focus, questions, conferences>>

Verdict == {"accepted", "challenged", "reserved"}
Opinion == [ev : Evidence, verdict : Verdict, by : Parties]
Phase == {"idle", "plaintiff_batch", "defendant_batch", "resolve", "judge", "done", "raised"}

\* examiner_map
Opponent(p) == IF p = Plaintiff THEN Defendant ELSE Plaintiff

Submitted == {e \in Evidence : board[e].status = "submitted"}
Admitted == {e \in Evidence : board[e].status = "admitted_for_discussion"}
OwnedBy(p) == {e \in Evidence : Owner[e] = p}

\* One opinion of an answer; "invalid" stands for a dimension or verdict that is
\* not in its enumeration and for issue ids of which none is known.
RawOpinion == [ev : Evidence \cup {Ghost}, verdict : Verdict \cup {"invalid"}]
Answers == {{list[i] : i \in DOMAIN list} :
                list \in UNION {[1..n -> RawOpinion] : n \in 0..MaxOpinions}}

\* _parse_and_validate: any known evidence id passes, of whatever batch.
Validated(answer, examiner) ==
    {[ev |-> o.ev, verdict |-> o.verdict, by |-> examiner] :
        o \in {r \in answer : r.ev \in Evidence /\ r.verdict \in Verdict}}

----------------------------------------------------------------------------
(* The conference *)

\* run(), stage 1.  An id that its list's party does not own makes
\* bulk_submit raise, and nothing is kept.
StartConference(pIds, dIds) ==
    /\ route = "cli" /\ phase \in {"idle", "done"} /\ conferences < MaxConferences
    /\ LET first == BulkSubmit(board, Plaintiff, pIds)
       IN  IF BulkSubmitRaises(board, Plaintiff, pIds) \/ BulkSubmitRaises(first, Defendant, dIds)
           THEN phase' = "raised" /\ UNCHANGED board
           ELSE phase' = "plaintiff_batch" /\ board' = BulkSubmit(first, Defendant, dIds)
    /\ attempt' = 0 /\ opinions' = {} /\ records' = {} /\ focus' = {} /\ questions' = {}
    /\ conferences' = conferences + 1
    /\ UNCHANGED route

\* The batch of a phase, its examiner and the phase that follows.
BatchOf(ph) == Submitted \cap OwnedBy(IF ph = "plaintiff_batch" THEN Plaintiff ELSE Defendant)
ExaminerOf(ph) == IF ph = "plaintiff_batch" THEN Defendant ELSE Plaintiff
After(ph) == IF ph = "plaintiff_batch" THEN "defendant_batch" ELSE "resolve"
Examining == phase \in {"plaintiff_batch", "defendant_batch"}

SkipBatch ==
    /\ Examining /\ BatchOf(phase) = {}
    /\ phase' = After(phase)
    /\ UNCHANGED <<board, route, attempt, opinions, records, focus, questions, conferences>>

\* _examine_batch: an attempt returns an answer that parses ...
BatchAnswered(answer) ==
    /\ Examining /\ BatchOf(phase) # {}
    /\ opinions' = opinions \cup Validated(answer, ExaminerOf(phase))
    /\ phase' = After(phase) /\ attempt' = 0
    /\ UNCHANGED <<board, route, records, focus, questions, conferences>>

\* Mutant: the retries start over instead of giving the batch up.
BatchFails_Endless ==
    /\ Examining /\ BatchOf(phase) # {}
    /\ attempt' = IF attempt < MaxRetries THEN attempt + 1 ELSE 0
    /\ UNCHANGED phase
    /\ UNCHANGED <<board, route, opinions, records, focus, questions, conferences>>

\* ... or fails; the last failure leaves the batch without opinions.
BatchFails ==
    /\ Examining /\ BatchOf(phase) # {}
    /\ IF attempt < MaxRetries
       THEN attempt' = attempt + 1 /\ UNCHANGED phase
       ELSE attempt' = 0 /\ phase' = After(phase)
    /\ UNCHANGED <<board, route, opinions, records, focus, questions, conferences>>

\* _build_records_and_transition.
Examined == {e \in Submitted : \E o \in opinions : o.ev = e}

\* Mutant: an acceptance outvotes the challenges.
Result_AnyAccepts(e) ==
    IF \E o \in opinions : o.ev = e /\ o.verdict = "accepted"
    THEN "admitted_for_discussion" ELSE "challenged"

\* One challenge decides; an opinion that is reserved counts for nothing.
Result(e) == IF \E o \in opinions : o.ev = e /\ o.verdict = "challenged"
             THEN "challenged" ELSE "admitted_for_discussion"

\* Mutant: a challenged item is admitted, the challenge lives in the record only.
Resolved_AlwaysAdmits(e) == Admit(board[e])
Resolved(e) == IF Result(e) = "challenged"
               THEN Challenge(board[e], Opponent(Owner[e])) ELSE Admit(board[e])

Resolve ==
    /\ phase = "resolve"
    /\ board' = [e \in Evidence |-> IF e \in Examined THEN Resolved(e) ELSE board[e]]
    /\ records' = {[ev |-> e, result |-> Result(e)] : e \in Examined}
    /\ focus' = {o.ev : o \in {p \in opinions : p.ev \in Examined /\ p.verdict = "challenged"}}
    /\ phase' = "judge"
    /\ UNCHANGED <<route, attempt, opinions, questions, conferences>>

\* Mutant: the judge's references are checked against the whole index.
JudgeAsks_AnyEvidence(asked) ==
    /\ phase = "judge"
    /\ questions' = asked \cap Evidence /\ phase' = "done"
    /\ UNCHANGED <<board, route, attempt, opinions, records, focus, conferences>>

\* Stage 3: questions about admitted evidence only; none when there is no
\* admitted evidence, no open issue or no usable answer (asked = {}).
JudgeAsks(asked) ==
    /\ phase = "judge"
    /\ questions' = asked \cap Admitted /\ phase' = "done"
    /\ UNCHANGED <<board, route, attempt, opinions, records, focus, conferences>>

----------------------------------------------------------------------------
(* The API's promotion of cited evidence (run_analysis, "Unit 4") *)

Promoted(item, e) ==
    CASE item.status = "private" -> Admit(Submit(item, Owner[e]))
      [] item.status \in {"submitted", "challenged"} -> Admit(item)
      [] OTHER -> item

PromoteCited(cited) ==
    /\ route = "api" /\ phase = "idle"
    /\ board' = [e \in Evidence |-> IF e \in cited THEN Promoted(board[e], e) ELSE board[e]]
    /\ phase' = "done"
    /\ UNCHANGED <<route, attempt, opinions, records, focus, questions, conferences>>

----------------------------------------------------------------------------
Init ==
    /\ board = [e \in Evidence |-> PrivateItem]
    /\ route \in {"cli", "api"} /\ phase = "idle" /\ attempt = 0
    /\ opinions = {} /\ records = {} /\ focus = {} /\ questions = {}
    /\ conferences = 0

ConferenceStep ==
    \/ SkipBatch
    \/ \E answer \in Answers : BatchAnswered(answer)
    \/ BatchFails
    \/ Resolve
    \/ \E asked \in SUBSET (Evidence \cup {Ghost}) : JudgeAsks(asked)

Next ==
    \/ \E pIds, dIds \in SUBSET Evidence : StartConference(pIds, dIds)
    \/ ConferenceStep
    \/ \E cited \in SUBSET Evidence : PromoteCited(cited)

\* A begun conference is one coroutine: it goes on until it returns.
Spec == Init /\ [][Next]_vars
FairSpec == Spec /\ WF_vars(ConferenceStep)

----------------------------------------------------------------------------
(* Properties *)

\* Every variable keeps the shape the code gives it.
TypeOK ==
    /\ board \in [Evidence -> Item]
    /\ route \in {"cli", "api"}
    /\ phase \in Phase
    /\ attempt \in 0..MaxRetries
    /\ opinions \subseteq Opinion
    /\ records \subseteq [ev : Evidence, result : {"challenged", "admitted_for_discussion"}]
    /\ focus \subseteq Evidence
    /\ questions \subseteq Evidence
    /\ conferences \in 0..MaxConferences

\* The access domain of an item follows from its status, whichever sequence of
\* calls brought it there, and only what its owner submitted has left private
\* (evidence_state_machine.py:8 "access_domain follows status").
BoardConsistent ==
    \A e \in Evidence :
        /\ board[e].domain = DomainMap[board[e].status]
        /\ board[e].submittedBy = IF board[e].status = "private" THEN NoParty ELSE Owner[e]
        /\ Owner[e] \notin board[e].challengedBy
        /\ board[e].status = "challenged" => board[e].challengedBy # {}

\* The record of a conference says what the index says: the outcome of each
\* recorded item is its status, and the focus list is what is contested.
RecordsMatchBoard ==
    phase \in {"judge", "done"} =>
        /\ \A r \in records : board[r.ev].status = r.result
        /\ focus = {r.ev : r \in {s \in records : s.result = "challenged"}}

\* Nothing private is disclosed by a conference, whatever ids the LLM makes up:
\* records, focus list and questions name evidence that was submitted, and the
\* questions only what is admitted (conference_engine.py:14).
NothingPrivateDisclosed ==
    /\ \A r \in records : board[r.ev].status # "private"
    /\ \A e \in focus : board[e].status # "private"
    /\ questions \subseteq Admitted

\* A conference admits an item only when answers of that very conference
\* came and judged it, and no opinion of either batch challenges it:
\* a failed call or a lost answer leaves it as it was, an objection is outvoted
\* by nothing and is final, for no later conference takes the item up again.
\* A reserved opinion does not stand in the way: see AdmittedOnlyIfAccepted.
SilenceIsNoConsent ==
    [][\A e \in Evidence :
         route = "cli" /\ board[e].status # "admitted_for_discussion"
             /\ board'[e].status = "admitted_for_discussion"
           => /\ phase = "resolve" /\ board[e].status = "submitted"
              /\ \E o \in opinions : o.ev = e
              /\ \A o \in opinions : o.ev = e => o.verdict # "challenged"]_vars

\* A conference that was begun returns, however often the LLM fails.
ConferenceEnds == Examining ~> phase = "done"

\* The audience of an item only widens.
Board == INSTANCE EvidenceBoard WITH audience <- [e \in Evidence |-> board[e].domain]
BoardSpec == Board!Spec

(* What the documents say and the code does not keep. *)

\* Evidence is judged by the opponent of its owner
\* (cross_examination_engine.py:7, "由对方通过 LLM 生成质证意见").
OpponentExamines ==
    \A r \in records : \A o \in opinions : o.ev = r.ev => o.by # Owner[r.ev]

\* All opinions accept what is admitted (cross_examination_engine.py:10 and :266,
\* "全部 accepted → admitted").  The code only looks for a challenge (:267-291): an
\* item on which every opinion is reserved is admitted.
AdmittedOnlyIfAccepted ==
    \A r \in records : r.result = "admitted_for_discussion" =>
        \A o \in opinions : o.ev = r.ev => o.verdict = "accepted"
=============================================================================
