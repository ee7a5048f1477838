--------------------------- MODULE ProgressStream ---------------------------
(***************************************************************************)
(* GET /api/cases/{case_id}/analysis: the SSE streams on the progress of   *)
(* one analysis.  The analysis task appends each message to the list       *)
(* record.progress and to the queue record._progress_queue, from which all *)
(* streams of the case take; a stream first replays the list.              *)
(*                                                                         *)
(* A stream is an async generator: other coroutines run whenever it sends  *)
(* a message or waits for one.  A ping changes nothing and is left out.    *)
(***************************************************************************)
EXTENDS Naturals, Sequences, FiniteSets

CONSTANTS
    Clients,        \* browsers and scripts that may open a stream
    Together,       \* streams that are open at the same time
    MaxMessages,    \* bound on the messages of the analysis
    MaxVisits       \* bound on the streams that one client opens

ASSUME StreamAssumption ==
    /\ Together \in Nat \ {0}
    /\ MaxMessages \in Nat \ {0}
    /\ MaxVisits \in Nat

VARIABLES
    status,     \* record.status; "ready" stands for extracted and confirmed
    logged,     \* Len(record.progress); message i is the i-th of the analysis
    queue,      \* record._progress_queue
    stream      \* stream[c]: the latest stream of client c

streamVars == <<status, logged, queue, stream>>

End == 0                    \* the sentinel None
Stale == MaxMessages + 1    \* a message of the extraction, which nobody reads
Message == 1..MaxMessages

\* "away": none open; "answered": refused, or told the outcome at once;
\* "ended": told the outcome after the messages.
Where == {"away", "answered", "replay", "live", "ended"}
NoStream == [at |-> "away", pos |-> 0, got |-> <<>>, told |-> "nothing", visits |-> 0]

Open == {c \in Clients : stream[c].at \in {"replay", "live"}}

----------------------------------------------------------------------------
(* The analysis *)

\* Mutant: the queue of the extraction, with its sentinel, is used again.
StartAnalysis_KeepsQueue ==
    /\ status = "ready"
    /\ status' = "analyzing" /\ logged' = 0
    /\ UNCHANGED <<queue, stream>>

\* _try_start.
StartAnalysis ==
    /\ status = "ready"
    /\ status' = "analyzing" /\ logged' = 0 /\ queue' = <<>>
    /\ UNCHANGED stream

\* Mutant: a message goes to the queue only.
Log_QueueOnly ==
    /\ status = "analyzing" /\ logged + 1 < MaxMessages
    /\ queue' = Append(queue, logged + 1)
    /\ UNCHANGED <<status, logged, stream>>

\* CaseRecord.log, between two awaits of run_analysis.
Log ==
    /\ status = "analyzing" /\ logged + 1 < MaxMessages
    /\ logged' = logged + 1
    /\ queue' = Append(queue, logged + 1)
    /\ UNCHANGED <<status, stream>>

\* Mutant: the sentinel is sent by the last line of the try block.
Finish_SignalsSuccess ==
    /\ status = "analyzing"
    /\ status' \in {"analyzed", "failed"}
    /\ logged' = logged + 1
    /\ queue' = queue \o IF status' = "analyzed" THEN <<logged + 1, End>> ELSE <<logged + 1>>
    /\ UNCHANGED stream

\* The end of run_analysis: no await from the new status to the sentinel.
Finish ==
    /\ status = "analyzing"
    /\ status' \in {"analyzed", "failed"}
    /\ logged' = logged + 1
    /\ queue' = queue \o <<logged + 1, End>>
    /\ UNCHANGED stream

----------------------------------------------------------------------------
(* stream_analysis, event_stream *)

Outcome == IF status = "analyzed" THEN "done" ELSE "error"

Attach(c) ==
    /\ stream[c].at \in {"away", "answered", "ended"}
    /\ stream[c].visits < MaxVisits
    /\ Cardinality(Open) < Together
    /\ stream' = [stream EXCEPT ![c] =
            [at |-> IF status = "analyzing" THEN "replay" ELSE "answered",
             pos |-> 0, got |-> <<>>,
             told |-> IF status = "analyzing" THEN "nothing" ELSE Outcome,
             visits |-> @.visits + 1]]
    /\ UNCHANGED <<status, logged, queue>>

\* The list is read as it grows.
Replay(c) ==
    /\ stream[c].at = "replay" /\ stream[c].pos < logged
    /\ stream' = [stream EXCEPT ![c].pos = @ + 1, ![c].got = Append(@, stream[c].pos + 1)]
    /\ UNCHANGED <<status, logged, queue>>

EndReplay(c) ==
    /\ stream[c].at = "replay" /\ stream[c].pos = logged
    /\ stream' = IF status \in {"analyzed", "failed"}
                 THEN [stream EXCEPT ![c].at = "ended", ![c].told = Outcome]
                 ELSE [stream EXCEPT ![c].at = "live"]
    /\ UNCHANGED <<status, logged, queue>>

Take(c) ==
    /\ stream[c].at = "live" /\ queue # <<>>
    /\ queue' = Tail(queue)
    /\ stream' = IF Head(queue) = End
                 THEN [stream EXCEPT ![c].at = "ended", ![c].told = Outcome]
                 ELSE [stream EXCEPT ![c].got = Append(@, Head(queue))]
    /\ UNCHANGED <<status, logged>>

\* The client goes away and the server cancels the generator at its await.
Disconnect(c) ==
    /\ c \in Open
    /\ stream' = [stream EXCEPT ![c] = [NoStream EXCEPT !.visits = stream[c].visits]]
    /\ UNCHANGED <<status, logged, queue>>

----------------------------------------------------------------------------
StreamInit ==
    /\ status = "ready" /\ logged = 0
    /\ queue = <<Stale, End>>
    /\ stream = [c \in Clients |-> NoStream]

Send(c) == Replay(c) \/ EndReplay(c) \/ Take(c)

----------------------------------------------------------------------------
(* Properties *)

\* Every variable keeps the shape the code gives it.
StreamTypeOK ==
    /\ status \in {"ready", "analyzing", "analyzed", "failed"}
    /\ logged \in 0..MaxMessages
    /\ queue \in Seq(0..MaxMessages + 1)
    /\ stream \in [Clients -> [at : Where, pos : 0..MaxMessages, got : Seq(Message),
                               told : {"nothing", "done", "error"}, visits : 0..MaxVisits]]

\* What a client has received, with the repetitions taken out, is the beginning
\* of the log without a hole; a stream that ends has received all of it
\* (iter_progress).  Only true when one stream at a time takes from the queue.
Received(c) == {stream[c].got[i] : i \in DOMAIN stream[c].got}
NoHoles ==
    \A c \in Clients :
        /\ \E n \in 0..logged : Received(c) = 1..n
        /\ stream[c].at = "ended" => Received(c) = 1..logged

\* A stream that ends tells how the analysis ended, and only then: no sentinel of
\* an earlier task ends it (run_analysis: "the sentinel of extract may still be
\* there").
ToldTheOutcome ==
    \A c \in Clients :
        stream[c].at = "ended" =>
            /\ status \in {"analyzed", "failed"}
            /\ stream[c].told = Outcome

\* Every stream that is opened comes to an end (_signal_done: "send the
\* termination signal to the SSE stream").  Not so when two share the queue.
EveryStreamEnds == \A c \in Clients : c \in Open ~> c \notin Open
=============================================================================
