---------------------------- MODULE ClientsProofs ----------------------------
(***************************************************************************)
(* Proofs about CaseClients: any clients and jobs, any number of messages, *)
(* visits and restarts.  That a stream misses nothing holds for            *)
(* Together = 1 only, and is stated under that condition.                  *)
(***************************************************************************)
EXTENDS CaseClients, FiniteSetTheorems, TLAPS

Decided == {"analyzed", "failed"}

\* The log of an analysis that is not at its end has room for the last message.
Room == status = "analyzing" => logged < MaxMessages

\* The first k messages have been taken; the rest is in the queue in its order, and
\* the end marker after it once the analysis is over.
InOrder(k) ==
    /\ k \in 0..logged
    /\ Len(queue) \in {logged - k, logged - k + 1}
    /\ Len(queue) = logged - k + 1 => status \in Decided
    /\ \A i \in 1..Len(queue) : queue[i] = IF i = logged - k + 1 THEN End ELSE k + i

QueueInOrder == status # "ready" => \E k \in 0..logged : InOrder(k)

\* Who has a stream, and what it can have been told.
Attached ==
    \A c \in Clients :
        /\ stream[c].at \in {"away", "answered"} => stream[c].got = <<>>
        /\ c \in Open => status # "ready"
        /\ stream[c].at = "replay" => stream[c].pos \in 0..logged
        /\ stream[c].at = "ended" => status \in Decided /\ stream[c].told = Outcome

\* The same without the streams' contents.
Sound == StreamTypeOK /\ Room /\ QueueInOrder /\ Attached

\* A stream on its own has received a beginning of the log that is as long as what
\* has been taken from the queue, or longer.
Alone ==
    /\ \A c, d \in Open : c = d
    /\ \A c \in Clients :
        /\ stream[c].at = "replay" => Received(c) = 1..stream[c].pos
        /\ stream[c].at = "live" =>
              \E k \in 0..logged : InOrder(k) /\ \E n \in k..logged : Received(c) = 1..n
        /\ stream[c].at = "ended" => Received(c) = 1..logged

\* The inductive invariant.
Streams == Sound /\ (Together = 1 => Alone)

StreamType == [at : Where, pos : 0..MaxMessages, got : Seq(Message),
               told : {"nothing", "done", "error"}, visits : 0..MaxVisits]

----------------------------------------------------------------------------
\* What a client has received after one more message.
LEMMA ReceivesOne ==
    ASSUME NEW got \in Seq(Message), NEW m \in Message
    PROVE  LET more == Append(got, m)
           IN  {more[i] : i \in DOMAIN more} = {got[i] : i \in DOMAIN got} \cup {m}
<1> DEFINE more == Append(got, m)
<1>1. DOMAIN more = 1..Len(got) + 1 /\ DOMAIN got = 1..Len(got) /\ Len(got) \in Nat
  OBVIOUS
<1>2. more[Len(got) + 1] = m /\ \A i \in 1..Len(got) : more[i] = got[i]
  OBVIOUS
<1> QED BY <1>1, <1>2

\* Nor does the sequence leave its type.
LEMMA AppendType ==
    ASSUME NEW got \in Seq(Message), NEW m \in Message
    PROVE  Append(got, m) \in Seq(Message)
OBVIOUS

\* A client without a stream.
LEMMA AwayType ==
    ASSUME NEW v \in 0..MaxVisits
    PROVE  LET s == [NoStream EXCEPT !.visits = v]
           IN  s \in StreamType /\ s.at = "away" /\ s.got = <<>>
<1>1. NoStream \in StreamType /\ NoStream.at = "away" /\ NoStream.got = <<>>
  BY StreamAssumption DEF NoStream, StreamType, StreamAssumption, Where, Message
<1> QED BY <1>1 DEF StreamType

\* Nobody has a stream if the number of streams is below one.
LEMMA NoneOpen ==
    ASSUME \A c, d \in Open : c = d, Cardinality(Open) < 1
    PROVE  Open = {}
<1> SUFFICES ASSUME NEW c \in Open PROVE FALSE
  OBVIOUS
<1>1. Open = {c}
  OBVIOUS
<1>2. Cardinality(Open) = 1
  BY <1>1, FS_Singleton
<1> QED BY <1>2

----------------------------------------------------------------------------
\* No stream is open, and nothing is logged.
LEMMA InitStreams == Init => Streams
<1> SUFFICES ASSUME Init PROVE Streams
  OBVIOUS
<1>1. NoStream \in StreamType
  BY StreamAssumption DEF NoStream, StreamType, StreamAssumption, Where, Message
<1>2. <<Stale, End>> \in Seq(0..MaxMessages + 1)
  BY StreamAssumption DEF Stale, End, StreamAssumption
<1>3. StreamTypeOK
  BY <1>1, <1>2, StreamAssumption DEF Init, StreamInit, StreamTypeOK, StreamType, StreamAssumption
<1>4. \A c \in Clients : stream[c].at = "away" /\ stream[c].got = <<>>
  BY DEF Init, StreamInit, NoStream
<1>5. status = "ready"
  BY DEF Init, StreamInit
<1>6. Open = {}
  BY <1>4 DEF Open
<1> QED BY <1>3, <1>4, <1>5, <1>6 DEF Streams, Sound, Room, QueueInOrder, Attached, Alone

----------------------------------------------------------------------------
\* The beginning of the analysis: nobody has a stream yet.
LEMMA StartKeeps == ASSUME Streams, StartAnalysis PROVE Streams'
<1>1. /\ status = "ready" /\ status' = "analyzing" /\ logged' = 0 /\ queue' = <<>>
      /\ stream' = stream
  BY DEF StartAnalysis
<1>2. \A c \in Clients : stream[c].at \in {"away", "answered"} /\ stream[c].got = <<>>
  BY <1>1 DEF Streams, Sound, Attached, Open, Decided, StreamTypeOK, Where
<1>3. StreamTypeOK'
  BY <1>1, StreamAssumption DEF Streams, Sound, StreamTypeOK, StreamAssumption
<1>4. Room'
  BY <1>1, StreamAssumption DEF Room, StreamAssumption
<1>5. QueueInOrder'
  <2>1. InOrder(0)'
    BY <1>1 DEF InOrder
  <2> QED BY <1>1, <2>1 DEF QueueInOrder
<1>6. Attached' /\ Alone'
  BY <1>1, <1>2 DEF Attached, Alone, Open
<1> QED BY <1>3, <1>4, <1>5, <1>6 DEF Streams, Sound

\* A message goes to the end of the queue.
LEMMA LogKeeps == ASSUME Streams, Log PROVE Streams'
<1>1. /\ status = "analyzing" /\ status' = status /\ logged + 1 < MaxMessages /\ logged' = logged + 1
      /\ queue' = Append(queue, logged + 1) /\ stream' = stream
  BY DEF Log
<1>2. logged \in Nat /\ queue \in Seq(0..MaxMessages + 1) /\ MaxMessages \in Nat /\ Len(queue) \in Nat
  BY StreamAssumption DEF Streams, Sound, StreamTypeOK, StreamAssumption
<1>3. StreamTypeOK'
  BY <1>1, <1>2 DEF Streams, Sound, StreamTypeOK
<1>4. Room'
  BY <1>1 DEF Room
<1>5. ASSUME NEW k \in 0..logged, InOrder(k) PROVE k \in 0..logged' /\ InOrder(k)'
  <2>1. Len(queue) = logged - k /\ Len(queue') = Len(queue) + 1
    BY <1>1, <1>2, <1>5 DEF InOrder, Decided
  <2>2. \A i \in 1..Len(queue) : queue'[i] = queue[i]
    BY <1>1, <1>2
  <2>3. queue'[Len(queue) + 1] = logged + 1
    BY <1>1, <1>2
  <2> QED BY <1>1, <1>2, <1>5, <2>1, <2>2, <2>3 DEF InOrder
<1>6. QueueInOrder'
  BY <1>1, <1>5 DEF Streams, Sound, QueueInOrder
<1>7. Attached'
  BY <1>1, <1>2 DEF Streams, Sound, Attached, Open, Decided
<1>8. Alone => Alone'
  <2> SUFFICES ASSUME Alone PROVE Alone'
    OBVIOUS
  <2>1. \A c \in Clients : stream[c].at # "ended"
    BY <1>1 DEF Streams, Sound, Attached, Decided
  <2>2. ASSUME NEW c \in Clients, stream[c].at = "live"
        PROVE  \E k \in 0..logged' : InOrder(k)' /\ \E n \in k..logged' : Received(c)' = 1..n
    <3>1. PICK k \in 0..logged : InOrder(k) /\ \E n \in k..logged : Received(c) = 1..n
      BY <2>2 DEF Alone
    <3>2. PICK n \in k..logged : Received(c) = 1..n
      BY <3>1
    <3>3. Received(c)' = Received(c) /\ n \in k..logged'
      BY <1>1, <1>2 DEF Received
    <3> QED BY <1>5, <3>1, <3>2, <3>3
  <2> QED BY <1>1, <2>1, <2>2 DEF Alone, Open, Received
<1> QED BY <1>3, <1>4, <1>6, <1>7, <1>8 DEF Streams, Sound

\* The last message and the end marker.
LEMMA FinishKeeps == ASSUME Streams, Finish PROVE Streams'
<1>1. /\ status = "analyzing" /\ status' \in Decided /\ logged' = logged + 1
      /\ queue' = queue \o <<logged + 1, End>> /\ stream' = stream
  BY DEF Finish, Decided
<1>2. /\ logged \in Nat /\ queue \in Seq(0..MaxMessages + 1) /\ MaxMessages \in Nat
      /\ Len(queue) \in Nat /\ logged + 1 <= MaxMessages
  BY <1>1, StreamAssumption DEF Streams, Sound, StreamTypeOK, StreamAssumption, Room
<1>3. StreamTypeOK'
  <2>1. <<logged + 1, End>> \in Seq(0..MaxMessages + 1)
    BY <1>2 DEF End
  <2>2. queue' \in Seq(0..MaxMessages + 1)
    BY <1>1, <1>2, <2>1
  <2> QED BY <1>1, <1>2, <2>2 DEF Streams, Sound, StreamTypeOK, Decided
<1>4. Room'
  BY <1>1 DEF Room, Decided
<1>5. ASSUME NEW k \in 0..logged, InOrder(k) PROVE k \in 0..logged' /\ InOrder(k)'
  <2>1. Len(queue) = logged - k /\ Len(queue') = Len(queue) + 2
    BY <1>1, <1>2, <1>5 DEF InOrder, Decided
  <2>2. \A i \in 1..Len(queue) : queue'[i] = queue[i]
    BY <1>1, <1>2
  <2>3. queue'[Len(queue) + 1] = logged + 1 /\ queue'[Len(queue) + 2] = End
    BY <1>1, <1>2
  <2> QED BY <1>1, <1>2, <1>5, <2>1, <2>2, <2>3 DEF InOrder, End
<1>6. QueueInOrder'
  BY <1>1, <1>5 DEF Streams, Sound, QueueInOrder
<1>7. \A c \in Clients : stream[c].at # "ended"
  BY <1>1 DEF Streams, Sound, Attached, Decided
<1>8. Attached'
  BY <1>1, <1>2, <1>7 DEF Streams, Sound, Attached, Open, Decided
<1>9. Alone => Alone'
  <2> SUFFICES ASSUME Alone PROVE Alone'
    OBVIOUS
  <2>1. ASSUME NEW c \in Clients, stream[c].at = "live"
        PROVE  \E k \in 0..logged' : InOrder(k)' /\ \E n \in k..logged' : Received(c)' = 1..n
    <3>1. PICK k \in 0..logged : InOrder(k) /\ \E n \in k..logged : Received(c) = 1..n
      BY <2>1 DEF Alone
    <3>2. PICK n \in k..logged : Received(c) = 1..n
      BY <3>1
    <3>3. Received(c)' = Received(c) /\ n \in k..logged'
      BY <1>1, <1>2 DEF Received
    <3> QED BY <1>5, <3>1, <3>2, <3>3
  <2> QED BY <1>1, <1>7, <2>1 DEF Alone, Open, Received
<1> QED BY <1>3, <1>4, <1>6, <1>8, <1>9 DEF Streams, Sound

----------------------------------------------------------------------------
\* A step of one stream that leaves the log alone; what the stream of c is afterwards
\* has to be shown.
LEMMA StreamMoves ==
    ASSUME Streams, NEW c \in Clients, NEW s \in StreamType,
           stream' = [stream EXCEPT ![c] = s], UNCHANGED <<status, logged, queue>>,
           s.at \in {"away", "answered"} => s.got = <<>>,
           s.at \in {"replay", "live"} => status # "ready",
           s.at = "replay" => s.pos \in 0..logged,
           s.at = "ended" => status \in Decided /\ s.told = Outcome,
           Together = 1 =>
             /\ s.at \in {"replay", "live"} => Open \subseteq {c}
             /\ s.at = "replay" => {s.got[i] : i \in DOMAIN s.got} = 1..s.pos
             /\ s.at = "live" =>
                  \E k \in 0..logged : InOrder(k) /\ \E n \in k..logged :
                      {s.got[i] : i \in DOMAIN s.got} = 1..n
             /\ s.at = "ended" => {s.got[i] : i \in DOMAIN s.got} = 1..logged
    PROVE  Streams'
<1>1. stream \in [Clients -> StreamType]
  BY DEF Streams, Sound, StreamTypeOK, StreamType
<1>2. /\ stream'[c] = s /\ stream' \in [Clients -> StreamType]
      /\ \A d \in Clients \ {c} : stream'[d] = stream[d]
  BY <1>1
<1>3. StreamTypeOK' /\ Room' /\ QueueInOrder'
  BY <1>2 DEF Streams, Sound, StreamTypeOK, StreamType, Room, QueueInOrder, InOrder
<1>4. Outcome' = Outcome
  BY DEF Outcome
<1>5. Attached'
  <2> SUFFICES ASSUME NEW d \in Clients
               PROVE  /\ stream'[d].at \in {"away", "answered"} => stream'[d].got = <<>>
                      /\ stream'[d].at \in {"replay", "live"} => status' # "ready"
                      /\ stream'[d].at = "replay" => stream'[d].pos \in 0..logged'
                      /\ stream'[d].at = "ended" => status' \in Decided /\ stream'[d].told = Outcome'
    BY DEF Attached, Open
  <2>1. CASE d = c
    BY <1>2, <1>4, <2>1
  <2>2. CASE d # c
    BY <1>2, <1>4, <2>2 DEF Streams, Sound, Attached, Open
  <2> QED BY <2>1, <2>2
<1>6. ASSUME Together = 1 PROVE Alone'
  <2> Alone
    BY <1>6 DEF Streams
  <2>1. \A d, e \in Open' : d = e
    <3>1. CASE s.at \in {"replay", "live"}
      <4>1. Open' \subseteq {c}
        BY <1>2, <1>6, <3>1 DEF Open
      <4> QED BY <4>1
    <3>2. CASE s.at \notin {"replay", "live"}
      <4>1. Open' \subseteq Open
        BY <1>2, <3>2 DEF Open
      <4> QED BY <1>6, <4>1 DEF Alone
    <3> QED BY <3>1, <3>2
  <2>2. Received(c)' = {s.got[i] : i \in DOMAIN s.got}
    BY <1>2 DEF Received
  <2>3. \A d \in Clients \ {c} : Received(d)' = Received(d)
    BY <1>2 DEF Received
  <2>4. \A k : InOrder(k)' = InOrder(k)
    BY DEF InOrder
  <2>5. ASSUME NEW d \in Clients
        PROVE  /\ stream'[d].at = "replay" => Received(d)' = 1..stream'[d].pos
               /\ stream'[d].at = "live" =>
                     \E k \in 0..logged' : InOrder(k)' /\ \E n \in k..logged' : Received(d)' = 1..n
               /\ stream'[d].at = "ended" => Received(d)' = 1..logged'
    <3>1. CASE d = c
      BY <1>2, <1>6, <2>2, <2>4, <3>1
    <3>2. CASE d # c
      BY <1>2, <1>6, <2>3, <2>4, <3>2 DEF Alone
    <3> QED BY <3>1, <3>2
  <2> QED BY <2>1, <2>5 DEF Alone
<1> QED BY <1>3, <1>5, <1>6 DEF Streams, Sound

\* A stream is opened, and with one at a time nobody else has one.
LEMMA AttachKeeps == ASSUME Streams, NEW c \in Clients, Attach(c) PROVE Streams'
<1> DEFINE s == [at |-> IF status = "analyzing" THEN "replay" ELSE "answered",
                 pos |-> 0, got |-> <<>>,
                 told |-> IF status = "analyzing" THEN "nothing" ELSE Outcome,
                 visits |-> stream[c].visits + 1]
<1>1. /\ stream[c].visits < MaxVisits /\ Cardinality(Open) < Together
      /\ UNCHANGED <<status, logged, queue>> /\ stream[c].at \notin {"replay", "live"}
  BY DEF Attach
<1>2. stream' = [stream EXCEPT ![c] = s]
  BY DEF Attach
<1>3. stream[c] \in StreamType /\ logged \in Nat /\ MaxMessages \in Nat /\ MaxVisits \in Nat
  BY StreamAssumption DEF Streams, Sound, StreamTypeOK, StreamType, StreamAssumption
<1>4. s \in StreamType
  <2>1. stream[c].visits + 1 \in 0..MaxVisits
    BY <1>1, <1>3 DEF StreamType
  <2>2. Outcome \in {"nothing", "done", "error"} /\ <<>> \in Seq(Message) /\ 0 \in 0..MaxMessages
    BY <1>3 DEF Outcome
  <2> QED BY <2>1, <2>2 DEF StreamType, Where
<1>5. Together = 1 => Open = {}
  <2>1. Together = 1 => (\A d, e \in Open : d = e) /\ Cardinality(Open) < 1
    BY <1>1 DEF Streams, Alone
  <2> QED BY <2>1, NoneOpen
<1>6. {s.got[i] : i \in DOMAIN s.got} = {} /\ s.got = <<>> /\ s.pos = 0
  OBVIOUS
<1>7. s.at \in {"replay", "answered"} /\ (s.at = "replay" => status # "ready")
  OBVIOUS
<1>8. 0 \in 0..logged /\ 1..0 = {}
  BY <1>3
<1> HIDE DEF s
<1> QED BY <1>1, <1>2, <1>4, <1>5, <1>6, <1>7, <1>8, StreamMoves

\* The next message of the list.
LEMMA ReplayKeeps == ASSUME Streams, NEW c \in Clients, Replay(c) PROVE Streams'
<1> DEFINE s == [stream[c] EXCEPT !.pos = @ + 1, !.got = Append(@, stream[c].pos + 1)]
<1>1. /\ stream[c].at = "replay" /\ stream[c].pos < logged
      /\ UNCHANGED <<status, logged, queue>>
  BY DEF Replay
<1>2. stream[c] \in StreamType /\ stream \in [Clients -> StreamType]
      /\ logged \in 0..MaxMessages /\ MaxMessages \in Nat
  BY StreamAssumption DEF Streams, Sound, StreamTypeOK, StreamType, StreamAssumption
<1>3. stream' = [stream EXCEPT ![c] = s]
  BY <1>2 DEF Replay
<1>4. stream[c].pos + 1 \in Message /\ stream[c].pos + 1 \in 0..MaxMessages /\ stream[c].pos \in Nat
  BY <1>1, <1>2 DEF StreamType, Message
<1>5. /\ s \in StreamType /\ s.at = "replay" /\ s.pos = stream[c].pos + 1
      /\ s.got = Append(stream[c].got, stream[c].pos + 1)
  <2>1. Append(stream[c].got, stream[c].pos + 1) \in Seq(Message)
    BY <1>2, <1>4, AppendType DEF StreamType
  <2> QED BY <1>1, <1>2, <1>4, <2>1 DEF StreamType
<1>6. {s.got[i] : i \in DOMAIN s.got} = Received(c) \cup {stream[c].pos + 1}
  <2>1. stream[c].got \in Seq(Message)
    BY <1>2 DEF StreamType
  <2>2. LET more == Append(stream[c].got, stream[c].pos + 1)
        IN  {more[i] : i \in DOMAIN more} = Received(c) \cup {stream[c].pos + 1}
    BY <1>4, <2>1, ReceivesOne DEF Received
  <2> HIDE DEF s
  <2> QED BY <1>5, <2>2
<1>7. c \in Open /\ status # "ready"
  BY <1>1 DEF Open, Streams, Sound, Attached
<1>8. Together = 1 => Open \subseteq {c} /\ Received(c) = 1..stream[c].pos
  BY <1>1, <1>7 DEF Streams, Alone
<1>9. s.pos \in 0..logged
  BY <1>1, <1>2, <1>4, <1>5
<1>10. 1..stream[c].pos \cup {stream[c].pos + 1} = 1..stream[c].pos + 1
  BY <1>4
<1> HIDE DEF s
<1> QED BY <1>1, <1>3, <1>5, <1>6, <1>7, <1>8, <1>9, <1>10, StreamMoves

\* The end of the list: everything so far has been received.
LEMMA EndReplayKeeps == ASSUME Streams, NEW c \in Clients, EndReplay(c) PROVE Streams'
<1>1. /\ stream[c].at = "replay" /\ stream[c].pos = logged
      /\ UNCHANGED <<status, logged, queue>>
  BY DEF EndReplay
<1>2. stream[c] \in StreamType /\ stream \in [Clients -> StreamType] /\ logged \in Nat
  BY DEF Streams, Sound, StreamTypeOK, StreamType
<1>3. c \in Open /\ status # "ready"
  BY <1>1 DEF Open, Streams, Sound, Attached
<1>4. Together = 1 => Open \subseteq {c} /\ Received(c) = 1..logged
  BY <1>1, <1>3 DEF Streams, Alone
<1>5. CASE status \in Decided
  <2> DEFINE s == [stream[c] EXCEPT !.at = "ended", !.told = Outcome]
  <2>1. stream' = [stream EXCEPT ![c] = s]
    BY <1>2, <1>5 DEF EndReplay, Decided
  <2>2. s \in StreamType /\ s.at = "ended" /\ s.told = Outcome /\ s.got = stream[c].got
    BY <1>2 DEF StreamType, Where, Outcome
  <2> HIDE DEF s
  <2> QED BY <1>1, <1>4, <1>5, <2>1, <2>2, StreamMoves DEF Received
<1>6. CASE status \notin Decided
  <2> DEFINE s == [stream[c] EXCEPT !.at = "live"]
  <2>1. stream' = [stream EXCEPT ![c] = s]
    BY <1>2, <1>6 DEF EndReplay, Decided
  <2>2. s \in StreamType /\ s.at = "live" /\ s.got = stream[c].got
    BY <1>2 DEF StreamType, Where
  <2>3. PICK k \in 0..logged : InOrder(k)
    BY <1>3 DEF Streams, Sound, QueueInOrder
  <2>4. logged \in k..logged
    BY <1>2
  <2>5. {s.got[i] : i \in DOMAIN s.got} = Received(c)
    BY <2>2 DEF Received
  <2> HIDE DEF s
  <2> QED BY <1>1, <1>3, <1>4, <2>1, <2>2, <2>3, <2>4, <2>5, StreamMoves
<1> QED BY <1>5, <1>6

\* The client goes away.
LEMMA DisconnectKeeps == ASSUME Streams, NEW c \in Clients, Disconnect(c) PROVE Streams'
<1> DEFINE s == [NoStream EXCEPT !.visits = stream[c].visits]
<1>1. stream' = [stream EXCEPT ![c] = s] /\ UNCHANGED <<status, logged, queue>>
  BY DEF Disconnect
<1>2. s \in StreamType /\ s.at = "away" /\ s.got = <<>>
  BY AwayType DEF Streams, Sound, StreamTypeOK
<1> HIDE DEF s
<1> QED BY <1>1, <1>2, StreamMoves

\* A stream takes from the queue.
LEMMA TakeKeeps == ASSUME Streams, NEW c \in Clients, Take(c) PROVE Streams'
<1>1. /\ stream[c].at = "live" /\ queue # <<>> /\ queue' = Tail(queue)
      /\ UNCHANGED <<status, logged>>
  BY DEF Take
<1>2. /\ stream \in [Clients -> StreamType] /\ logged \in 0..MaxMessages /\ MaxMessages \in Nat
      /\ queue \in Seq(0..MaxMessages + 1) /\ Len(queue) \in Nat
  BY StreamAssumption DEF Streams, Sound, StreamTypeOK, StreamType, StreamAssumption
<1>3. /\ Len(queue) > 0 /\ Len(queue') = Len(queue) - 1 /\ Head(queue) = queue[1]
      /\ queue' \in Seq(0..MaxMessages + 1)
      /\ \A i \in 1..Len(queue') : queue'[i] = queue[i + 1]
  BY <1>1, <1>2
<1>4. c \in Open /\ status # "ready"
  BY <1>1 DEF Open, Streams, Sound, Attached
<1>5. ASSUME NEW k \in 0..logged, InOrder(k)
      PROVE  \/ /\ Head(queue) = End /\ k = logged /\ status \in Decided /\ InOrder(k)'
             \/ /\ Head(queue) = k + 1 /\ k < logged /\ InOrder(k + 1)'
  <2>1. CASE k = logged
    <3>1. Len(queue) = 1 /\ Head(queue) = End /\ status \in Decided
      BY <1>2, <1>3, <1>5, <2>1 DEF InOrder
    <3>2. InOrder(k)'
      BY <1>1, <1>2, <1>3, <1>5, <2>1, <3>1 DEF InOrder
    <3> QED BY <2>1, <3>1, <3>2
  <2>2. CASE k # logged
    <3>1. k < logged /\ Head(queue) = k + 1
      BY <1>2, <1>3, <1>5, <2>2 DEF InOrder
    <3>2. InOrder(k + 1)'
      <4>1. k + 1 \in 0..logged' /\ Len(queue') \in {logged' - (k + 1), logged' - (k + 1) + 1}
        BY <1>1, <1>2, <1>3, <1>5, <3>1 DEF InOrder
      <4>2. Len(queue') = logged' - (k + 1) + 1 => status' \in Decided
        BY <1>1, <1>2, <1>3, <1>5, <3>1 DEF InOrder
      <4>3. ASSUME NEW i \in 1..Len(queue')
            PROVE  queue'[i] = IF i = logged' - (k + 1) + 1 THEN End ELSE (k + 1) + i
        <5>1. i + 1 \in 1..Len(queue) /\ queue'[i] = queue[i + 1]
          BY <1>2, <1>3
        <5>2. queue[i + 1] = IF i + 1 = logged - k + 1 THEN End ELSE k + (i + 1)
          BY <1>5, <5>1 DEF InOrder
        <5> QED BY <1>1, <1>2, <5>1, <5>2
      <4> QED BY <4>1, <4>2, <4>3 DEF InOrder
    <3> QED BY <3>1, <3>2
  <2> QED BY <2>1, <2>2
<1>6. PICK k \in 0..logged : InOrder(k)
  BY <1>4 DEF Streams, Sound, QueueInOrder
<1>7. QueueInOrder' /\ Room'
  <2>1. k + 1 \in 0..logged' \/ k = logged
    BY <1>1, <1>2
  <2>2. k \in 0..logged'
    BY <1>1
  <2>3. InOrder(k)' \/ (k # logged /\ InOrder(k + 1)')
    BY <1>2, <1>5, <1>6
  <2>4. \E j \in 0..logged' : InOrder(j)'
    BY <2>1, <2>2, <2>3
  <2> QED BY <1>1, <2>4 DEF Streams, Sound, Room, QueueInOrder
<1>8. CASE Head(queue) = End
  <2> DEFINE s == [stream[c] EXCEPT !.at = "ended", !.told = Outcome]
  <2>1. stream' = [stream EXCEPT ![c] = s]
    BY <1>2, <1>8 DEF Take
  <2>2. s \in StreamType /\ s.at = "ended" /\ s.told = Outcome /\ s.got = stream[c].got
    BY <1>2 DEF StreamType, Where, Outcome
  <2>3. status \in Decided
    BY <1>2, <1>5, <1>6, <1>8 DEF End
  <2>4. StreamTypeOK'
    BY <1>1, <1>2, <1>3, <2>1, <2>2 DEF Streams, Sound, StreamTypeOK, StreamType
  <2>5. Attached'
    BY <1>1, <1>2, <2>1, <2>2, <2>3 DEF Streams, Sound, Attached, Open, Outcome
  <2>6. ASSUME Together = 1 PROVE Alone'
    <3>1. Alone /\ Open \subseteq {c}
      BY <1>4, <2>6 DEF Streams, Alone
    <3>2. PICK j \in 0..logged : InOrder(j) /\ \E n \in j..logged : Received(c) = 1..n
      BY <1>1, <3>1 DEF Alone
    <3>3. j = logged
      BY <1>2, <1>5, <1>8, <3>2 DEF End
    <3>4. Received(c) = 1..logged
      BY <1>2, <3>2, <3>3
    <3>5. Open' = {}
      BY <1>2, <2>1, <2>2, <3>1 DEF Open
    <3>6. ASSUME NEW d \in Clients, d # c
          PROVE  stream'[d] = stream[d] /\ Received(d)' = Received(d) /\ d \notin Open
      BY <1>2, <2>1, <3>1, <3>6 DEF Received
    <3>7. stream'[c] = s /\ Received(c)' = Received(c)
      BY <1>2, <2>1, <2>2 DEF Received
    <3> QED BY <1>1, <2>2, <3>1, <3>4, <3>5, <3>6, <3>7 DEF Alone, Open
  <2> QED BY <1>7, <2>4, <2>5, <2>6 DEF Streams, Sound
<1>9. CASE Head(queue) # End
  <2> DEFINE s == [stream[c] EXCEPT !.got = Append(@, Head(queue))]
  <2>1. stream' = [stream EXCEPT ![c] = s]
    BY <1>2, <1>9 DEF Take
  <2>2. Head(queue) \in Message
    BY <1>2, <1>5, <1>6, <1>9 DEF Message
  <2>3. s \in StreamType /\ s.at = "live" /\ s.got = Append(stream[c].got, Head(queue))
    <3>1. Append(stream[c].got, Head(queue)) \in Seq(Message)
      BY <1>2, <2>2, AppendType DEF StreamType
    <3> QED BY <1>1, <1>2, <3>1 DEF StreamType
  <2>4. StreamTypeOK'
    BY <1>1, <1>2, <1>3, <2>1, <2>3 DEF Streams, Sound, StreamTypeOK, StreamType
  <2>5. Attached'
    BY <1>1, <1>2, <1>4, <2>1, <2>3 DEF Streams, Sound, Attached, Open, Outcome
  <2>6. ASSUME Together = 1 PROVE Alone'
    <3>1. Alone /\ Open \subseteq {c}
      BY <1>4, <2>6 DEF Streams, Alone
    <3>2. PICK j \in 0..logged : InOrder(j) /\ \E n \in j..logged : Received(c) = 1..n
      BY <1>1, <3>1 DEF Alone
    <3>3. PICK n \in j..logged : Received(c) = 1..n
      BY <3>2
    <3>4. Head(queue) = j + 1 /\ j < logged /\ InOrder(j + 1)'
      BY <1>5, <1>9, <3>2
    <3>5. Received(c)' = Received(c) \cup {j + 1}
      <4>1. stream[c].got \in Seq(Message) /\ stream'[c] = s
        BY <1>2, <2>1 DEF StreamType
      <4>2. LET more == Append(stream[c].got, Head(queue))
            IN  {more[i] : i \in DOMAIN more} = Received(c) \cup {Head(queue)}
        BY <2>2, <4>1, ReceivesOne DEF Received
      <4>3. stream'[c].got = Append(stream[c].got, Head(queue))
        BY <2>3, <4>1
      <4>4. Received(c)' = Received(c) \cup {Head(queue)}
        BY <4>2, <4>3 DEF Received
      <4> QED BY <3>4, <4>4
    <3>6. \E m \in j + 1..logged' : Received(c)' = 1..m
      <4>1. CASE n = j
        <5>1. 1..n \cup {j + 1} = 1..j + 1 /\ j + 1 \in j + 1..logged'
          BY <1>1, <1>2, <3>4, <4>1
        <5> QED BY <3>3, <3>5, <5>1
      <4>2. CASE n # j
        <5>1. 1..n \cup {j + 1} = 1..n /\ n \in j + 1..logged'
          BY <1>1, <1>2, <3>4, <4>2
        <5> QED BY <3>3, <3>5, <5>1
      <4> QED BY <4>1, <4>2
    <3>7. j + 1 \in 0..logged'
      BY <1>1, <1>2, <3>4
    <3>8. Open' \subseteq {c}
      BY <1>2, <2>1, <2>3, <3>1 DEF Open
    <3>9. ASSUME NEW d \in Clients, d # c
          PROVE  stream'[d] = stream[d] /\ Received(d)' = Received(d) /\ d \notin Open
      BY <1>2, <2>1, <3>1, <3>9 DEF Received
    <3>10. stream'[c].at = "live"
      BY <1>2, <2>1, <2>3
    <3> QED BY <1>1, <3>1, <3>4, <3>6, <3>7, <3>8, <3>9, <3>10 DEF Alone, Open
  <2> QED BY <1>7, <2>4, <2>5, <2>6 DEF Streams, Sound
<1> QED BY <1>8, <1>9

\* A new process has no streams and an empty queue.
LEMMA RestartKeeps == ASSUME Streams, Restart PROVE Streams'
<1>1. /\ status # "analyzing" /\ status' = status /\ logged' = 0 /\ queue' = <<>>
      /\ stream' = [c \in Clients |-> [NoStream EXCEPT !.visits = stream[c].visits]]
  BY DEF Restart
<1>2. ASSUME NEW c \in Clients
      PROVE  stream'[c] \in StreamType /\ stream'[c].at = "away" /\ stream'[c].got = <<>>
  BY <1>1, AwayType DEF Streams, Sound, StreamTypeOK
<1>3. StreamTypeOK'
  <2>1. stream' \in [Clients -> StreamType]
    BY <1>1, <1>2
  <2>2. 0 \in 0..MaxMessages /\ <<>> \in Seq(0..MaxMessages + 1)
    BY StreamAssumption DEF StreamAssumption
  <2> QED BY <1>1, <2>1, <2>2 DEF Streams, Sound, StreamTypeOK, StreamType
<1>4. Room'
  BY <1>1 DEF Room
<1>5. QueueInOrder'
  <2>1. InOrder(0)'
    BY <1>1 DEF InOrder
  <2> QED BY <1>1, <2>1 DEF QueueInOrder
<1>6. Attached' /\ Alone'
  BY <1>2 DEF Attached, Alone, Open
<1> QED BY <1>3, <1>4, <1>5, <1>6 DEF Streams, Sound

----------------------------------------------------------------------------
\* Every step keeps the invariant of the streams.
LEMMA StreamsStep == Streams /\ [Next]_vars => Streams'
<1> SUFFICES ASSUME Streams, [Next]_vars PROVE Streams'
  OBVIOUS
<1>1. CASE StreamStep
  <2>1. CASE StartAnalysis
    BY <2>1, StartKeeps
  <2>2. CASE Log
    BY <2>2, LogKeeps
  <2>3. ASSUME NEW c \in Clients, Attach(c) \/ Send(c) \/ Disconnect(c) PROVE Streams'
    BY <2>3, AttachKeeps, ReplayKeeps, EndReplayKeeps, TakeKeeps, DisconnectKeeps DEF Send
  <2> QED BY <1>1, <2>1, <2>2, <2>3 DEF StreamStep
<1>2. CASE AnalysisEnds
  BY <1>2, FinishKeeps DEF AnalysisEnds
<1>3. CASE Restart
  BY <1>3, RestartKeeps
<1>4. CASE UNCHANGED streamVars
  <2>1. status' = status /\ logged' = logged /\ queue' = queue /\ stream' = stream
    BY <1>4 DEF streamVars
  <2>2. StreamTypeOK' /\ Room' /\ QueueInOrder'
    BY <2>1 DEF Streams, Sound, StreamTypeOK, Room, QueueInOrder, InOrder
  <2>3. Attached'
    BY <2>1 DEF Streams, Sound, Attached, Open, Outcome
  <2>4. Alone => Alone'
    BY <2>1 DEF Alone, Open, Received, InOrder
  <2> QED BY <2>2, <2>3, <2>4 DEF Streams, Sound
<1> QED BY <1>1, <1>2, <1>3, <1>4 DEF Next, Submit, JobRuns, vars

\* The inductive invariant holds.
LEMMA Invariance == Spec => []Streams
BY InitStreams, StreamsStep, PTL DEF Spec

----------------------------------------------------------------------------
\* The streams keep their type.
THEOREM StreamsTyped == Spec => []StreamTypeOK
<1>1. Streams => StreamTypeOK
  BY DEF Streams, Sound
<1> QED BY <1>1, Invariance, PTL

\* A stream ends with the outcome of this analysis, and only once there is one, also
\* when several take from the queue.
THEOREM ToldTheOutcomeHolds == Spec => []ToldTheOutcome
<1>1. Streams => ToldTheOutcome
  BY DEF Streams, Sound, Attached, Decided, ToldTheOutcome
<1> QED BY <1>1, Invariance, PTL

\* One stream at a time misses no message, whoever has taken some before.
THEOREM NoHolesHolds == Spec => [](Together = 1 => NoHoles)
<1>1. Streams => (Together = 1 => NoHoles)
  <2> SUFFICES ASSUME Streams, Together = 1 PROVE NoHoles
    OBVIOUS
  <2> SUFFICES ASSUME NEW c \in Clients
               PROVE  /\ \E n \in 0..logged : Received(c) = 1..n
                      /\ stream[c].at = "ended" => Received(c) = 1..logged
    BY DEF NoHoles
  <2>1. stream[c].at \in Where /\ logged \in Nat
    BY DEF Streams, Sound, StreamTypeOK
  <2>2. CASE stream[c].at \in {"away", "answered"}
    <3>1. Received(c) = {} /\ 1..0 = {} /\ 0 \in 0..logged
      BY <2>1, <2>2 DEF Streams, Sound, Attached, Received
    <3> QED BY <2>2, <3>1
  <2>3. CASE stream[c].at = "replay"
    BY <2>3 DEF Streams, Sound, Attached, Alone
  <2>4. CASE stream[c].at = "live"
    <3>1. PICK k \in 0..logged : \E n \in k..logged : Received(c) = 1..n
      BY <2>4 DEF Streams, Alone
    <3>2. PICK n \in k..logged : Received(c) = 1..n
      BY <3>1
    <3>3. n \in 0..logged
      BY <2>1
    <3> QED BY <2>4, <3>2, <3>3
  <2>5. CASE stream[c].at = "ended"
    <3>1. Received(c) = 1..logged /\ logged \in 0..logged
      BY <2>1, <2>5 DEF Streams, Alone
    <3> QED BY <3>1
  <2> QED BY <2>1, <2>2, <2>3, <2>4, <2>5 DEF Where
<1> QED BY <1>1, Invariance, PTL
----------------------------------------------------------------------------
(* The scenario jobs *)

JobType == [status : JobStatus, calls : 0..MaxRetries, change : ChangeSets \cup {<<>>},
            diff : DiffType, affected : SUBSET Issues, evidence : SUBSET Evidence]

ResultType == [status : {"none", "completed", "failed"}, change : ChangeSets \cup {<<>>},
               diff : DiffType, affected : SUBSET Issues, evidence : SUBSET Evidence,
               inputs : SUBSET (Issues \cup Evidence), outputs : {0, 1}]

\* What the code promises of a result.
Grounded(r) ==
    /\ ScenarioErrors(r) = {}
    /\ r.status = "completed" <=> ScenarioWarnings(r) = {}
    /\ r.affected = IssuesOf(r.diff)
    /\ r.evidence \subseteq ToSet(r.change) \cap r.inputs

\* A job exists on the baseline of an analysed case, runs on a valid request only, and
\* when it is completed shows what its file says.
JobInOrder(j) ==
    /\ scenario[j].status # "none" => status = "analyzed" /\ baseline
    /\ scenario[j].status = "running" => scenario[j].change # <<>> /\ Issues # {}
    /\ scenario[j].status = "completed" =>
         /\ Grounded(result[j])
         /\ GetCaseScenario(j) = GetScenario(j) /\ scenario[j].change = result[j].change

\* The inductive invariant of the jobs.
Jobs == JobsTypeOK /\ \A j \in Scenarios : JobInOrder(j)

\* The simulator keeps its promise whatever the answer is: an entry that it drops is
\* made up for, a direction that it does not know is neutral, no impact stays empty.
LEMMA CompletedGrounded ==
    ASSUME Issues # {}, NEW change \in ChangeSets, change # <<>>, NEW answer \in Answers
    PROVE  Completed(change, answer) \in ResultType /\ Grounded(Completed(change, answer))
<1> DEFINE r == Completed(change, answer)
           diff == BuildDiff(answer)
<1>1. \A e \in answer : e.issue \in Issues \cup Invented /\ e.impact \in {"", "text"}
  BY JobsAssumption DEF JobsAssumption, Answers, Entry
<1>2. \A e \in answer : Direction(e.direction) \in Directions
  BY DEF Direction, Directions
<1> DEFINE known == {e \in answer : e.issue \in Issues}
           neutral == {[issue |-> i, direction |-> "neutral", impact |-> "default"] : i \in Issues}
           Kept(e) == [issue |-> e.issue, direction |-> Direction(e.direction),
                       impact |-> IF e.impact = "" THEN "default" ELSE e.impact]
           DiffEntry == [issue : Issues, direction : Directions, impact : {"text", "default"}]
<1>3. diff \in DiffType /\ diff # {}
  <2>1. CASE known = {}
    <3>1. diff = neutral
      BY <2>1 DEF BuildDiff
    <3>2. neutral \subseteq DiffEntry
      BY DEF Directions
    <3>3. neutral # {}
      OBVIOUS
    <3> HIDE DEF neutral, diff
    <3> QED BY <3>1, <3>2, <3>3 DEF DiffType
  <2>2. CASE known # {}
    <3>1. diff = {Kept(e) : e \in known}
      BY <2>2 DEF BuildDiff
    <3>2. \A e \in known : Kept(e) \in DiffEntry
      BY <1>1, <1>2
    <3> HIDE DEF known, diff, Kept
    <3> QED BY <2>2, <3>1, <3>2 DEF DiffType
  <2> QED BY <2>1, <2>2
<1>4. \A d \in diff : d.issue \in Issues /\ d.direction \in Directions /\ d.impact # ""
  BY <1>3 DEF DiffType
<1>5. /\ r.status = "completed" /\ r.change = change /\ r.diff = diff
      /\ r.affected = IssuesOf(diff) /\ r.evidence = ToSet(change) \cap Evidence
      /\ r.inputs = Issues \cup Evidence /\ r.outputs = 1
  BY DEF Completed
<1>6. IssuesOf(diff) \subseteq Issues
  BY <1>4 DEF IssuesOf
<1>7. r \in ResultType
  BY <1>3, <1>6 DEF ResultType, Completed
<1>8. ScenarioErrors(r) = {}
  BY <1>4, <1>5, <1>6 DEF ScenarioErrors
<1>9. ScenarioWarnings(r) = {}
  BY <1>3, <1>5 DEF ScenarioWarnings
<1> QED BY <1>5, <1>7, <1>8, <1>9 DEF Grounded

\* A failed simulation says nothing.
LEMMA FailedGrounded ==
    ASSUME NEW change \in ChangeSets, change # <<>>
    PROVE  FailedResult(change) \in ResultType /\ Grounded(FailedResult(change))
<1> DEFINE r == FailedResult(change)
<1>1. /\ r.status = "failed" /\ r.change = change /\ r.diff = {} /\ r.affected = {}
      /\ r.evidence = {} /\ r.inputs = {} /\ r.outputs = 0
  BY DEF FailedResult, NoResult
<1>2. r \in ResultType
  BY DEF FailedResult, NoResult, ResultType, DiffType
<1>3. ScenarioErrors(r) = {}
  BY <1>1 DEF ScenarioErrors, IssuesOf
<1>4. ScenarioWarnings(r) # {}
  BY <1>1 DEF ScenarioWarnings
<1> QED BY <1>1, <1>2, <1>3, <1>4 DEF Grounded, IssuesOf

\* A step of job j that leaves the case and the other jobs alone.
LEMMA JobMoves ==
    ASSUME Jobs, NEW j \in Scenarios, NEW x \in JobType, NEW r \in ResultType,
           scenario' = [scenario EXCEPT ![j] = x], result' = [result EXCEPT ![j] = r],
           UNCHANGED <<followup, status, baseline>>,
           x.status # "none" => status = "analyzed" /\ baseline,
           x.status = "running" => x.change # <<>> /\ Issues # {},
           x.status = "completed" => Grounded(r) /\ DiffOf(x) = DiffOf(r) /\ x.change = r.change
    PROVE  Jobs'
<1>1. scenario \in [Scenarios -> JobType] /\ result \in [Scenarios -> ResultType]
  BY DEF Jobs, JobsTypeOK, JobType, ResultType
<1>2. /\ scenario' \in [Scenarios -> JobType] /\ result' \in [Scenarios -> ResultType]
      /\ scenario'[j] = x /\ result'[j] = r
      /\ \A i \in Scenarios \ {j} : scenario'[i] = scenario[i] /\ result'[i] = result[i]
  BY <1>1
<1>3. JobsTypeOK'
  BY <1>2 DEF Jobs, JobsTypeOK, JobType, ResultType
<1>4. ASSUME NEW i \in Scenarios PROVE JobInOrder(i)'
  <2>1. CASE i = j
    BY <1>2, <2>1 DEF JobInOrder, GetCaseScenario, GetScenario
  <2>2. CASE i # j
    <3>1. JobInOrder(i)
      BY DEF Jobs
    <3> QED BY <1>2, <2>2, <3>1 DEF JobInOrder, GetCaseScenario, GetScenario
  <2> QED BY <2>1, <2>2
<1> QED BY <1>3, <1>4 DEF Jobs

\* No job has been submitted.
LEMMA InitJobs == Init => Jobs
<1> SUFFICES ASSUME Init PROVE Jobs
  OBVIOUS
<1>1. NoJob \in JobType /\ NoJob.status = "none" /\ NoResult \in ResultType
  BY JobsAssumption DEF NoJob, NoResult, JobType, ResultType, JobStatus, DiffType, JobsAssumption
<1>2. scenario = [j \in Scenarios |-> NoJob] /\ result = [j \in Scenarios |-> NoResult]
      /\ followup = [j \in Followups |-> "none"]
  BY DEF Init, JobsInit
<1>3. JobsTypeOK
  BY <1>1, <1>2 DEF JobsTypeOK, JobType, ResultType, JobStatus
<1> QED BY <1>1, <1>2, <1>3 DEF Jobs, JobInOrder

\* A request for a scenario, on an analysed case.
LEMMA SubmitKeeps ==
    ASSUME Jobs, status = "analyzed" => baseline, NEW j \in Scenarios,
           SubmitScenario(j, status = "analyzed"), UNCHANGED <<status, baseline>>
    PROVE  Jobs'
<1>1. /\ status = "analyzed" /\ result' = result /\ followup' = followup
      /\ \E change \in ChangeSets :
            scenario' = [scenario EXCEPT ![j].status = "pending", ![j].change = change]
  BY DEF SubmitScenario
<1>2. PICK change \in ChangeSets :
          scenario' = [scenario EXCEPT ![j].status = "pending", ![j].change = change]
  BY <1>1
<1>3. scenario \in [Scenarios -> JobType] /\ result \in [Scenarios -> ResultType]
  BY DEF Jobs, JobsTypeOK, JobType, ResultType
<1> DEFINE x == [scenario[j] EXCEPT !.status = "pending", !.change = change]
<1>4. x \in JobType /\ x.status = "pending"
  BY <1>3 DEF JobType, JobStatus
<1>5. scenario' = [scenario EXCEPT ![j] = x]
  BY <1>2, <1>3
<1>6. result' = [result EXCEPT ![j] = result[j]] /\ result[j] \in ResultType
  BY <1>1, <1>3
<1> HIDE DEF x
<1> QED BY <1>1, <1>4, <1>5, <1>6, JobMoves

\* Every step of a job.
LEMMA ScenarioStepKeeps ==
    ASSUME Jobs, NEW j \in Scenarios, ScenarioStep(j, baseline), UNCHANGED <<status, baseline>>
    PROVE  Jobs'
<1>1. scenario \in [Scenarios -> JobType] /\ result \in [Scenarios -> ResultType]
  BY DEF Jobs, JobsTypeOK, JobType, ResultType
<1>2. scenario[j] \in JobType /\ result[j] \in ResultType /\ JobInOrder(j)
      /\ result = [result EXCEPT ![j] = result[j]]
  BY <1>1 DEF Jobs
<1>3. CASE StartScenario(j, baseline)
  <2>1. PICK accepted \in BOOLEAN :
          scenario' = [scenario EXCEPT ![j].status =
                          IF baseline /\ accepted /\ ValidInput(scenario[j].change)
                          THEN "running" ELSE "failed"]
    BY <1>3 DEF StartScenario
  <2> DEFINE to == IF baseline /\ accepted /\ ValidInput(scenario[j].change)
                   THEN "running" ELSE "failed"
             x == [scenario[j] EXCEPT !.status = to]
  <2>2. scenario' = [scenario EXCEPT ![j] = x]
    BY <1>1, <2>1
  <2>3. /\ x \in JobType /\ x.status \in {"running", "failed"} /\ x.change = scenario[j].change
        /\ x.status = "running" => ValidInput(scenario[j].change)
    BY <1>2 DEF JobType, JobStatus
  <2>4. status = "analyzed" /\ baseline /\ UNCHANGED <<followup, result>>
    BY <1>2, <1>3 DEF StartScenario, JobInOrder
  <2> HIDE DEF x
  <2> QED BY <1>2, <2>2, <2>3, <2>4, JobMoves DEF ValidInput
<1>4. ASSUME scenario[j].status = "running"
      PROVE  /\ status = "analyzed" /\ baseline /\ Issues # {}
             /\ scenario[j].change \in ChangeSets /\ scenario[j].change # <<>>
  BY <1>2, <1>4 DEF JobInOrder, JobType
<1>5. CASE CallRaises(j)
  <2> DEFINE x == [scenario[j] EXCEPT !.calls = @ + 1]
  <2>1. scenario' = [scenario EXCEPT ![j] = x]
    BY <1>1, <1>5 DEF CallRaises
  <2>2. /\ scenario[j].status = "running" /\ scenario[j].calls < MaxRetries
        /\ UNCHANGED <<followup, result>>
    BY <1>5 DEF CallRaises
  <2>3. scenario[j].calls + 1 \in 0..MaxRetries
    BY <1>2, <2>2, JobsAssumption DEF JobType, JobsAssumption
  <2>4. x \in JobType /\ x.status = "running" /\ x.change = scenario[j].change
    BY <1>2, <2>2, <2>3 DEF JobType
  <2> HIDE DEF x
  <2> QED BY <1>2, <1>4, <2>1, <2>2, <2>4, JobMoves
<1>6. ASSUME NEW r \in ResultType, Deliver(j, r), Grounded(r), r.change = scenario[j].change,
             scenario[j].status = "running"
      PROVE  Jobs'
  <2> DEFINE x == [scenario[j] EXCEPT !.status = "completed", !.diff = r.diff,
                                      !.affected = r.affected, !.evidence = r.evidence]
  <2>1. scenario' = [scenario EXCEPT ![j] = x]
    BY <1>1, <1>6 DEF Deliver
  <2>2. result' = [result EXCEPT ![j] = r] /\ followup' = followup
    BY <1>6 DEF Deliver
  <2>3. /\ x \in JobType /\ x.status = "completed" /\ x.change = scenario[j].change
        /\ x.diff = r.diff /\ x.affected = r.affected /\ x.evidence = r.evidence
    BY <1>2, <1>6 DEF JobType, JobStatus, ResultType
  <2>4. DiffOf(x) = DiffOf(r)
    BY <2>3 DEF DiffOf
  <2> HIDE DEF x
  <2> QED BY <1>4, <1>6, <2>1, <2>2, <2>3, <2>4, JobMoves
<1>7. CASE SimulationAnswers(j)
  <2>1. PICK answer \in Answers : Deliver(j, Completed(scenario[j].change, answer))
    BY <1>7 DEF SimulationAnswers
  <2>2. scenario[j].status = "running"
    BY <1>7 DEF SimulationAnswers
  <2>3. Completed(scenario[j].change, answer).change = scenario[j].change
    BY DEF Completed
  <2> QED BY <1>4, <1>6, <2>1, <2>2, <2>3, CompletedGrounded
<1>8. CASE SimulationFails(j)
  <2>1. scenario[j].status = "running" /\ Deliver(j, FailedResult(scenario[j].change))
    BY <1>8 DEF SimulationFails
  <2>2. FailedResult(scenario[j].change).change = scenario[j].change
    BY DEF FailedResult, NoResult
  <2> QED BY <1>4, <1>6, <2>1, <2>2, FailedGrounded
<1>9. CASE ResultNotWritten(j)
  <2> DEFINE x == [scenario[j] EXCEPT !.status = "failed"]
  <2>1. scenario' = [scenario EXCEPT ![j] = x]
    BY <1>1, <1>9 DEF ResultNotWritten
  <2>2. scenario[j].status = "running" /\ UNCHANGED <<followup, result>>
    BY <1>9 DEF ResultNotWritten
  <2>3. x \in JobType /\ x.status = "failed"
    BY <1>2 DEF JobType, JobStatus
  <2> HIDE DEF x
  <2> QED BY <1>2, <1>4, <2>1, <2>2, <2>3, JobMoves
<1> QED BY <1>3, <1>5, <1>7, <1>8, <1>9 DEF ScenarioStep

\* The follow-up jobs do not touch the others.
LEMMA FollowupKeeps ==
    ASSUME Jobs, NEW j \in Followups, UNCHANGED <<scenario, result, status, baseline>>,
           NEW to \in JobStatus, followup' = [followup EXCEPT ![j] = to]
    PROVE  Jobs'
BY DEF Jobs, JobsTypeOK, JobInOrder, GetCaseScenario, GetScenario

\* An analysed case has its baseline.
HasBaseline == status = "analyzed" => baseline

\* Every step keeps the invariant of the jobs, and the baseline they work on.
LEMMA JobsStep == Jobs /\ HasBaseline /\ [Next]_vars => (Jobs /\ HasBaseline)'
<1> SUFFICES ASSUME Jobs, HasBaseline, [Next]_vars PROVE (Jobs /\ HasBaseline)'
  OBVIOUS
<1>1. ASSUME UNCHANGED jobVars, baseline => baseline', status = "analyzed" => status' = status
      PROVE  Jobs'
  BY <1>1 DEF jobVars, Jobs, JobsTypeOK, JobInOrder, GetCaseScenario, GetScenario
<1>2. CASE StreamStep
  <2>1. UNCHANGED <<jobVars, baseline>>
    BY <1>2 DEF StreamStep
  <2>2. status' = status \/ (status = "ready" /\ status' = "analyzing")
    BY <1>2 DEF StreamStep, StartAnalysis, Log, Attach, Send, Replay, EndReplay, Take, Disconnect
  <2> QED BY <1>1, <2>1, <2>2 DEF HasBaseline
<1>3. CASE AnalysisEnds
  <2>1. UNCHANGED jobVars /\ status = "analyzing" /\ (status' = "analyzed" => baseline')
    BY <1>3 DEF AnalysisEnds, Finish
  <2>2. \A j \in Scenarios : scenario[j].status = "none"
    BY <2>1 DEF Jobs, JobInOrder
  <2>3. Jobs'
    BY <2>1, <2>2 DEF jobVars, Jobs, JobsTypeOK, JobInOrder
  <2> QED BY <2>1, <2>3 DEF HasBaseline
<1>4. CASE Submit
  <2>1. status' = status /\ baseline' = baseline
    BY <1>4 DEF Submit, streamVars
  <2>2. ASSUME NEW j \in Followups, SubmitFollowup(j, status = "analyzed") PROVE Jobs'
    <3>1. "pending" \in JobStatus
      BY DEF JobStatus
    <3> QED BY <2>1, <2>2, <3>1, FollowupKeeps DEF SubmitFollowup
  <2>3. ASSUME NEW j \in Scenarios, SubmitScenario(j, status = "analyzed") PROVE Jobs'
    BY <2>1, <2>3, SubmitKeeps DEF HasBaseline
  <2> QED BY <1>4, <2>1, <2>2, <2>3 DEF Submit, JobSubmitted, HasBaseline
<1>5. CASE JobRuns
  <2>1. status' = status /\ baseline' = baseline
    BY <1>5 DEF JobRuns, streamVars
  <2>2. ASSUME NEW j \in Followups, RunFollowup(j) PROVE Jobs'
    <3>1. "failed" \in JobStatus
      BY DEF JobStatus
    <3> QED BY <2>1, <2>2, <3>1, FollowupKeeps DEF RunFollowup
  <2>3. ASSUME NEW j \in Scenarios, ScenarioStep(j, baseline) PROVE Jobs'
    BY <2>1, <2>3, ScenarioStepKeeps
  <2> QED BY <1>5, <2>1, <2>2, <2>3 DEF JobRuns, HasBaseline
<1>6. CASE Restart
  <2>1. /\ status' = status /\ baseline' = baseline /\ result' = result
        /\ scenario' = [j \in Scenarios |-> NoJob] /\ followup' = [j \in Followups |-> "none"]
    BY <1>6 DEF Restart, JobsLost
  <2>2. NoJob \in JobType /\ NoJob.status = "none"
    BY JobsAssumption DEF NoJob, JobType, JobStatus, DiffType, JobsAssumption
  <2>3. JobsTypeOK'
    BY <2>1, <2>2 DEF Jobs, JobsTypeOK, JobType, JobStatus
  <2> QED BY <2>1, <2>2, <2>3 DEF Jobs, JobInOrder, HasBaseline
<1>7. CASE UNCHANGED vars
  BY <1>1, <1>7 DEF vars, streamVars, HasBaseline
<1> QED BY <1>2, <1>3, <1>4, <1>5, <1>6, <1>7 DEF Next

\* A job, its result in memory and its file say the same, and only of issues and
\* evidence that exist, for any jobs, answers, change sets, retries and restarts.
THEOREM DiffGroundedHolds == Spec => []DiffGrounded
<1>1. Init => Jobs /\ HasBaseline
  BY InitJobs DEF Init, StreamInit, HasBaseline
<1>2. Jobs => DiffGrounded
  BY DEF Jobs, JobInOrder, DiffGrounded, Grounded, GetCaseScenario, GetScenario, DiffOf
<1> QED BY <1>1, <1>2, JobsStep, PTL DEF Spec
=============================================================================
