--------------------------- MODULE PretrialProofs ---------------------------
(***************************************************************************)
(* Proofs about PretrialConference, for any evidence, any bound on answers *)
(* and retries, and any number of conferences.                             *)
(***************************************************************************)
EXTENDS PretrialConference, TLAPS

\* What a conference has produced before it is over.
Fresh ==
    /\ phase \notin {"judge", "done"} => records = {} /\ focus = {}
    /\ phase # "done" => questions = {}

\* The inductive invariant.  The records can only agree with the board because
\* nothing touches the board after the resolution, and a new conference starts
\* with none (Fresh).
Sound == TypeOK /\ BoardConsistent /\ Fresh /\ RecordsMatchBoard /\ NothingPrivateDisclosed

----------------------------------------------------------------------------
(* Items *)

\* What BoardConsistent says of one item.
ItemConsistent(item, e) ==
    /\ item.domain = DomainMap[item.status]
    /\ item.submittedBy = IF item.status = "private" THEN NoParty ELSE Owner[e]
    /\ Owner[e] \notin item.challengedBy
    /\ item.status = "challenged" => item.challengedBy # {}

Good(item, e) == item \in Item /\ ItemConsistent(item, e)

\* The audience of new is at least that of old.
Wider(old, new) == Board!Rank[old.domain] <= Board!Rank[new.domain]

\* The access domain of each status, as a set of facts.
LEMMA Domains ==
    /\ \A s \in EvidenceStatus : DomainMap[s] \in AccessDomain
    /\ Board!Rank[DomainMap["private"]] = 0
    /\ Board!Rank[DomainMap["submitted"]] = 1
    /\ Board!Rank[DomainMap["challenged"]] = 1
    /\ Board!Rank[DomainMap["admitted_for_discussion"]] = 2
BY DEF DomainMap, EvidenceStatus, AccessDomain, Board!Rank

\* An owner's submission of a private item: EvidenceStateMachine.submit.
LEMMA SubmitItem ==
    ASSUME NEW e \in Evidence, NEW item, Good(item, e), item.status = "private"
    PROVE  /\ Good(Submit(item, Owner[e]), e)
           /\ Submit(item, Owner[e]).status = "submitted"
           /\ Wider(item, Submit(item, Owner[e]))
BY Domains, EvidenceAssumption
   DEF EvidenceAssumption, Good, Item, ItemConsistent, Submit, Transition, EvidenceStatus, Wider

\* Admission of an item that is on the table: EvidenceStateMachine.admit.
LEMMA AdmitItem ==
    ASSUME NEW e \in Evidence, NEW item, Good(item, e), item.status # "private"
    PROVE  /\ Good(Admit(item), e)
           /\ Admit(item).status = "admitted_for_discussion"
           /\ Wider(item, Admit(item))
BY Domains, EvidenceAssumption
   DEF EvidenceAssumption, Good, Item, ItemConsistent, Admit, Transition, EvidenceStatus, Wider

\* A challenge by the other party: EvidenceStateMachine.challenge.
LEMMA ChallengeItem ==
    ASSUME NEW e \in Evidence, NEW item, Good(item, e), item.status = "submitted"
    PROVE  LET new == Challenge(item, Opponent(Owner[e]))
           IN  Good(new, e) /\ new.status = "challenged" /\ Wider(item, new)
<1>1. Opponent(Owner[e]) \in Parties /\ Opponent(Owner[e]) # Owner[e]
  BY EvidenceAssumption, ConferenceAssumption
     DEF EvidenceAssumption, ConferenceAssumption, Opponent
<1> QED BY <1>1, Domains
        DEF Good, Item, ItemConsistent, Challenge, Transition, EvidenceStatus, Wider

\* The audience of an item is at least its own.
LEMMA WiderReflexive == ASSUME NEW item \in Item PROVE Wider(item, item)
BY DEF Wider, Board!Rank, Item, AccessDomain

\* ... and a widened one may be widened further.
LEMMA WiderTransitive ==
    ASSUME NEW a \in Item, NEW b \in Item, NEW c \in Item, Wider(a, b), Wider(b, c)
    PROVE  Wider(a, c)
BY DEF Wider, Board!Rank, Item, AccessDomain

\* The board as a whole, in terms of its items.
GoodBoard(b) == b \in [Evidence -> Item] /\ \A e \in Evidence : Good(b[e], e)

\* The type of the board and its consistency, said of the items one by one.
LEMMA BoardItems ==
    TypeOK /\ BoardConsistent <=> TypeOK /\ GoodBoard(board)
BY DEF TypeOK, BoardConsistent, GoodBoard, Good, ItemConsistent

\* bulk_submit that does not raise: every item stays good and none narrows.
LEMMA BulkSubmitBoard ==
    ASSUME NEW b, GoodBoard(b), NEW party \in Parties, NEW ids \in SUBSET Evidence,
           ~BulkSubmitRaises(b, party, ids)
    PROVE  /\ GoodBoard(BulkSubmit(b, party, ids))
           /\ \A e \in Evidence : Wider(b[e], BulkSubmit(b, party, ids)[e])
<1> DEFINE new == BulkSubmit(b, party, ids)
<1>1. ASSUME NEW e \in Evidence PROVE Good(new[e], e) /\ Wider(b[e], new[e])
  <2>1. CASE e \in ids /\ b[e].status = "private"
    BY <2>1, SubmitItem DEF BulkSubmit, BulkSubmitRaises, GoodBoard
  <2>2. CASE ~(e \in ids /\ b[e].status = "private")
    BY <2>2, WiderReflexive DEF BulkSubmit, GoodBoard, Good
  <2> QED BY <2>1, <2>2
<1>2. new \in [Evidence -> Item]
  BY <1>1 DEF BulkSubmit, Good
<1> QED BY <1>1, <1>2 DEF GoodBoard

----------------------------------------------------------------------------
(* The board under each step *)

\* The board stays good and every item keeps or widens its audience.
Widens == GoodBoard(board') /\ \A e \in Evidence : Wider(board[e], board'[e])

\* A step that leaves the board alone.
LEMMA SameBoard == GoodBoard(board) /\ UNCHANGED board => Widens
BY WiderReflexive DEF Widens, GoodBoard

\* Stage 1 of a conference.
LEMMA StartBoard ==
    ASSUME GoodBoard(board), NEW pIds \in SUBSET Evidence, NEW dIds \in SUBSET Evidence,
           StartConference(pIds, dIds)
    PROVE  Widens
<1> DEFINE first == BulkSubmit(board, Plaintiff, pIds)
           second == BulkSubmit(first, Defendant, dIds)
<1>1. CASE UNCHANGED board
  BY <1>1, SameBoard
<1>2. CASE ~UNCHANGED board
  <2>1. /\ ~BulkSubmitRaises(board, Plaintiff, pIds)
        /\ ~BulkSubmitRaises(first, Defendant, dIds)
        /\ board' = second
    BY <1>2 DEF StartConference
  <2>2. Plaintiff \in Parties /\ Defendant \in Parties
    BY ConferenceAssumption DEF ConferenceAssumption
  <2>3. GoodBoard(first) /\ \A e \in Evidence : Wider(board[e], first[e])
    BY <2>1, <2>2, BulkSubmitBoard
  <2>4. GoodBoard(second) /\ \A e \in Evidence : Wider(first[e], second[e])
    <3> HIDE DEF first
    <3> QED BY <2>1, <2>2, <2>3, BulkSubmitBoard
  <2>5. \A e \in Evidence : Wider(board[e], second[e])
    <3> HIDE DEF first, second
    <3> QED BY <2>3, <2>4, WiderTransitive DEF GoodBoard
  <2> QED BY <2>1, <2>4, <2>5 DEF Widens
<1> QED BY <1>1, <1>2

\* The rule layer; it also gives each examined item the status of its record.
LEMMA ResolveBoard ==
    ASSUME GoodBoard(board), Resolve
    PROVE  Widens /\ \A e \in Examined : board'[e].status = Result(e)
<1>1. ASSUME NEW e \in Evidence
      PROVE  /\ Good(board'[e], e) /\ Wider(board[e], board'[e])
             /\ e \in Examined => board'[e].status = Result(e)
  <2>1. CASE e \in Examined
    <3>1. board[e].status = "submitted" /\ Good(board[e], e) /\ board'[e] = Resolved(e)
      BY <2>1 DEF Examined, Submitted, GoodBoard, Resolve
    <3>2. CASE Result(e) = "challenged"
      BY <3>1, <3>2, ChallengeItem DEF Resolved
    <3>3. CASE Result(e) # "challenged"
      BY <3>1, <3>3, AdmitItem DEF Resolved, Result
    <3> QED BY <3>2, <3>3
  <2>2. CASE e \notin Examined
    BY <2>2, WiderReflexive DEF Resolve, GoodBoard, Good
  <2> QED BY <2>1, <2>2
<1>2. board' \in [Evidence -> Item]
  BY <1>1 DEF Resolve, Good
<1> QED BY <1>1, <1>2 DEF Widens, GoodBoard, Examined, Submitted

\* The API's promotion of cited evidence.
LEMMA PromoteBoard ==
    ASSUME GoodBoard(board), NEW cited \in SUBSET Evidence, PromoteCited(cited)
    PROVE  Widens
<1>1. ASSUME NEW e \in Evidence PROVE Good(board'[e], e) /\ Wider(board[e], board'[e])
  <2> DEFINE item == board[e]
  <2>1. Good(item, e) /\ item \in Item /\ item.status \in EvidenceStatus
    BY DEF GoodBoard, Good, Item
  <2>2. CASE e \in cited /\ item.status = "private"
    <3> DEFINE mid == Submit(item, Owner[e])
    <3>1. board'[e] = Admit(mid)
      BY <2>2 DEF PromoteCited, Promoted
    <3>2. Good(mid, e) /\ mid.status = "submitted" /\ Wider(item, mid)
      BY <2>1, <2>2, SubmitItem
    <3> HIDE DEF mid, item
    <3>3. Good(Admit(mid), e) /\ Wider(mid, Admit(mid))
      BY <3>2, AdmitItem
    <3>4. Wider(item, Admit(mid))
      BY <2>1, <3>2, <3>3, WiderTransitive DEF Good
    <3> QED BY <3>1, <3>3, <3>4 DEF item
  <2>3. CASE e \in cited /\ item.status \in {"submitted", "challenged"}
    BY <2>1, <2>3, AdmitItem DEF PromoteCited, Promoted
  <2>4. CASE e \notin cited \/ item.status = "admitted_for_discussion"
    BY <2>1, <2>4, WiderReflexive DEF PromoteCited, Promoted
  <2> QED BY <2>1, <2>2, <2>3, <2>4 DEF EvidenceStatus
<1>2. board' \in [Evidence -> Item]
  BY <1>1 DEF PromoteCited, Good
<1> QED BY <1>1, <1>2 DEF Widens, GoodBoard

----------------------------------------------------------------------------
(* The invariant *)

\* Every item is private at first, and nothing has been said about any.
LEMMA InitSound == Init => Sound
<1> SUFFICES ASSUME Init PROVE Sound
  OBVIOUS
<1>1. TypeOK
  BY ConferenceAssumption
     DEF Init, TypeOK, ConferenceAssumption, PrivateItem, Item, EvidenceStatus, AccessDomain, Phase
<1>2. BoardConsistent
  BY DEF Init, BoardConsistent, PrivateItem, DomainMap
<1>3. Fresh /\ RecordsMatchBoard /\ NothingPrivateDisclosed
  BY DEF Init, Fresh, RecordsMatchBoard, NothingPrivateDisclosed
<1> QED BY <1>1, <1>2, <1>3 DEF Sound

\* The examiner of a batch is a party, and what passes the parser is an opinion.
LEMMA ValidatedType ==
    ASSUME NEW answer, NEW ph
    PROVE  Validated(answer, ExaminerOf(ph)) \subseteq Opinion
<1>1. ExaminerOf(ph) \in Parties
  BY ConferenceAssumption DEF ConferenceAssumption, ExaminerOf
<1> QED BY <1>1 DEF Validated, Opinion

\* The invariant is about these variables only, but for the types.
LEMMA Rest ==
    ASSUME Sound, Widens, UNCHANGED route,
           phase' \in Phase, attempt' \in 0..MaxRetries, opinions' \subseteq Opinion,
           conferences' \in 0..MaxConferences,
           records' \subseteq [ev : Evidence, result : {"challenged", "admitted_for_discussion"}],
           focus' \subseteq Evidence, questions' \subseteq Evidence,
           Fresh', RecordsMatchBoard', questions' \subseteq Admitted'
    PROVE  Sound'
<1>1. TypeOK' /\ BoardConsistent'
  <2>1. TypeOK'
    BY DEF Sound, TypeOK, Widens, GoodBoard
  <2> QED BY <2>1 DEF Widens, GoodBoard, Good, ItemConsistent, BoardConsistent
<1>2. NothingPrivateDisclosed'
  <2>1. \A r \in records' : board'[r.ev].status # "private"
    BY DEF Fresh, RecordsMatchBoard, Phase
  <2>2. \A e \in focus' : board'[e].status # "private"
    BY <2>1 DEF Fresh, RecordsMatchBoard, Phase
  <2> QED BY <2>1, <2>2 DEF NothingPrivateDisclosed
<1> QED BY <1>1, <1>2 DEF Sound

\* Every step keeps the invariant, and narrows the audience of no item.
LEMMA SoundStep == Sound /\ [Next]_vars => Sound' /\ Widens
<1> SUFFICES ASSUME Sound, [Next]_vars PROVE Sound' /\ Widens
  OBVIOUS
<1>0. GoodBoard(board) /\ TypeOK /\ Fresh /\ RecordsMatchBoard /\ NothingPrivateDisclosed
  BY BoardItems DEF Sound
<1> USE ConferenceAssumption DEF ConferenceAssumption
<1>1. ASSUME NEW pIds \in SUBSET Evidence, NEW dIds \in SUBSET Evidence,
             StartConference(pIds, dIds)
      PROVE Sound' /\ Widens
  <2>1. Widens
    BY <1>0, <1>1, StartBoard
  <2>2. phase' \in {"raised", "plaintiff_batch"} /\ conferences' \in 0..MaxConferences
    BY <1>0, <1>1 DEF StartConference, TypeOK
  <2>3. records' = {} /\ focus' = {} /\ questions' = {} /\ opinions' = {} /\ attempt' = 0
        /\ UNCHANGED route
    BY <1>1 DEF StartConference
  <2>4. Fresh' /\ RecordsMatchBoard'
    BY <2>2, <2>3 DEF Fresh, RecordsMatchBoard
  <2> QED BY <2>1, <2>2, <2>3, <2>4, Rest DEF Phase
<1>2. CASE SkipBatch
  <2>1. Widens
    BY <1>0, <1>2, SameBoard DEF SkipBatch
  <2>2. phase' \in {"defendant_batch", "resolve"} /\ Examining
    BY <1>2 DEF SkipBatch, After
  <2>3. Fresh' /\ RecordsMatchBoard' /\ questions' \subseteq Admitted'
    BY <1>0, <1>2, <2>2 DEF SkipBatch, Examining, Fresh, RecordsMatchBoard
  <2> QED BY <1>0, <1>2, <2>1, <2>2, <2>3, Rest DEF SkipBatch, TypeOK, Phase
<1>3. ASSUME NEW answer, BatchAnswered(answer) PROVE Sound' /\ Widens
  <2>1. Widens
    BY <1>0, <1>3, SameBoard DEF BatchAnswered
  <2>2. phase' \in {"defendant_batch", "resolve"} /\ Examining
    BY <1>3 DEF BatchAnswered, After
  <2>3. Fresh' /\ RecordsMatchBoard' /\ questions' \subseteq Admitted'
    BY <1>0, <1>3, <2>2 DEF BatchAnswered, Examining, Fresh, RecordsMatchBoard
  <2>4. opinions' \subseteq Opinion /\ attempt' \in 0..MaxRetries
    BY <1>0, <1>3, ValidatedType DEF BatchAnswered, TypeOK
  <2> QED BY <1>0, <1>3, <2>1, <2>2, <2>3, <2>4, Rest DEF BatchAnswered, TypeOK, Phase
<1>4. CASE BatchFails
  <2>1. Widens
    BY <1>0, <1>4, SameBoard DEF BatchFails
  <2>2. phase' \in {"plaintiff_batch", "defendant_batch", "resolve"} /\ Examining
    BY <1>4 DEF BatchFails, After, Examining
  <2>3. Fresh' /\ RecordsMatchBoard' /\ questions' \subseteq Admitted'
    BY <1>0, <1>4, <2>2 DEF BatchFails, Examining, Fresh, RecordsMatchBoard
  <2>4. attempt' \in 0..MaxRetries
    BY <1>0, <1>4 DEF BatchFails, TypeOK
  <2> QED BY <1>0, <1>4, <2>1, <2>2, <2>3, <2>4, Rest DEF BatchFails, TypeOK, Phase
<1>5. CASE Resolve
  <2>1. Widens /\ \A e \in Examined : board'[e].status = Result(e)
    BY <1>0, <1>5, ResolveBoard
  <2>2. /\ \A e \in Examined : e \in Evidence /\ Result(e) \in {"challenged", "admitted_for_discussion"}
        /\ records' = {[ev |-> e, result |-> Result(e)] : e \in Examined}
        /\ focus' = {o.ev : o \in {p \in opinions : p.ev \in Examined /\ p.verdict = "challenged"}}
        /\ phase' = "judge" /\ questions' = {}
    BY <1>0, <1>5 DEF Resolve, Result, Examined, Submitted, Fresh
  <2>3. focus' = {e \in Examined : Result(e) = "challenged"}
    BY <2>2 DEF Result
  <2>4. {r.ev : r \in {s \in records' : s.result = "challenged"}}
          = {e \in Examined : Result(e) = "challenged"}
    <3>1. ASSUME NEW r \in records', r.result = "challenged"
          PROVE  r.ev \in Examined /\ Result(r.ev) = "challenged"
      BY <2>2, <3>1
    <3>2. ASSUME NEW e \in Examined, Result(e) = "challenged"
          PROVE  \E r \in records' : r.result = "challenged" /\ r.ev = e
      <4>1. [ev |-> e, result |-> Result(e)] \in records'
        BY <2>2
      <4> QED BY <3>2, <4>1
    <3> QED BY <3>1, <3>2
  <2>5. \A r \in records' : board'[r.ev].status = r.result
    BY <2>1, <2>2
  <2>6. Fresh' /\ RecordsMatchBoard'
    BY <2>2, <2>3, <2>4, <2>5 DEF Fresh, RecordsMatchBoard
  <2>7. focus' \subseteq Evidence
        /\ records' \subseteq [ev : Evidence, result : {"challenged", "admitted_for_discussion"}]
    BY <2>2, <2>3
  <2> QED BY <1>0, <1>5, <2>1, <2>2, <2>6, <2>7, Rest DEF Resolve, TypeOK, Phase
<1>6. ASSUME NEW asked, JudgeAsks(asked) PROVE Sound' /\ Widens
  <2>1. Widens
    BY <1>0, <1>6, SameBoard DEF JudgeAsks
  <2>2. Fresh' /\ RecordsMatchBoard'
    BY <1>0, <1>6 DEF JudgeAsks, Fresh, RecordsMatchBoard
  <2>3. questions' \subseteq Admitted' /\ questions' \subseteq Evidence
    BY <1>6 DEF JudgeAsks, Admitted
  <2> QED BY <1>0, <1>6, <2>1, <2>2, <2>3, Rest DEF JudgeAsks, TypeOK, Phase
<1>7. ASSUME NEW cited \in SUBSET Evidence, PromoteCited(cited) PROVE Sound' /\ Widens
  <2>1. Widens
    BY <1>0, <1>7, PromoteBoard
  <2>2. records' = {} /\ focus' = {} /\ questions' = {} /\ phase' = "done"
    BY <1>0, <1>7 DEF PromoteCited, Fresh
  <2>3. Fresh' /\ RecordsMatchBoard'
    BY <2>2 DEF Fresh, RecordsMatchBoard
  <2> QED BY <1>0, <1>7, <2>1, <2>2, <2>3, Rest DEF PromoteCited, TypeOK, Phase
<1>8. CASE UNCHANGED vars
  <2>1. Widens
    BY <1>0, <1>8, SameBoard DEF vars
  <2>2. Fresh' /\ RecordsMatchBoard' /\ questions' \subseteq Admitted'
    BY <1>0, <1>8 DEF vars, Fresh, RecordsMatchBoard, NothingPrivateDisclosed, Admitted
  <2> QED BY <1>0, <1>8, <2>1, <2>2, Rest DEF vars, TypeOK
<1> QED BY <1>1, <1>2, <1>3, <1>4, <1>5, <1>6, <1>7, <1>8 DEF Next, ConferenceStep

\* The invariant in every reachable state.
LEMMA Invariance == Spec => []Sound
<1>1. Init => Sound
  BY InitSound
<1>2. Sound /\ [Next]_vars => Sound'
  BY SoundStep
<1> QED BY <1>1, <1>2, PTL DEF Spec

\* Status, access domain and submitter of an item move together, whatever the
\* LLM answers and however many conferences meet the item (transition and
\* bulk_submit of EvidenceStateMachine).
THEOREM BoardConsistentHolds == Spec => []BoardConsistent
<1>1. Sound => BoardConsistent
  BY DEF Sound
<1> QED BY <1>1, Invariance, PTL

\* The records of a conference and the index that it returns agree
\* (_build_records_and_transition).
THEOREM RecordsMatchBoardHolds == Spec => []RecordsMatchBoard
<1>1. Sound => RecordsMatchBoard
  BY DEF Sound
<1> QED BY <1>1, Invariance, PTL

\* Nothing that is still private is on the records, the focus list or among the
\* judge's references, whatever ids the LLM makes up.
THEOREM NothingPrivateDisclosedHolds == Spec => []NothingPrivateDisclosed
<1>1. Sound => NothingPrivateDisclosed
  BY DEF Sound
<1> QED BY <1>1, Invariance, PTL

\* A submission admits nothing.
LEMMA BulkSubmitAdmitsNothing ==
    ASSUME NEW b, NEW party, NEW ids, NEW e \in Evidence,
           BulkSubmit(b, party, ids)[e].status = "admitted_for_discussion"
    PROVE  b[e].status = "admitted_for_discussion"
BY DEF BulkSubmit, Submit, Transition

\* An item is admitted by a conference only while it is submitted, on opinions of
\* that conference of which none challenges it.
THEOREM SilenceIsNoConsentHolds == Spec => SilenceIsNoConsent
<1> DEFINE Unopposed(e) ==
              /\ phase = "resolve" /\ board[e].status = "submitted"
              /\ \E o \in opinions : o.ev = e
              /\ \A o \in opinions : o.ev = e => o.verdict # "challenged"
           Consent ==
      \A e \in Evidence :
         route = "cli" /\ board[e].status # "admitted_for_discussion"
             /\ board'[e].status = "admitted_for_discussion"
           => Unopposed(e)
<1>1. Sound /\ [Next]_vars => [Consent]_vars
  <2> SUFFICES ASSUME Sound, Next, NEW e \in Evidence, route = "cli",
                      board'[e].status = "admitted_for_discussion",
                      board[e].status # "admitted_for_discussion"
               PROVE  Unopposed(e)
    OBVIOUS
  <2>1. Resolve
    <3>1. ASSUME NEW pIds, NEW dIds, StartConference(pIds, dIds) PROVE FALSE
      <4> DEFINE first == BulkSubmit(board, Plaintiff, pIds)
      <4>1. board' = board \/ board' = BulkSubmit(first, Defendant, dIds)
        BY <3>1 DEF StartConference
      <4> HIDE DEF first
      <4>2. first[e].status = "admitted_for_discussion"
        BY <4>1, BulkSubmitAdmitsNothing
      <4> QED BY <4>2, BulkSubmitAdmitsNothing DEF first
    <3> QED BY <3>1 DEF Next, ConferenceStep, SkipBatch, BatchAnswered, BatchFails,
           Examining, JudgeAsks, PromoteCited
  <2>2. GoodBoard(board)
    BY BoardItems DEF Sound
  <2>3. e \in Examined
    BY <2>1 DEF Resolve
  <2>4. Result(e) # "challenged"
    BY <2>1, <2>2, <2>3, ResolveBoard
  <2> QED BY <2>1, <2>3, <2>4 DEF Resolve, Examined, Submitted, Result
<1> QED BY <1>1, Invariance, PTL DEF Spec, SilenceIsNoConsent

\* The conference and the promotion implement the evidence board: from private
\* on, every step keeps or widens the audience of every item.
THEOREM ImplementsBoard == Spec => BoardSpec
<1> DEFINE audience == [e \in Evidence |-> board[e].domain]
<1>1. Init => Board!Init
  BY DEF Init, Board!Init, PrivateItem
<1>2. Sound /\ [Next]_vars => [Board!Widen]_audience
  <2> SUFFICES ASSUME Sound, [Next]_vars PROVE Board!Widen
    OBVIOUS
  <2>1. Widens
    BY SoundStep
  <2>2. audience' \in [Evidence -> Board!Audience]
    BY <2>1 DEF Widens, GoodBoard, Item, AccessDomain, Board!Audience, Board!Rank
  <2>3. \A e \in Evidence : Board!Rank[audience[e]] <= Board!Rank[audience'[e]]
    BY <2>1 DEF Widens, Wider
  <2> QED BY <2>2, <2>3 DEF Board!Widen
<1> QED BY <1>1, <1>2, Invariance, PTL DEF Spec, BoardSpec, Board!Spec

=============================================================================
