--------------------------- MODULE FollowupSession ---------------------------
(***************************************************************************)
(* scripts/run_case.py from the materials to the interactive follow-up:    *)
(* two indexing calls, the extraction, and then questions about the result *)
(* whose answers are kept in session.json.  The process may die anywhere   *)
(* and is started again with --resume.                                     *)
(*                                                                         *)
(* The steps between the extraction and the questions do not change what   *)
(* is modelled here; CasePipeline has them, and the crashes between an     *)
(* artifact and its checkpoint.                                            *)
(***************************************************************************)
EXTENDS CaseIntake

CONSTANTS
    BurdenSets,     \* the sets of references that an answer's burdens may have
    MappingSets,    \* the references that it may map a claim or a defence to
    Questions,      \* what the user may type: sequences of words, spaces and tags
    MaxQuestion,    \* MAX_QUESTION_LENGTH
    Outputs,        \* the answers that the LLM may give to a question
    MaxRetries,     \* retries of a call that has raised
    MaxTurns,       \* bound on the questions
    MaxRuns         \* bound on the runs

\* LLMFollowupOutput.
StatementClasses == {"fact", "inference", "assumption"}
Output == [answer : STRING, issues : SUBSET (Nat \cup MadeUp), evidence : SUBSET EvidenceId,
           cited : SUBSET EvidenceId, class : STRING]

ASSUME SessionAssumption ==
    /\ Questions \subseteq Seq({"word", "space", "tag"}) /\ MaxQuestion \in Nat \ {0}
    /\ Outputs \subseteq Output /\ MaxRetries \in Nat
    /\ BurdenSets \subseteq SUBSET Reference /\ MappingSets \subseteq SUBSET Reference
    /\ MaxTurns \in Nat /\ MaxRuns \in Nat \ {0}

VARIABLES
    stage,      \* what the process is waiting for; "ended" without a process
    attempt,    \* how often the LLM call that it is waiting for has raised
    question,   \* the question that it is waiting for an answer to
    index,      \* ev_index
    tree,       \* issue_tree
    session,    \* session.turns
    disk,       \* evidence_index.json, issue_tree.json, session.json
    runs

vars == <<stage, attempt, question, index, tree, session, disk, runs>>

NoIndex == [p \in Parties |-> <<>>]
NoTree == [ids |-> <<>>, parent |-> <<>>, evidence |-> <<>>, burdened |-> {},
           claims |-> <<>>, defenses |-> <<>>]

\* What session.json is.
Absent == [state |-> "absent", turns |-> <<>>]
Torn == [state |-> "torn", turns |-> <<>>]
Saved(turns) == [state |-> "saved", turns |-> turns]

MaterialsOf(p) == IF p = "plaintiff" THEN PlaintiffMaterials ELSE DefendantMaterials

----------------------------------------------------------------------------
(* LLM calls: call_llm_with_retry around the client *)

Prose == [block |-> Nothing, whole |-> Nothing, braces |-> Nothing, cut |-> Nothing]

\* How the LLM may write an answer down: as it should, in a code block with a stray
\* quotation mark, or cut off; or it says something else.
Written(answer) ==
    {Prose, [Prose EXCEPT !.whole = Clean(answer), !.braces = Clean(answer)],
     [Prose EXCEPT !.block = Mendable(answer)], [Prose EXCEPT !.cut = Clean(answer)]}

\* What the call returns if it returns.
Texts(answer) ==
    {Head(Message(p)) : p \in {q \in Process(Written(answer)) : Message(q) # <<>>}}

LlmCalls == {"plaintiff", "defendant", "issues", "question"}

\* An attempt raises and another one follows.
CallRaises ==
    /\ stage \in LlmCalls /\ attempt < MaxRetries
    /\ \E p \in Process({Prose}) : Message(p) = <<>>
    /\ attempt' = attempt + 1
    /\ UNCHANGED <<stage, question, index, tree, session, disk, runs>>

----------------------------------------------------------------------------
(* Steps 1 and 2 *)

IndexReturns(p) ==
    /\ stage = p
    /\ \E items \in Answers(EvidenceItems) : \E text \in Texts(items) :
          IF ArrayIn(text) # <<>> /\ IndexAccepted(Head(ArrayIn(text)), MaterialsOf(p))
          THEN /\ index' = [index EXCEPT ![p] = Sources(Head(ArrayIn(text)))]
               /\ stage' = IF p = "plaintiff" THEN "defendant" ELSE "issues"
               /\ disk' = IF p = "plaintiff" THEN disk ELSE [disk EXCEPT !.index = index']
          ELSE stage' = "ended" /\ UNCHANGED <<index, disk>>
    /\ attempt' = 0
    /\ UNCHANGED <<question, tree, session, runs>>

ExtractionReturns ==
    /\ stage = "issues"
    /\ \E items \in Answers(IssueItems), burdens \in BurdenSets,
          mapping \in [Claims \cup Defenses -> MappingSets] :
       \E text \in Texts(<<items, burdens, mapping>>) :
          IF ObjectIn(text) # <<>> /\ TreeAccepted(items, burdens)
          THEN /\ tree' = Tree(items, burdens, mapping, IdsOf(index))
               /\ disk' = [disk EXCEPT !.tree = {tree'}]
               /\ stage' = "analysis"
          ELSE stage' = "ended" /\ UNCHANGED <<tree, disk>>
    /\ attempt' = 0
    /\ UNCHANGED <<question, index, session, runs>>

\* The last attempt of a call has failed, the user leaves, or the process is killed.
Ends ==
    /\ stage # "ended" /\ stage' = "ended" /\ attempt' = 0 /\ question' = <<>>
    /\ UNCHANGED <<index, tree, session, disk, runs>>

----------------------------------------------------------------------------
(* SessionManager and FollowupResponder *)

\* Mutant: every run starts a session of its own.
OpenSession_Creates ==
    /\ stage = "analysis"
    /\ session' = <<>> /\ disk' = [disk EXCEPT !.session = Saved(<<>>)]
    /\ stage' = "prompt"
    /\ UNCHANGED <<attempt, question, index, tree, runs>>

\* load_or_create: a torn file is replaced.
OpenSession ==
    /\ stage = "analysis"
    /\ session' = disk.session.turns
    /\ disk' = [disk EXCEPT !.session = Saved(session')]
    /\ stage' = "prompt"
    /\ UNCHANGED <<attempt, question, index, tree, runs>>

Stripped(q) ==
    LET kept == {n \in DOMAIN q : q[n] # "space"}
    IN  IF kept = {} THEN <<>> ELSE SubSeq(q, Min(kept), Max(kept))

\* sanitize_question: no tags, no space around, not too long; empty if it is refused.
Sanitized(q) ==
    LET bare == Stripped(SelectSeq(Stripped(q), LAMBDA part : part # "tag"))
    IN  SubSeq(bare, 1, Min({MaxQuestion, Len(bare)}))

\* The user is asked again for a question that is refused; a report without sections
\* raises.
Ask ==
    /\ stage = "prompt" /\ Len(session) < MaxTurns
    /\ \E q \in Questions :
          /\ Sanitized(q) # <<>>
          /\ IF tree.ids = <<>> THEN stage' = "ended" /\ UNCHANGED question
             ELSE stage' = "question" /\ question' = Sanitized(q)
    /\ UNCHANGED <<attempt, index, tree, session, disk, runs>>

ReportIssues == Range(tree.ids)
ReportEvidence == UNION Range(tree.evidence)

\* A turn is about the first issue if nothing better is known.
Bound(issues) == IF issues \cap ReportIssues # {} THEN issues \cap ReportIssues
                 ELSE {Min(ReportIssues)}

\* _resolve_statement_class.
ResolvedClass(raw) == IF raw \in StatementClasses THEN raw ELSE "inference"

\* Mutant: evidence that only a citation names is not checked.
Turn_CitationsKept(output) ==
    [question |-> question, answer |-> output.answer, class |-> ResolvedClass(output.class),
     issues |-> Bound(output.issues),
     evidence |-> (output.evidence \cap ReportEvidence) \cup output.cited]

\* _build_turn.
Turn(output) ==
    [question |-> question, answer |-> output.answer, class |-> ResolvedClass(output.class),
     issues |-> Bound(output.issues),
     evidence |-> (output.evidence \cup output.cited) \cap ReportEvidence]

\* The turn that reports that the call has failed.
ErrorTurn ==
    [question |-> question, answer |-> "error", class |-> "inference",
     issues |-> {Min(ReportIssues)}, evidence |-> {}]

\* append_turn: in memory, then in the file, which a crash may tear.
AppendTurn(turn) ==
    /\ session' = Append(session, turn)
    /\ \/ stage' = "prompt" /\ disk' = [disk EXCEPT !.session = Saved(session')]
       \/ stage' = "ended" /\ disk' = [disk EXCEPT !.session = Torn]

\* An answer that cannot be read or that is empty is a ValueError, which respond_safe
\* passes on.
AnswerReturns ==
    /\ stage = "question"
    /\ \E output \in Outputs : \E text \in Texts(output) :
          IF ObjectIn(text) # <<>> /\ output.answer # ""
          THEN AppendTurn(Turn(Head(ObjectIn(text))))
          ELSE stage' = "ended" /\ UNCHANGED <<session, disk>>
    /\ attempt' = 0 /\ question' = <<>>
    /\ UNCHANGED <<index, tree, runs>>

\* respond_safe after the last attempt: a turn that reports the error.
AnswerFails ==
    /\ stage = "question" /\ attempt = MaxRetries
    /\ AppendTurn(ErrorTurn)
    /\ attempt' = 0 /\ question' = <<>>
    /\ UNCHANGED <<index, tree, runs>>

----------------------------------------------------------------------------
\* Each step reads back what its predecessor has left, or is done again.
Resume ==
    /\ stage = "ended" /\ runs < MaxRuns /\ runs' = runs + 1
    /\ index' = disk.index
    /\ tree' = IF disk.tree = {} THEN NoTree ELSE CHOOSE t \in disk.tree : TRUE
    /\ stage' = IF disk.tree # {} THEN "analysis"
                ELSE IF disk.index # NoIndex THEN "issues" ELSE "plaintiff"
    /\ session' = <<>>
    /\ UNCHANGED <<attempt, question, disk>>

Init ==
    /\ stage = "plaintiff" /\ attempt = 0 /\ question = <<>> /\ runs = 1
    /\ index = NoIndex /\ tree = NoTree /\ session = <<>>
    /\ disk = [index |-> NoIndex, tree |-> {}, session |-> Absent]

Next == \/ \E p \in Parties : IndexReturns(p)
        \/ CallRaises \/ ExtractionReturns \/ Ends \/ OpenSession \/ Ask \/ AnswerReturns \/ AnswerFails
        \/ Resume

Spec == Init /\ [][Next]_vars

----------------------------------------------------------------------------
(* Properties *)

\* An extracted tree keeps the contract of validate_issue_tree whatever the LLM has
\* returned: every issue at the top has a burden, every claim and defence is mapped, a
\* parent is an issue of the tree, and evidence is in the index.  Only the ids need not
\* be unique, and then a parent may be lost: Proper gives issues of one name one id.
TreeKeepsContract ==
    \A t \in disk.tree :
        /\ \A error \in IssueTreeErrors(t) : error[1] \in {"duplicate", "dangling"}
        /\ IsInjective(t.ids) => IssueTreeErrors(t) = {}
        /\ t.ids # <<>> => DOMAIN t.claims = Claims /\ DOMAIN t.defenses = Defenses
        /\ UNION Range(t.evidence) \subseteq IdsOf(disk.index)

\* validate_turn, which nothing calls on the way: the errors that it finds in a turn,
\* given the issues and the evidence of the report.
TurnErrors(turn, issues, evidence) ==
    (IF turn.question = <<>> \/ turn.answer = "" THEN {"MISSING_FIELD"} ELSE {})
    \cup (IF turn.issues = {} THEN {"EMPTY_ISSUE_IDS"} ELSE {})
    \cup {"INVALID_STATEMENT_CLASS" : c \in {turn.class} \ StatementClasses}
    \cup {"EVIDENCE_BOUNDARY_VIOLATION" : e \in turn.evidence \ evidence}
    \cup {"DANGLING_ISSUE_REF" : i \in turn.issues \ issues}

\* Every turn of the session passes validate_turn, over any number of runs and
\* whatever the LLM has answered: it is about an issue of the report and cites
\* evidence of the report only ("evidence_ids are report-cited evidence, issue_ids
\* non-empty").
TurnsGrounded ==
    \A turns \in {session, disk.session.turns} :
        \A n \in DOMAIN turns :
            \E t \in disk.tree :
                TurnErrors(turns[n], Range(t.ids), UNION Range(t.evidence)) = {}

\* What the file says is never forgotten, except by a crash that tears it.
HistoryKept ==
    [][disk'.session = Torn \/ IsPrefix(disk.session.turns, disk'.session.turns)]_vars

=============================================================================
