--------------------------- MODULE FollowupProofs ---------------------------
(***************************************************************************)
(* Proofs about FollowupSession and CaseIntake, for any materials, any     *)
(* answers of the LLM, any questions, and any number of retries, turns and *)
(* runs: the issue tree that is accepted keeps its contract, every turn of *)
(* a session is grounded in it, and no turn is forgotten.                  *)
(***************************************************************************)
EXTENDS FollowupSession, WellFoundedInduction, TLAPS

----------------------------------------------------------------------------
(* The least and the greatest number of a set.  Induction over the numbers *)
(* is the least number of the set of those for which something fails.      *)

\* Some numbers have a least one.
LEMMA LeastNumber ==
    ASSUME NEW S \in SUBSET Nat, S # {}
    PROVE  \E x \in S : \A y \in S : x <= y
<1> DEFINE R == {ss \in Nat \X Nat : ss[1] < ss[2]}
<1>1. IsWellFoundedOn(R, Nat)
  BY NatLessThanWellFounded DEF OpToRel
<1> HIDE DEF R
<1>2. PICK x \in S : \A y \in S : ~ (<<y, x>> \in R)
  BY <1>1, WFMin
<1>3. \A y \in S : ~ (y < x)
  BY <1>2 DEF R
<1> QED BY <1>3

\* Min picks the least of some numbers.
LEMMA MinIsIn ==
    ASSUME NEW S \in SUBSET Nat, S # {}
    PROVE  Min(S) \in S
BY LeastNumber DEF Min

\* Max picks the greatest of some numbers up to k.
LEMMA MaxIsIn ==
    ASSUME NEW k \in Nat, NEW S \in SUBSET (1..k), S # {}
    PROVE  Max(S) \in S
<1> DEFINE Back == {n \in Nat : k - n \in S}
<1>1. PICK x \in S : TRUE
  OBVIOUS
<1>2. k - x \in Back
  OBVIOUS
<1>3. PICK b \in Back : \A n \in Back : b <= n
  BY <1>2, LeastNumber
<1>4. k - b \in S /\ \A y \in S : k - b >= y
  <2>1. ASSUME NEW y \in S PROVE k - b >= y
    <3>1. k - (k - y) = y /\ k - y \in Nat
      OBVIOUS
    <3>2. k - y \in Back
      BY <3>1
    <3> QED BY <1>3, <3>2
  <2> QED BY <1>3, <2>1
<1> QED BY <1>4 DEF Max

----------------------------------------------------------------------------
(* CaseIntake: the tree that is made of an answer *)

\* The number of an issue is the last one of its name.
LEMMA IdIsIn ==
    ASSUME NEW k \in Nat, NEW items, DOMAIN items = 1..k, NEW n \in 1..k
    PROVE  /\ IdOf(items, n) \in 1..k
           /\ NameOf(items, IdOf(items, n)) = NameOf(items, n)
<1> DEFINE Same == {m \in 1..k : NameOf(items, m) = NameOf(items, n)}
<1>1. n \in Same /\ Same \in SUBSET (1..k)
  OBVIOUS
<1>2. Max(Same) \in Same
  BY <1>1, MaxIsIn
<1> QED BY <1>2 DEF IdOf

\* What a name stands for is the number of each issue that has it.
LEMMA ProperOfName ==
    ASSUME NEW k \in Nat, NEW items, DOMAIN items = 1..k, NEW n \in 1..k
    PROVE  Proper(items, NameOf(items, n)) = {IdOf(items, n)}
BY DEF Proper, IdOf

\* Without issues of one name, a reference stands for issues of the answer only.
LEMMA ProperResolves ==
    ASSUME NEW k \in Nat, NEW items, DOMAIN items = 1..k, NEW ref,
           \A n, m \in 1..k : IdOf(items, n) = IdOf(items, m) => n = m
    PROVE  Proper(items, ref) \subseteq {IdOf(items, n) : n \in 1..k}
<1> DEFINE named == {n \in 1..k : NameOf(items, n) = ref}
<1>1. CASE named # {}
  <2>1. PICK n \in 1..k : NameOf(items, n) = ref
    BY <1>1
  <2> QED BY <2>1, ProperOfName
<1>2. CASE named = {}
  <2>1. ASSUME NEW n \in 1..k PROVE n = IdOf(items, n)
    <3>1. IdOf(items, IdOf(items, n)) = IdOf(items, n)
      BY IdIsIn DEF IdOf
    <3> QED BY <3>1, IdIsIn
  <2>2. Proper(items, ref) \subseteq 1..k
    BY <1>2 DEF Proper
  <2> QED BY <2>1, <2>2
<1> QED BY <1>1, <1>2

\* An issue at the top has a burden, its own or one whose party is unknown.
LEMMA TopBurdened ==
    ASSUME NEW k \in Nat, NEW items, DOMAIN items = 1..k, NEW n \in 1..k,
           Proper(items, items[n].parent) = {}, NEW burdens
    PROVE  IdOf(items, n) \in Burdened(items, burdens)
<1> DEFINE Unnamed == {m \in DOMAIN items :
                Proper(items, items[m].parent) = {} /\ NameOf(items, m) \notin burdens}
<1>1. CASE NameOf(items, n) \in burdens
  <2>1. IdOf(items, n) \in Proper(items, NameOf(items, n))
    BY ProperOfName
  <2> QED BY <1>1, <2>1 DEF Burdened
<1>2. CASE NameOf(items, n) \notin burdens
  <2>1. n \in Unnamed
    BY <1>2
  <2> QED BY <2>1 DEF Burdened
<1> QED BY <1>1, <1>2

\* A claim or a defence is mapped to something if there is any issue.
LEMMA MappedToSome ==
    ASSUME NEW items, items # <<>>, NEW mapping
    PROVE  MappedTo(items, mapping) # {}
<1>1. CASE mapping # {}
  <2>1. PICK r \in mapping : TRUE
    BY <1>1
  <2>2. (IF Proper(items, r) = {} THEN {r} ELSE Proper(items, r)) # {}
    OBVIOUS
  <2>3. MappedTo(items, mapping)
            = UNION {IF Proper(items, q) = {} THEN {q} ELSE Proper(items, q) : q \in mapping}
    BY <1>1 DEF MappedTo
  <2>4. \E x : x \in (IF Proper(items, r) = {} THEN {r} ELSE Proper(items, r))
    BY <2>2
  <2> QED BY <2>3, <2>4
<1>2. CASE mapping = {}
  BY <1>2 DEF MappedTo
<1> QED BY <1>1, <1>2

\* What holds of an accepted tree.
Contract(t, known) ==
    /\ t.ids \in Seq(Nat)
    /\ \A error \in IssueTreeErrors(t) : error[1] \in {"duplicate", "dangling"}
    /\ IsInjective(t.ids) => IssueTreeErrors(t) = {}
    /\ t.ids # <<>> => DOMAIN t.claims = Claims /\ DOMAIN t.defenses = Defenses
    /\ UNION Range(t.evidence) \subseteq known

\* Whatever items an answer has, the repairs of IssueExtractor meet its contract.
LEMMA TreeContract ==
    ASSUME NEW k \in Nat, NEW items, DOMAIN items = 1..k, k = 0 => items = <<>>,
           NEW burdens, NEW mapping, NEW known
    PROVE  Contract(Tree(items, burdens, mapping, known), known)
<1> DEFINE t == Tree(items, burdens, mapping, known)
           mapped(names) == [c \in {d \in names : MappedTo(items, mapping[d]) # {}} |->
                               MappedTo(items, mapping[c])]
<1>1. /\ t.ids = [n \in 1..k |-> IdOf(items, n)]
      /\ t.parent = [n \in 1..k |-> Proper(items, items[n].parent)]
      /\ t.evidence = [n \in 1..k |-> items[n].evidence \cap known]
      /\ t.burdened = Burdened(items, burdens)
      /\ t.claims = mapped(Claims) /\ t.defenses = mapped(Defenses)
  BY DEF Tree
<1> HIDE DEF t
<1>2. t.ids \in Seq(Nat) /\ DOMAIN t.ids = 1..k
  <2>1. \A n \in 1..k : IdOf(items, n) \in Nat
    BY IdIsIn
  <2> QED BY <1>1, <2>1
<1>3. ASSUME NEW n \in 1..k, t.parent[n] = {} PROVE t.ids[n] \in t.burdened
  <2>1. Proper(items, items[n].parent) = {} /\ t.ids[n] = IdOf(items, n)
    BY <1>1, <1>3
  <2>2. IdOf(items, n) \in Burdened(items, burdens)
    BY <2>1, TopBurdened
  <2> QED BY <1>1, <2>1, <2>2
<1>4. /\ \A c \in DOMAIN t.claims : t.claims[c] # {}
      /\ \A c \in DOMAIN t.defenses : t.defenses[c] # {}
  BY <1>1
<1>5. \A error \in IssueTreeErrors(t) :
         \/ \E n \in 1..k : error = <<"duplicate", n>> /\ \E j \in 1..n - 1 : t.ids[j] = t.ids[n]
         \/ \E n \in 1..k : error = <<"dangling", n>> /\ ~ t.parent[n] \subseteq Range(t.ids)
  BY <1>2, <1>3, <1>4 DEF IssueTreeErrors
<1>6. IsInjective(t.ids) => IssueTreeErrors(t) = {}
  <2> SUFFICES ASSUME IsInjective(t.ids) PROVE IssueTreeErrors(t) = {}
    OBVIOUS
  <2>1. \A n, m \in 1..k : t.ids[n] = t.ids[m] => n = m
    BY <1>2 DEF IsInjective
  <2>2. \A n, m \in 1..k : IdOf(items, n) = IdOf(items, m) => n = m
    BY <1>1, <2>1
  <2>3. \A n \in 1..k : t.parent[n] \subseteq Range(t.ids)
    <3>1. Range(t.ids) = {IdOf(items, n) : n \in 1..k}
      <4>1. \A n \in 1..k : t.ids[n] = IdOf(items, n)
        BY <1>1
      <4>2. Range(t.ids) = {t.ids[n] : n \in 1..k}
        BY <1>2 DEF Range
      <4> QED BY <4>1, <4>2
    <3>2. \A ref : Proper(items, ref) \subseteq Range(t.ids)
      BY <2>2, <3>1, ProperResolves
    <3>3. \A n \in 1..k : t.parent[n] = Proper(items, items[n].parent)
      BY <1>1
    <3> QED BY <3>2, <3>3
  <2>4. \A n \in 1..k : ~ \E j \in 1..n - 1 : t.ids[j] = t.ids[n]
    BY <2>1
  <2> QED BY <1>5, <2>3, <2>4
<1>7. t.ids # <<>> => DOMAIN t.claims = Claims /\ DOMAIN t.defenses = Defenses
  <2> SUFFICES ASSUME t.ids # <<>> PROVE items # <<>>
    BY <1>1, MappedToSome
  <2>1. k # 0
    BY <1>2
  <2> QED BY <2>1
<1>8. UNION Range(t.evidence) \subseteq known
  BY <1>1 DEF Range
<1>9. \A error \in IssueTreeErrors(t) : error[1] \in {"duplicate", "dangling"}
  BY <1>5
<1> QED BY <1>2, <1>6, <1>7, <1>8, <1>9 DEF t, Contract

----------------------------------------------------------------------------
(* LlmAnswer: what is read from a text in which an answer was written down *)

\* What is read out of a text of an answer is that answer.
LEMMA ReadBack ==
    ASSUME NEW answer, NEW text \in Texts(answer), ObjectIn(text) # <<>>
    PROVE  Head(ObjectIn(text)) = answer
<1>1. text \in Written(answer)
  <2>1. PICK p \in Process(Written(answer)) : Message(p) # <<>> /\ text = Head(Message(p))
    BY DEF Texts
  <2>2. Message(p) = <<p.text>> /\ p.text \in Written(answer)
    BY <2>1 DEF Message, Process
  <2> QED BY <2>1, <2>2
<1> DEFINE Found == Read(text.block) \o text.whole.object \o Read(text.braces) \o text.cut.object
<1>2. /\ Read(text.block) \in Seq({answer}) /\ text.whole.object \in Seq({answer})
      /\ Read(text.braces) \in Seq({answer}) /\ text.cut.object \in Seq({answer})
  <2>1. <<>> \in Seq({answer}) /\ <<answer>> \in Seq({answer})
    OBVIOUS
  <2>2. /\ Read(Nothing) = <<>> /\ Nothing.object = <<>>
        /\ Read(Clean(answer)) = <<answer>> /\ Clean(answer).object = <<answer>>
        /\ Read(Mendable(answer)) = <<answer>>
    BY DEF Read, Nothing, Clean, Mendable
  <2>3. /\ text.block \in {Nothing, Mendable(answer)} /\ text.whole \in {Nothing, Clean(answer)}
        /\ text.braces \in {Nothing, Clean(answer)} /\ text.cut \in {Nothing, Clean(answer)}
    <3>1. CASE text = Prose
      BY <3>1 DEF Prose
    <3>2. CASE text = [Prose EXCEPT !.whole = Clean(answer), !.braces = Clean(answer)]
      BY <3>2 DEF Prose
    <3>3. CASE text = [Prose EXCEPT !.block = Mendable(answer)]
      BY <3>3 DEF Prose
    <3>4. CASE text = [Prose EXCEPT !.cut = Clean(answer)]
      BY <3>4 DEF Prose
    <3> QED BY <1>1, <3>1, <3>2, <3>3, <3>4 DEF Written
  <2> QED BY <2>1, <2>2, <2>3
<1>3. Found \in Seq({answer})
  BY <1>2
<1> HIDE DEF Found
<1>4. Found # <<>> /\ ObjectIn(text) = <<Head(Found)>>
  BY DEF ObjectIn, Found
<1>5. Head(Found) = answer
  BY <1>3, <1>4
<1> QED BY <1>4, <1>5

----------------------------------------------------------------------------
(* The inductive invariant *)

\* The three files, whatever the first two hold, and turns in a sequence.
FilesTyped ==
    /\ \E i, t, s : disk = [index |-> i, tree |-> t, session |-> s]
    /\ \E T : disk.session.turns \in Seq(T)

\* While somebody may ask, memory and file have the same turns.
InStep == stage \in {"prompt", "question"} => disk.session = Saved(session)

\* The tree is extracted once, from the index on the disk, and then it is the one that
\* every process works with.
TreeOnDisk ==
    /\ \E t : disk.tree \subseteq {t}
    /\ stage \in {"plaintiff", "defendant", "issues"} => disk.tree = {}
    /\ stage = "issues" => index = disk.index
    /\ stage \in {"analysis", "prompt", "question"} => disk.tree = {tree}

\* Only a question of some words about a report with sections is put to the LLM.
Asked == stage = "question" => question # <<>> /\ tree.ids # <<>>

Contracts == \A t \in disk.tree : Contract(t, IdsOf(disk.index))

Sound == FilesTyped /\ InStep /\ TreeOnDisk /\ Asked /\ Contracts /\ TurnsGrounded

Kept == disk'.session = Torn \/ IsPrefix(disk.session.turns, disk'.session.turns)

\* The turn, and each of the turns, is about a tree.
Grounded(turn, t) == TurnErrors(turn, Range(t.ids), UNION Range(t.evidence)) = {}
AllGrounded(turns, trees) == \A n \in DOMAIN turns : \E t \in trees : Grounded(turns[n], t)

----------------------------------------------------------------------------
\* A history extends itself, ...
LEMMA PrefixOfItself ==
    ASSUME NEW T, NEW s \in Seq(T)
    PROVE  IsPrefix(s, s)
BY DEF IsPrefix

\* ... and so does one with a further turn.
LEMMA PrefixOfAppend ==
    ASSUME NEW T, NEW s \in Seq(T), NEW e \in T
    PROVE  IsPrefix(s, Append(s, e))
<1>1. Len(Append(s, e)) = Len(s) + 1 /\ Len(s) \in Nat /\ Append(s, e) \in Seq(T)
  OBVIOUS
<1>2. \A i \in 1..Len(s) : Append(s, e)[i] = s[i]
  OBVIOUS
<1>3. SubSeq(Append(s, e), 1, Len(s)) = SubSeq(s, 1, Len(s))
  BY <1>1, <1>2
<1> QED BY <1>1, <1>3 DEF IsPrefix

\* A turn of any kind may be appended to a history.
LEMMA LargerType ==
    ASSUME NEW T, NEW s \in Seq(T), NEW e
    PROVE  s \in Seq(T \cup {e}) /\ Append(s, e) \in Seq(T \cup {e})
<1>1. s \in Seq(T \cup {e})
  OBVIOUS
<1> QED BY <1>1

\* A file that is not written to is kept.
LEMMA SameKept == ASSUME Sound, disk'.session = disk.session PROVE Kept
<1>1. PICK T : disk.session.turns \in Seq(T)
  BY DEF Sound, FilesTyped
<1> QED BY <1>1, PrefixOfItself DEF Kept

\* The two places that turns are in, now and after a step.
LEMMA GroundedParts ==
    /\ TurnsGrounded <=> /\ AllGrounded(session, disk.tree)
                         /\ AllGrounded(disk.session.turns, disk.tree)
    /\ TurnsGrounded' <=> /\ AllGrounded(session', disk'.tree)
                          /\ AllGrounded(disk'.session.turns, disk'.tree)
BY DEF TurnsGrounded, AllGrounded, Grounded

\* Without turns there is nothing to ground.
LEMMA NoTurnsGrounded == \A trees : AllGrounded(<<>>, trees)
BY DEF AllGrounded

\* A fresh process, in an empty directory.
LEMMA InitSound == Init => Sound
<1> SUFFICES ASSUME Init PROVE Sound
  OBVIOUS
<1>1. /\ disk = [index |-> NoIndex, tree |-> {}, session |-> Absent]
      /\ stage = "plaintiff" /\ session = <<>>
  BY DEF Init
<1>2. disk.session.turns = <<>> /\ <<>> \in Seq({}) /\ disk.tree = {}
  BY <1>1 DEF Absent
<1>3. TurnsGrounded
  BY <1>1, <1>2 DEF TurnsGrounded
<1> QED
  BY <1>1, <1>2, <1>3 DEF Sound, FilesTyped, InStep, TreeOnDisk, Asked, Contracts

\* No file is written, and the process goes where memory is as it has to be.
LEMMA Untouched ==
    ASSUME Sound, disk' = disk, session' \in {session, <<>>},
           InStep', TreeOnDisk', Asked'
    PROVE  Sound' /\ Kept
<1>1. TurnsGrounded'
  BY GroundedParts, NoTurnsGrounded DEF Sound
<1>2. FilesTyped' /\ Contracts'
  BY DEF Sound, FilesTyped, Contracts
<1> QED BY <1>1, <1>2, SameKept DEF Sound

----------------------------------------------------------------------------
(* The steps *)

\* The index is written before there is a tree.
LEMMA IndexKeeps == ASSUME Sound, NEW p \in Parties, IndexReturns(p) PROVE Sound' /\ Kept
<1>1. stage = p /\ p \in {"plaintiff", "defendant"} /\ disk.tree = {}
  BY DEF IndexReturns, Parties, Sound, TreeOnDisk
<1>2. session' = session /\ tree' = tree /\ question' = question
  BY DEF IndexReturns
<1>3. CASE disk' = disk /\ stage' \in {"defendant", "ended"}
  <2>1. InStep' /\ TreeOnDisk' /\ Asked'
    BY <1>1, <1>3 DEF InStep, TreeOnDisk, Asked, Sound
  <2> QED BY <1>2, <1>3, <2>1, Untouched
<1>4. CASE disk' = [disk EXCEPT !.index = index'] /\ stage' = "issues"
  <2>1. PICK i, t, s : disk = [index |-> i, tree |-> t, session |-> s]
    BY DEF Sound, FilesTyped
  <2>2. disk' = [index |-> index', tree |-> t, session |-> s]
    BY <1>4, <2>1
  <2>3. disk'.session = disk.session /\ disk'.tree = {} /\ disk'.index = index'
    BY <1>1, <2>1, <2>2
  <2>4. FilesTyped'
    BY <2>2, <2>3 DEF Sound, FilesTyped
  <2>5. TurnsGrounded'
    BY <1>1, <1>2, <2>3 DEF Sound, TurnsGrounded
  <2>6. InStep' /\ TreeOnDisk' /\ Asked' /\ Contracts'
    BY <1>4, <2>3 DEF InStep, TreeOnDisk, Asked, Contracts
  <2> QED BY <2>3, <2>4, <2>5, <2>6, SameKept DEF Sound
<1> QED BY <1>1, <1>3, <1>4 DEF IndexReturns

\* The tree is made of evidence of the index on the disk.
LEMMA ExtractionKeeps == ASSUME Sound, ExtractionReturns PROVE Sound' /\ Kept
<1>1. stage = "issues" /\ disk.tree = {} /\ index = disk.index
  BY DEF ExtractionReturns, Sound, TreeOnDisk
<1>2. session' = session /\ index' = index /\ question' = question
  BY DEF ExtractionReturns
<1>3. CASE disk' = disk /\ stage' = "ended"
  <2>1. InStep' /\ TreeOnDisk' /\ Asked'
    BY <1>1, <1>3 DEF InStep, TreeOnDisk, Asked, Sound
  <2> QED BY <1>2, <1>3, <2>1, Untouched
<1>4. CASE /\ \E items \in Answers(IssueItems) : \E burdens, mapping :
                 tree' = Tree(items, burdens, mapping, IdsOf(index))
           /\ disk' = [disk EXCEPT !.tree = {tree'}] /\ stage' = "analysis"
  <2>1. PICK i, t, s : disk = [index |-> i, tree |-> t, session |-> s]
    BY DEF Sound, FilesTyped
  <2>2. disk' = [index |-> i, tree |-> {tree'}, session |-> s]
    BY <1>4, <2>1
  <2>3. disk'.session = disk.session /\ disk'.tree = {tree'} /\ disk'.index = index
    BY <1>1, <2>1, <2>2
  <2>a. PICK items \in Answers(IssueItems) : \E burdens, mapping :
            tree' = Tree(items, burdens, mapping, IdsOf(index))
    BY <1>4
  <2>4. PICK burdens, mapping : tree' = Tree(items, burdens, mapping, IdsOf(index))
    BY <2>a
  <2>5. PICK k \in Nat : items \in [1..k -> IssueItems]
    BY DEF Answers, IntakeAssumption
  <2>6. DOMAIN items = 1..k /\ (k = 0 => items = <<>>)
    BY <2>5
  <2>7. Contract(tree', IdsOf(index))
    BY <2>4, <2>6, TreeContract
  <2>8. FilesTyped'
    BY <2>2, <2>3 DEF Sound, FilesTyped
  <2>9. TurnsGrounded'
    BY <1>1, <1>2, <2>3 DEF Sound, TurnsGrounded
  <2>10. InStep' /\ TreeOnDisk' /\ Asked' /\ Contracts'
    BY <1>4, <2>3, <2>7 DEF InStep, TreeOnDisk, Asked, Contracts
  <2> QED BY <2>3, <2>8, <2>9, <2>10, SameKept DEF Sound
<1> QED BY <1>3, <1>4 DEF ExtractionReturns

\* The session goes on with the turns of the file.
LEMMA OpenKeeps == ASSUME Sound, OpenSession PROVE Sound' /\ Kept
<1>1. PICK i, t, s : disk = [index |-> i, tree |-> t, session |-> s]
  BY DEF Sound, FilesTyped
<1>2. PICK T : disk.session.turns \in Seq(T)
  BY DEF Sound, FilesTyped
<1>3. /\ session' = disk.session.turns /\ stage = "analysis" /\ stage' = "prompt" /\ tree' = tree
      /\ disk' = [index |-> i, tree |-> t, session |-> Saved(disk.session.turns)]
  BY <1>1 DEF OpenSession
<1>4. /\ disk'.session = Saved(session') /\ disk'.session.turns = disk.session.turns
      /\ disk'.tree = disk.tree /\ disk'.index = disk.index
  BY <1>1, <1>3 DEF Saved
<1>5. FilesTyped' /\ InStep'
  BY <1>2, <1>3, <1>4 DEF FilesTyped, InStep
<1>6. TreeOnDisk' /\ Asked' /\ Contracts'
  BY <1>3, <1>4 DEF Sound, TreeOnDisk, Asked, Contracts
<1>7. TurnsGrounded'
  BY <1>3, <1>4, GroundedParts DEF Sound
<1>8. Kept
  BY <1>2, <1>4, PrefixOfItself DEF Kept
<1> QED BY <1>5, <1>6, <1>7, <1>8 DEF Sound

\* A turn is added to memory and file, or the file is torn and the process gone.
LEMMA AppendKeeps ==
    ASSUME Sound, stage = "question", tree' = tree, question' = <<>>,
           NEW turn, Grounded(turn, tree), AppendTurn(turn)
    PROVE  Sound' /\ Kept
<1>1. PICK i, t, s : disk = [index |-> i, tree |-> t, session |-> s]
  BY DEF Sound, FilesTyped
<1>2. PICK T : disk.session.turns \in Seq(T)
  BY DEF Sound, FilesTyped
<1>3. disk.session.turns = session /\ disk.tree = {tree}
  BY DEF Sound, InStep, Saved, TreeOnDisk
<1>4. session' = Append(session, turn)
  BY DEF AppendTurn
<1>5. session \in Seq(T \cup {turn}) /\ session' \in Seq(T \cup {turn})
  BY <1>2, <1>3, <1>4, LargerType
<1>6. \A n \in DOMAIN session' : Grounded(session'[n], tree)
  <2>1. \A n \in DOMAIN session : Grounded(session[n], tree)
    BY <1>3, GroundedParts DEF Sound, AllGrounded
  <2>2. \A n \in DOMAIN session' : \/ n \in DOMAIN session /\ session'[n] = session[n]
                                   \/ session'[n] = turn
    BY <1>4, <1>5
  <2> QED BY <2>1, <2>2
<1>7. CASE stage' = "prompt" /\ disk' = [disk EXCEPT !.session = Saved(session')]
  <2>1. disk' = [index |-> i, tree |-> t, session |-> Saved(session')]
    BY <1>1, <1>7
  <2>2. /\ disk'.session = Saved(session') /\ disk'.session.turns = session'
        /\ disk'.tree = {tree'} /\ disk'.index = disk.index
    BY <1>1, <1>3, <2>1 DEF Saved
  <2>3. IsPrefix(session, session')
    BY <1>4, <1>5, PrefixOfAppend
  <2>4. FilesTyped' /\ InStep' /\ TreeOnDisk' /\ Asked' /\ Kept
    BY <1>3, <1>5, <1>7, <2>1, <2>2, <2>3 DEF FilesTyped, InStep, TreeOnDisk, Asked, Kept
  <2>5. Contracts'
    BY <1>3, <2>2 DEF Sound, Contracts
  <2>6. TurnsGrounded'
    BY <1>6, <2>2, GroundedParts, NoTurnsGrounded DEF AllGrounded
  <2> QED BY <2>4, <2>5, <2>6 DEF Sound
<1>8. CASE stage' = "ended" /\ disk' = [disk EXCEPT !.session = Torn]
  <2>1. disk' = [index |-> i, tree |-> t, session |-> Torn]
    BY <1>1, <1>8
  <2>2. /\ disk'.session = Torn /\ disk'.session.turns = <<>> /\ <<>> \in Seq({})
        /\ disk'.tree = {tree'} /\ disk'.index = disk.index
    BY <1>1, <1>3, <2>1 DEF Torn
  <2>3. FilesTyped' /\ InStep' /\ TreeOnDisk' /\ Asked' /\ Kept
    BY <1>8, <2>1, <2>2 DEF FilesTyped, InStep, TreeOnDisk, Asked, Kept
  <2>4. Contracts'
    BY <1>3, <2>2 DEF Sound, Contracts
  <2>5. TurnsGrounded'
    BY <1>6, <2>2, GroundedParts, NoTurnsGrounded DEF AllGrounded
  <2> QED BY <2>3, <2>4, <2>5 DEF Sound
<1> QED BY <1>7, <1>8 DEF AppendTurn

\* Whatever issues are bound, they are issues of the report: the least one if no other is.
LEMMA BoundToReport ==
    ASSUME Sound, stage = "question", NEW issues
    PROVE  /\ Bound(issues) # {} /\ Bound(issues) \subseteq Range(tree.ids)
           /\ Min(ReportIssues) \in Range(tree.ids)
<1>1. tree.ids \in Seq(Nat) /\ tree.ids # <<>>
  BY DEF Sound, TreeOnDisk, Asked, Contracts, Contract
<1>2. ReportIssues \in SUBSET Nat /\ ReportIssues # {}
  <2>1. 1 \in DOMAIN tree.ids /\ \A n \in DOMAIN tree.ids : tree.ids[n] \in Nat
    BY <1>1
  <2> QED BY <2>1 DEF ReportIssues, Range
<1>3. Min(ReportIssues) \in ReportIssues
  BY <1>2, MinIsIn
<1> QED BY <1>3 DEF Bound, ReportIssues

\* An answer is read, and its turn saved; or it ends the session.
LEMMA AnswerKeeps == ASSUME Sound, AnswerReturns PROVE Sound' /\ Kept
<1>1. stage = "question" /\ tree' = tree /\ question' = <<>>
  BY DEF AnswerReturns
<1>a. PICK output \in Outputs : \E text \in Texts(output) :
          IF ObjectIn(text) # <<>> /\ output.answer # ""
          THEN AppendTurn(Turn(Head(ObjectIn(text))))
          ELSE stage' = "ended" /\ UNCHANGED <<session, disk>>
  BY DEF AnswerReturns
<1>2. PICK text \in Texts(output) :
          IF ObjectIn(text) # <<>> /\ output.answer # ""
          THEN AppendTurn(Turn(Head(ObjectIn(text))))
          ELSE stage' = "ended" /\ UNCHANGED <<session, disk>>
  BY <1>a
<1>3. CASE ObjectIn(text) # <<>> /\ output.answer # ""
  <2>1. AppendTurn(Turn(output))
    BY <1>2, <1>3, ReadBack
  <2>2. Grounded(Turn(output), tree)
    <3>1. question # <<>>
      BY <1>1 DEF Sound, Asked
    <3>2. Bound(output.issues) # {} /\ Bound(output.issues) \subseteq Range(tree.ids)
      BY <1>1, BoundToReport
    <3>3. ResolvedClass(output.class) \in StatementClasses
      BY DEF ResolvedClass, StatementClasses
    <3> QED BY <1>3, <3>1, <3>2, <3>3 DEF Grounded, TurnErrors, Turn, ReportEvidence
  <2> QED BY <1>1, <2>1, <2>2, AppendKeeps
<1>4. CASE stage' = "ended" /\ UNCHANGED <<session, disk>>
  <2>1. InStep' /\ TreeOnDisk' /\ Asked'
    BY <1>4 DEF InStep, TreeOnDisk, Asked, Sound
  <2> QED BY <1>4, <2>1, Untouched
<1> QED BY <1>2, <1>3, <1>4

\* The last attempt fails, and the turn says so.
LEMMA FailureKeeps == ASSUME Sound, AnswerFails PROVE Sound' /\ Kept
<1>1. /\ stage = "question" /\ tree' = tree /\ question' = <<>>
      /\ AppendTurn(ErrorTurn)
  BY DEF AnswerFails
<1>2. Grounded(ErrorTurn, tree)
  <2>1. question # <<>>
    BY <1>1 DEF Sound, Asked
  <2>2. Min(ReportIssues) \in Range(tree.ids)
    BY <1>1, BoundToReport
  <2> QED BY <2>1, <2>2 DEF Grounded, TurnErrors, ErrorTurn, StatementClasses
<1> QED BY <1>1, <1>2, AppendKeeps

\* A process that finds a tree works with it.
LEMMA ResumeKeeps == ASSUME Sound, Resume PROVE Sound' /\ Kept
<1>1. /\ disk' = disk /\ session' = <<>> /\ index' = disk.index
      /\ stage' \in {"analysis", "issues", "plaintiff"}
      /\ stage' = "analysis" <=> disk.tree # {}
  BY DEF Resume
<1>2. disk.tree # {} => disk.tree = {tree'}
  BY DEF Resume, Sound, TreeOnDisk
<1>3. InStep' /\ TreeOnDisk' /\ Asked'
  BY <1>1, <1>2 DEF InStep, TreeOnDisk, Asked, Sound
<1> QED BY <1>1, <1>3, Untouched

----------------------------------------------------------------------------
\* Every step keeps the invariant, and the history.
LEMMA SoundStep == Sound /\ [Next]_vars => Sound' /\ Kept
<1> SUFFICES ASSUME Sound, [Next]_vars PROVE Sound' /\ Kept
  OBVIOUS
<1>1. ASSUME NEW p \in Parties, IndexReturns(p) PROVE Sound' /\ Kept
  BY <1>1, IndexKeeps
<1>2. CASE CallRaises
  <2>1. InStep' /\ TreeOnDisk' /\ Asked' /\ disk' = disk /\ session' = session
    BY <1>2 DEF CallRaises, InStep, TreeOnDisk, Asked, Sound
  <2> QED BY <2>1, Untouched
<1>3. CASE ExtractionReturns
  BY <1>3, ExtractionKeeps
<1>4. CASE Ends
  <2>1. InStep' /\ TreeOnDisk' /\ Asked' /\ disk' = disk /\ session' = session
    BY <1>4 DEF Ends, InStep, TreeOnDisk, Asked, Sound
  <2> QED BY <2>1, Untouched
<1>5. CASE OpenSession
  BY <1>5, OpenKeeps
<1>6. CASE Ask
  <2>1. InStep' /\ TreeOnDisk' /\ Asked' /\ disk' = disk /\ session' = session
    BY <1>6 DEF Ask, InStep, TreeOnDisk, Asked, Sound
  <2> QED BY <2>1, Untouched
<1>7. CASE AnswerReturns
  BY <1>7, AnswerKeeps
<1>8. CASE AnswerFails
  BY <1>8, FailureKeeps
<1>9. CASE Resume
  BY <1>9, ResumeKeeps
<1>10. CASE UNCHANGED vars
  <2>1. InStep' /\ TreeOnDisk' /\ Asked' /\ disk' = disk /\ session' = session
    BY <1>10 DEF vars, InStep, TreeOnDisk, Asked, Sound
  <2> QED BY <2>1, Untouched
<1> QED BY <1>1, <1>2, <1>3, <1>4, <1>5, <1>6, <1>7, <1>8, <1>9, <1>10 DEF Next

\* The invariant is inductive.
LEMMA AlwaysSound == Spec => []Sound
BY InitSound, SoundStep, PTL DEF Spec

----------------------------------------------------------------------------
\* Whatever the LLM has returned, an issue tree that IssueExtractor accepts, repairs and
\* completes satisfies the contract of validate_issue_tree, as far as its ids are unique.
THEOREM TreeKeepsContractHolds == Spec => []TreeKeepsContract
<1>1. Sound => TreeKeepsContract
  BY DEF Sound, Contracts, Contract, TreeKeepsContract
<1> QED BY <1>1, AlwaysSound, PTL

\* Whatever the LLM has answered, in this run or in an earlier one, each turn of the
\* session is about an issue of the report and cites evidence of the report only.
THEOREM TurnsGroundedHolds == Spec => []TurnsGrounded
<1>1. Sound => TurnsGrounded
  BY DEF Sound
<1> QED BY <1>1, AlwaysSound, PTL

\* No run forgets a turn that the file has, whatever is answered and wherever a run
\* ends, unless the file itself is torn.
THEOREM HistoryKeptHolds == Spec => HistoryKept
<1>1. Sound /\ [Next]_vars => [Kept]_vars
  BY SoundStep
<1> QED BY <1>1, AlwaysSound, PTL DEF Spec, HistoryKept, Kept
=============================================================================
