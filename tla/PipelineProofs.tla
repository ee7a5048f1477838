--------------------------- MODULE PipelineProofs ---------------------------
(***************************************************************************)
(* Proofs about CasePipeline, for any number of crashes, with absolute or  *)
(* relative output directories.                                            *)
(***************************************************************************)
EXTENDS CasePipeline, TLAPS

\* The checkpoint names the step before the one at work, or the step that the
\* process read when it began and has not passed yet; a step to be skipped
\* writes nothing.
Progress ==
    run = "running" => /\ ckpt.last = IF step > last THEN step - 1 ELSE last
                       /\ step <= last => written = 0

\* What a step that later ones depend on has written so far is on the disk.
InStep ==
    run = "running" /\ step \in Evidence..Outputs =>
        /\ written <= Len(Writes(step))
        /\ \A i \in 1..written : Present(Writes(step)[i])

\* Which version of the evidence index is where.
EvidenceFlow ==
    /\ disk["evidence_index"] \in {"absent", "private", "promoted"}
    /\ run = "running" =>
        /\ step > Evidence \/ written > 0 => evidence # "none"
        /\ step > Pretrial \/ (step = Pretrial /\ written > 0) => evidence = "promoted"
        /\ step = Pretrial /\ written = Len(Writes(Pretrial)) => disk["evidence_index"] = "promoted"

\* The inductive invariant.
Covered == TypeOK /\ CheckpointCovered /\ Progress /\ InStep /\ EvidenceFlow

USE DEF Evidence, Issues, Debate, Pretrial, PostDebate, Outputs, Docx, Documents, Steps

----------------------------------------------------------------------------
\* Each step writes one to three known artifacts.
LEMMA WritesType ==
    ASSUME NEW s \in Steps, skip \in BOOLEAN
    PROVE  Len(Writes(s)) \in 1..3 /\ \A i \in 1..Len(Writes(s)) : Writes(s)[i] \in Artifact
<1>1. CASE s = 1
  BY <1>1 DEF Writes, Artifact
<1>2. CASE s = 2
  BY <1>2 DEF Writes, Artifact
<1>3. CASE s = 3
  BY <1>3 DEF Writes, Artifact
<1>4. CASE s = 4
  BY <1>4 DEF Writes, Artifact
<1>5. CASE s = 5
  BY <1>5 DEF Writes, Artifact
<1>6. CASE s = 6
  BY <1>6 DEF Writes, Artifact
<1>7. CASE s \in {7, 8}
  BY <1>7 DEF Writes, Artifact
<1> QED BY <1>1, <1>2, <1>3, <1>4, <1>5, <1>6, <1>7

\* Only the first, third and fourth step write the evidence index, and the
\* fourth writes it last.
LEMMA IndexWriters ==
    ASSUME NEW s \in Steps, skip \in BOOLEAN
    PROVE  /\ s \notin {1, 3, 4} => \A i \in 1..Len(Writes(s)) : Writes(s)[i] # "evidence_index"
           /\ Writes(4)[Len(Writes(4))] = "evidence_index"
<1>1. Writes(4)[Len(Writes(4))] = "evidence_index"
  BY DEF Writes
<1>2. CASE s \in {2, 5, 6}
  BY <1>2 DEF Writes
<1>3. CASE s \in {7, 8}
  BY <1>3 DEF Writes
<1> QED BY <1>1, <1>2, <1>3

\* The Word report is written by the seventh step only.
LEMMA DocxWriter ==
    ASSUME NEW s \in 1..6, skip \in BOOLEAN, NEW i \in 1..Len(Writes(s))
    PROVE  Writes(s)[i] # "report_docx"
<1>1. CASE s \in {1, 2}
  BY <1>1 DEF Writes
<1>2. CASE s \in {3, 5, 6}
  BY <1>2 DEF Writes
<1>3. CASE s = 4
  BY <1>3 DEF Writes
<1> QED BY <1>1, <1>2, <1>3

\* What the checkpoint needs of each step is among its writes.
LEMMA Needed ==
    ASSUME skip \in BOOLEAN
    PROVE  /\ Writes(1)[1] = "evidence_index" /\ Len(Writes(1)) = 1
           /\ Writes(2)[1] = "issue_tree" /\ Len(Writes(2)) = 1
           /\ Writes(3)[1] = "result" /\ Len(Writes(3)) = 2
           /\ Len(Writes(4)) \in 1..2
           /\ Writes(5)[1] = "core" /\ Writes(5)[2] = "defence" /\ Len(Writes(5)) = 2
           /\ Writes(6)[2] = "report_md" /\ Writes(6)[3] = "report_v3" /\ Len(Writes(6)) = 3
<1>1. Writes(1)[1] = "evidence_index" /\ Len(Writes(1)) = 1
  BY DEF Writes
<1>2. Writes(2)[1] = "issue_tree" /\ Len(Writes(2)) = 1
  BY DEF Writes
<1>3. Writes(3)[1] = "result" /\ Len(Writes(3)) = 2
  BY DEF Writes
<1>4. Len(Writes(4)) \in 1..2
  BY DEF Writes
<1>5. Writes(5)[1] = "core" /\ Writes(5)[2] = "defence" /\ Len(Writes(5)) = 2
  BY DEF Writes
<1>6. Writes(6)[2] = "report_md" /\ Writes(6)[3] = "report_v3" /\ Len(Writes(6)) = 3
  BY DEF Writes
<1> QED BY <1>1, <1>2, <1>3, <1>4, <1>5, <1>6

\* The writes of a step depend on --skip-pretrial only.
LEMMA SameWrites == UNCHANGED <<step, skip>> => UNCHANGED Writes(step)
BY DEF Writes

----------------------------------------------------------------------------
\* An empty directory has nothing to cover.
LEMMA InitCovered == Init => Covered
<1> SUFFICES ASSUME Init PROVE Covered
  OBVIOUS
<1>1. TypeOK
  <2>1. disk \in [Artifact -> Version] /\ ckpt \in [last : 0..8, paths : SUBSET Artifact]
    BY DEF Init, Version
  <2>2. skip \in BOOLEAN /\ parts \subseteq {"core", "defence"}
    BY DEF Init
  <2>3. /\ run \in {"none", "running", "done", "rejected"} /\ last \in 0..8 /\ step \in 1..9
        /\ written \in 0..3 /\ evidence \in {"none", "private", "promoted"}
        /\ crashes \in 0..MaxCrashes /\ search \in {"off", "due", "done"}
    BY CasePipelineAssumption DEF CasePipelineAssumption, Init
  <2> QED BY <2>1, <2>2, <2>3 DEF TypeOK
<1>2. CheckpointCovered
  BY DEF Init, CheckpointCovered
<1>3. Progress /\ InStep
  BY DEF Init, Progress, InStep
<1>4. EvidenceFlow
  BY DEF Init, EvidenceFlow, Artifact
<1> QED BY <1>1, <1>2, <1>3, <1>4 DEF Covered

\* A process that begins.
LEMMA BeginCovered ==
    ASSUME Covered, NEW s \in BOOLEAN, NEW similar \in BOOLEAN, Begin(ckpt.last, s, similar)
    PROVE  Covered'
<1>1. TypeOK'
  BY DEF Covered, TypeOK, Begin
<1>2. CheckpointCovered'
  BY DEF Covered, CheckpointCovered, Begin, Present
<1>3. Progress'
  BY DEF Covered, TypeOK, Begin, Progress
<1>4. InStep'
  <2>1. run' = "running" /\ step' = 1 /\ written' = 0 /\ skip' \in BOOLEAN
    BY DEF Begin
  <2>2. Len(Writes(step))' \in Nat
    BY <2>1, WritesType DEF Writes
  <2> QED BY <2>1, <2>2 DEF InStep
<1>5. EvidenceFlow'
  BY DEF Covered, EvidenceFlow, Begin
<1> QED BY <1>1, <1>2, <1>3, <1>4, <1>5 DEF Covered

\* A step skipped: what it reads back is there.
LEMMA SkipCovered ==
    ASSUME Covered, SkipStep
    PROVE  Covered'
<1>1. /\ run = "running" /\ run' = run /\ step \in 1..8 /\ step <= last /\ step' = step + 1
      /\ written = 0 /\ written' = 0 /\ skip' = skip /\ last' = last /\ ckpt' = ckpt /\ search' = search
      /\ ckpt.last = last /\ last \in 0..8 /\ crashes' = crashes
  BY DEF Covered, Progress, TypeOK, SkipStep, AtStep, ShouldSkip, Advance
<1>2. disk["evidence_index"] \in {"private", "promoted"}
  BY <1>1 DEF Covered, CheckpointCovered, EvidenceFlow, Present
<1>3. /\ disk' \in [Artifact -> Version]
      /\ disk'["evidence_index"] = disk["evidence_index"]
      /\ \A f \in Artifact \ {"report_docx"} : Present(f) => Present(f)'
  <2>1. disk \in [Artifact -> Version]
    BY DEF Covered, TypeOK
  <2>2. CASE UNCHANGED disk
    BY <2>1, <2>2 DEF Present
  <2>3. CASE \E docx \in BOOLEAN :
               disk' = [disk EXCEPT !["report_md"] = disk["report_v3"],
                                    !["report_docx"] = IF docx THEN disk["report_v3"] ELSE @]
    <3>1. Present("report_v3") \/ UNCHANGED disk
      BY DEF SkipStep
    <3>2. CASE UNCHANGED disk
      BY <2>1, <3>2 DEF Present
    <3>3. CASE Present("report_v3")
      <4>1. PICK docx \in BOOLEAN :
               disk' = [disk EXCEPT !["report_md"] = disk["report_v3"],
                                    !["report_docx"] = IF docx THEN disk["report_v3"] ELSE @]
        BY <2>3
      <4>2. disk["report_v3"] \in Version /\ disk["report_docx"] \in Version
        BY <2>1 DEF Artifact
      <4>3. disk' \in [Artifact -> Version]
        BY <2>1, <4>1, <4>2
      <4>4. \A f \in Artifact \ {"report_docx"} :
               disk'[f] = IF f = "report_md" THEN disk["report_v3"] ELSE disk[f]
        BY <2>1, <4>1 DEF Artifact
      <4> QED BY <3>3, <4>3, <4>4 DEF Present, Artifact
    <3> QED BY <3>1, <3>2, <3>3
  <2> QED BY <2>2, <2>3 DEF SkipStep
<1>4. evidence' \in {"none", "private", "promoted"} /\ parts' \subseteq {"core", "defence"}
  BY <1>2 DEF SkipStep, Covered, TypeOK
<1>5. TypeOK'
  BY <1>1, <1>3, <1>4 DEF Covered, TypeOK
<1>6. CheckpointCovered'
  BY <1>1, <1>3 DEF Covered, CheckpointCovered, Artifact
<1>7. Progress'
  BY <1>1 DEF Progress
<1>8. InStep'
  <2>1. ASSUME step' \in 1..6 PROVE Len(Writes(step))' \in Nat
    BY <1>1, <2>1, WritesType, SameWrites DEF Covered, TypeOK, Writes
  <2> QED BY <1>1, <2>1 DEF InStep
<1>9. EvidenceFlow'
  <2>1. evidence' # "none"
    BY <1>1, <1>2 DEF SkipStep, Covered, EvidenceFlow
  <2>2. step' > 4 => evidence' = "promoted"
    <3>1. CASE step = 4
      BY <1>1, <3>1 DEF SkipStep, Covered, CheckpointCovered
    <3>2. CASE step > 4
      BY <1>1, <3>2 DEF SkipStep, Covered, EvidenceFlow
    <3> QED BY <1>1, <3>1, <3>2
  <2>3. step' = 4 => written' # Len(Writes(4))'
    BY <1>1 DEF Writes
  <2> QED BY <1>1, <1>2, <1>3, <2>1, <2>2, <2>3 DEF EvidenceFlow
<1> QED BY <1>5, <1>6, <1>7, <1>8, <1>9 DEF Covered

----------------------------------------------------------------------------
\* What the next write leaves: some version of a known artifact, and of the
\* evidence index the one in memory.
LEMMA NextProduct ==
    ASSUME Covered, Working, written < Len(Writes(step)),
           NEW f, f = Writes(step)[written + 1]
    PROVE  /\ f \in Artifact /\ Product(f) \in Version
           /\ step <= 6 => Product(f) # "absent"
           /\ f = "evidence_index" => step \in {1, 3, 4} /\ Product(f) = EvidenceNow
           /\ EvidenceNow \in {"private", "promoted"}
<1>1. /\ run = "running" /\ step \in 1..8 /\ written \in 0..3 /\ skip \in BOOLEAN
      /\ evidence \in {"none", "private", "promoted"} /\ disk \in [Artifact -> Version]
  BY DEF Covered, TypeOK, Working, AtStep
<1>2. Len(Writes(step)) \in 1..3 /\ written + 1 \in 1..Len(Writes(step)) /\ f \in Artifact
  BY <1>1, WritesType
<1>3. EvidenceNow \in {"private", "promoted"}
  <2>1. CASE step = 1
    BY <2>1 DEF EvidenceNow
  <2>2. CASE step = 4
    BY <2>2 DEF EvidenceNow
  <2>3. CASE step \notin {1, 4}
    <3>1. EvidenceNow = evidence
      BY <2>3 DEF EvidenceNow
    <3> QED BY <1>1, <2>3, <3>1 DEF Covered, EvidenceFlow
  <2> QED BY <2>1, <2>2, <2>3
<1>4. f = "evidence_index" => step \in {1, 3, 4} /\ Product(f) = EvidenceNow
  BY <1>1, <1>2, IndexWriters DEF Product
<1>5. CASE f = "report_docx"
  <2>1. Product(f) = disk["report_v3"]
    BY <1>5 DEF Product
  <2>2. step > 6
    <3>1. ASSUME step \in 1..6 PROVE FALSE
      BY <1>1, <1>2, <1>5, <3>1, DocxWriter
    <3> QED BY <1>1, <3>1
  <2> QED BY <1>1, <1>2, <1>3, <1>4, <2>1, <2>2 DEF Artifact
<1>6. CASE f # "report_docx"
  <2>1. Product(f) \in {EvidenceNow, "whole", "partial"}
    BY <1>6 DEF Product
  <2> QED BY <1>2, <1>3, <1>4, <2>1 DEF Version
<1> QED BY <1>5, <1>6

\* One more artifact on the disk.
LEMMA WriteCovered ==
    ASSUME Covered, WriteArtifact
    PROVE  Covered'
<1> DEFINE f == Writes(step)[written + 1]
<1>1. /\ Working /\ written < Len(Writes(step)) /\ written' = written + 1
      /\ disk' = [disk EXCEPT ![f] = Product(f)] /\ evidence' = EvidenceNow
      /\ UNCHANGED <<run, last, step, skip, search, ckpt, crashes>>
  BY DEF WriteArtifact
<1>2. /\ run = "running" /\ step \in 1..8 /\ last \in 0..8 /\ step > last
      /\ written \in 0..3 /\ skip \in BOOLEAN
      /\ disk \in [Artifact -> Version] /\ ckpt.last = step - 1
      /\ Len(Writes(step)) \in 1..3
  BY <1>1, WritesType DEF Covered, TypeOK, Working, AtStep, ShouldSkip, Progress
<1>3. /\ f \in Artifact /\ Product(f) \in Version
      /\ step <= 6 => Product(f) # "absent"
      /\ f = "evidence_index" => step \in {1, 3, 4} /\ Product(f) = EvidenceNow
      /\ EvidenceNow \in {"private", "promoted"}
  BY <1>1, NextProduct
<1>4. /\ disk' \in [Artifact -> Version]
      /\ \A g \in Artifact : disk'[g] = IF g = f THEN Product(f) ELSE disk[g]
  BY <1>1, <1>2, <1>3
<1>5. ASSUME NEW g \in Artifact \ {"report_docx"}, Present(g) PROVE Present(g)'
  <2>1. CASE g # f
    BY <1>4, <1>5, <2>1 DEF Present
  <2>2. CASE g = f
    <3>1. Product(f) # "absent"
      <4>1. CASE f = "evidence_index"
        BY <1>3, <4>1
      <4>2. CASE f # "evidence_index"
        BY <1>5, <2>2, <4>2 DEF Product
      <4> QED BY <4>1, <4>2
    <3> QED BY <1>3, <1>4, <2>2, <3>1 DEF Present
  <2> QED BY <2>1, <2>2
<1>6. TypeOK'
  <2>1. parts' \subseteq {"core", "defence"}
    BY DEF WriteArtifact, Covered, TypeOK
  <2> QED BY <1>1, <1>2, <1>3, <1>4, <2>1 DEF Covered, TypeOK
<1>7. CheckpointCovered'
  <2>1. ckpt.last >= 4 => disk'["evidence_index"] = disk["evidence_index"]
    BY <1>2, <1>3, <1>4 DEF Artifact
  <2> QED BY <1>1, <1>2, <1>5, <2>1 DEF Covered, CheckpointCovered, Artifact
<1>8. Progress'
  BY <1>1, <1>2 DEF Progress
<1>9. InStep'
  <2>1. Writes(step)' = Writes(step)
    BY <1>1, SameWrites
  <2>2. ASSUME step \in 1..6, NEW i \in 1..(written + 1) PROVE Present(Writes(step)[i])'
    <3>1. CASE i = written + 1
      BY <1>1, <1>3, <1>4, <2>1, <2>2, <3>1 DEF Present
    <3>2. CASE i \in 1..written
      <4>1. Present(Writes(step)[i])
        BY <1>2, <2>2, <3>2 DEF Covered, InStep
      <4>2. i \in 1..Len(Writes(step))
        BY <1>1, <1>2, <3>2
      <4>3. Writes(step)[i] \in Artifact
        BY <1>2, <4>2, WritesType
      <4>4. Writes(step)[i] # "report_docx"
        BY <1>2, <2>2, <4>2, DocxWriter
      <4> QED BY <1>5, <2>1, <4>1, <4>3, <4>4 DEF Present
    <3> QED BY <1>2, <2>2, <3>1, <3>2
  <2> QED BY <1>1, <1>2, <2>1, <2>2 DEF InStep
<1>10. EvidenceFlow'
  <2>1. disk'["evidence_index"] \in {"absent", "private", "promoted"}
    BY <1>3, <1>4 DEF Covered, EvidenceFlow, Artifact
  <2>2. step >= 4 => EvidenceNow = "promoted"
    <3>1. CASE step = 4
      BY <3>1 DEF EvidenceNow
    <3>2. CASE step > 4
      BY <1>2, <3>2 DEF EvidenceNow, Covered, EvidenceFlow
    <3> QED BY <1>2, <3>1, <3>2
  <2>3. Writes(4)' = Writes(4)
    BY <1>1 DEF Writes
  <2>4. step = 4 /\ written + 1 = Len(Writes(4)) => disk'["evidence_index"] = "promoted"
    <3> SUFFICES ASSUME step = 4, written + 1 = Len(Writes(4))
                 PROVE  disk'["evidence_index"] = "promoted"
      OBVIOUS
    <3>1. f = "evidence_index"
      BY <1>2, IndexWriters
    <3> QED BY <1>3, <1>4, <2>2, <3>1
  <2> QED BY <1>1, <1>2, <1>3, <2>1, <2>2, <2>3, <2>4 DEF EvidenceFlow
<1> QED BY <1>6, <1>7, <1>8, <1>9, <1>10 DEF Covered

\* The Word report or the drafts are given up: nothing to cover depends on them.
LEMMA GiveUpCovered ==
    ASSUME Covered, OptionalFails
    PROVE  Covered'
<1>1. /\ run = "running" /\ step \in {7, 8} /\ step > last /\ written' = 2
      /\ UNCHANGED <<run, last, step, skip, search, evidence, parts, disk, ckpt, crashes>>
  BY DEF OptionalFails, Working, AtStep, ShouldSkip, GivenUp, Covered, TypeOK
<1>2. TypeOK'
  BY <1>1 DEF Covered, TypeOK
<1>3. CheckpointCovered'
  BY <1>1 DEF Covered, CheckpointCovered, Present
<1>4. Progress' /\ InStep'
  BY <1>1 DEF Covered, TypeOK, Progress, InStep
<1>5. EvidenceFlow'
  BY <1>1 DEF Covered, EvidenceFlow
<1> QED BY <1>2, <1>3, <1>4, <1>5 DEF Covered

\* The search writes nothing.
LEMMA SearchCovered ==
    ASSUME Covered, Search
    PROVE  Covered'
<1>1. /\ run = "running" /\ step = 7 /\ search' = "done"
      /\ UNCHANGED <<run, last, step, written, skip, evidence, parts, disk, ckpt, crashes>>
  BY DEF Search
<1>2. TypeOK'
  BY <1>1 DEF Covered, TypeOK
<1>3. CheckpointCovered'
  BY <1>1 DEF Covered, CheckpointCovered, Present
<1>4. Progress' /\ InStep'
  BY <1>1 DEF Covered, Progress, InStep
<1>5. EvidenceFlow'
  BY <1>1 DEF Covered, EvidenceFlow
<1> QED BY <1>2, <1>3, <1>4, <1>5 DEF Covered

\* The checkpoint moves on by one step, all of whose artifacts are written.
LEMMA CheckpointMoves ==
    ASSUME Covered, SaveCheckpoint
    PROVE  Covered'
<1>1. /\ run = "running" /\ step \in 1..8 /\ last \in 0..8 /\ step > last
      /\ written \in 0..3 /\ skip \in BOOLEAN /\ written >= Len(Writes(step))
      /\ Len(Writes(step)) \in 1..3 /\ ckpt.last = step - 1 /\ ckpt'.last = step
      /\ step' = step + 1 /\ written' = 0
      /\ UNCHANGED <<run, last, skip, search, evidence, parts, disk, crashes>>
  BY WritesType DEF SaveCheckpoint, Working, AtStep, ShouldSkip, Advance, Covered, TypeOK, Progress
<1>2. TypeOK'
  <2>1. Recorded \subseteq Artifact
    BY <1>1, WritesType DEF Recorded
  <2>2. ckpt' \in [last : 0..8, paths : SUBSET Artifact]
    BY <1>1, <2>1 DEF SaveCheckpoint, Covered, TypeOK
  <2> QED BY <1>1, <2>2 DEF Covered, TypeOK
<1>3. CheckpointCovered'
  <2>1. ASSUME step \in 1..6, NEW i \in 1..Len(Writes(step)) PROVE Present(Writes(step)[i])
    BY <1>1, <2>1 DEF Covered, InStep
  <2>2. \A g \in Artifact : Present(g)' = Present(g)
    BY <1>1 DEF Present
  <2>3. CASE step = 1
    BY <1>1, <2>1, <2>2, <2>3, Needed DEF CheckpointCovered, Artifact
  <2>4. CASE step = 2
    BY <1>1, <2>1, <2>2, <2>4, Needed DEF Covered, CheckpointCovered, Artifact
  <2>5. CASE step = 3
    BY <1>1, <2>1, <2>2, <2>5, Needed DEF Covered, CheckpointCovered, Artifact
  <2>6. CASE step = 4
    <3>1. written = Len(Writes(4))
      BY <1>1, <2>6 DEF Covered, InStep
    <3>2. disk["evidence_index"] = "promoted"
      BY <1>1, <2>6, <3>1 DEF Covered, EvidenceFlow
    <3> QED BY <1>1, <2>2, <2>6, <3>2 DEF Covered, CheckpointCovered, Artifact
  <2>7. CASE step = 5
    BY <1>1, <2>1, <2>2, <2>7, Needed DEF Covered, CheckpointCovered, Artifact
  <2>8. CASE step = 6
    BY <1>1, <2>1, <2>2, <2>8, Needed DEF Covered, CheckpointCovered, Artifact
  <2>9. CASE step \in {7, 8}
    BY <1>1, <2>2, <2>9 DEF Covered, CheckpointCovered, Artifact
  <2> QED BY <1>1, <2>3, <2>4, <2>5, <2>6, <2>7, <2>8, <2>9
<1>4. Progress'
  BY <1>1 DEF Progress
<1>5. InStep'
  <2>1. ASSUME step' \in 1..6 PROVE Len(Writes(step))' \in Nat
    BY <1>1, <2>1, WritesType DEF Writes
  <2> QED BY <1>1, <2>1 DEF InStep
<1>6. EvidenceFlow'
  <2>1. evidence' # "none" /\ (step' > 4 => evidence' = "promoted")
    <3>1. written > 0
      <4>1. PICK n \in 1..3 : n = Len(Writes(step))
        BY <1>1
      <4> QED BY <1>1, <4>1
    <3>2. evidence # "none"
      BY <1>1, <3>1 DEF Covered, EvidenceFlow
    <3>3. step + 1 > 4 => evidence = "promoted"
      BY <1>1, <3>1 DEF Covered, EvidenceFlow
    <3> QED BY <1>1, <3>2, <3>3
  <2>2. written' # Len(Writes(4))'
    BY <1>1 DEF Writes
  <2>3. disk'["evidence_index"] \in {"absent", "private", "promoted"}
    BY <1>1 DEF Covered, EvidenceFlow
  <2> QED BY <1>1, <2>1, <2>2, <2>3 DEF EvidenceFlow
<1> QED BY <1>2, <1>3, <1>4, <1>5, <1>6 DEF Covered

\* No process at work: the last one has finished, has died, or was refused.
LEMMA IdleCovered ==
    ASSUME Covered, run' \in {"none", "done", "rejected"}, UNCHANGED <<disk, ckpt>>,
           last' \in 0..8, step' \in 1..9, written' \in 0..3, skip' \in BOOLEAN,
           search' \in {"off", "due", "done"}, evidence' \in {"none", "private", "promoted"}, parts' \subseteq {"core", "defence"},
           crashes' \in 0..MaxCrashes
    PROVE  Covered'
<1>1. TypeOK'
  BY DEF Covered, TypeOK
<1>2. CheckpointCovered'
  BY DEF Covered, CheckpointCovered, Present
<1>3. Progress' /\ InStep'
  BY DEF Progress, InStep
<1>4. EvidenceFlow'
  BY DEF Covered, EvidenceFlow
<1> QED BY <1>1, <1>2, <1>3, <1>4 DEF Covered

\* Every step keeps the invariant.
LEMMA CoveredStep == Covered /\ [Next]_vars => Covered'
<1> SUFFICES ASSUME Covered, [Next]_vars PROVE Covered'
  OBVIOUS
<1>1. ASSUME NEW s \in BOOLEAN, NEW similar \in BOOLEAN, Start(s, similar) PROVE Covered'
  <2>1. Begin(ckpt.last, s, similar)
    BY <1>1 DEF Start, Begin
  <2> QED BY <2>1, BeginCovered
<1>2. ASSUME NEW s \in BOOLEAN, NEW similar \in BOOLEAN, Resume(s, similar) PROVE Covered'
  <2>1. CASE Begin(ckpt.last, s, similar)
    BY <2>1, BeginCovered
  <2>2. CASE /\ run' = "rejected"
             /\ UNCHANGED <<last, step, written, skip, search, evidence, parts, disk, ckpt, crashes>>
    BY <2>2, IdleCovered DEF Covered, TypeOK
  <2> QED BY <1>2, <2>1, <2>2 DEF Resume
<1>3. CASE SkipStep
  BY <1>3, SkipCovered
<1>4. CASE WriteArtifact
  BY <1>4, WriteCovered
<1>5. CASE OptionalFails
  BY <1>5, GiveUpCovered
<1>6. CASE SaveCheckpoint
  BY <1>6, CheckpointMoves
<1>7. CASE Finish
  BY <1>7, IdleCovered DEF Finish, Covered, TypeOK
<1>8. CASE Crash
  <2>1. crashes' \in 0..MaxCrashes
    BY <1>8, CasePipelineAssumption DEF Crash, Covered, TypeOK, CasePipelineAssumption
  <2>2. skip' \in BOOLEAN /\ parts' \subseteq {"core", "defence"}
    BY <1>8 DEF Crash
  <2> QED BY <1>8, <2>1, <2>2, IdleCovered DEF Crash
<1>9. CASE UNCHANGED vars
  <2>1. TypeOK'
    BY <1>9 DEF vars, Covered, TypeOK
  <2>2. CheckpointCovered'
    BY <1>9 DEF vars, Covered, CheckpointCovered, Present
  <2>3. Progress' /\ InStep'
    BY <1>9 DEF vars, Covered, Progress, InStep, Present, Writes
  <2>4. EvidenceFlow'
    BY <1>9 DEF vars, Covered, EvidenceFlow, Writes
  <2> QED BY <2>1, <2>2, <2>3, <2>4 DEF Covered
<1>10. CASE Search
  BY <1>10, SearchCovered
<1> QED BY <1>1, <1>2, <1>3, <1>4, <1>5, <1>6, <1>7, <1>8, <1>9, <1>10
    DEF Next, Command, Process

\* The inductive invariant holds.
LEMMA Invariance == Spec => []Covered
BY InitCovered, CoveredStep, PTL DEF Spec

----------------------------------------------------------------------------
\* Wherever the process dies between two writes, what checkpoint.json calls
\* completed can be read back by a resume.
THEOREM CheckpointCoveredHolds == Spec => []CheckpointCovered
<1>1. Covered => CheckpointCovered
  BY DEF Covered
<1> QED BY <1>1, Invariance, PTL

\* The post-debate analysis never works on evidence that has not gone through
\* the pretrial step, in a first run or after any resume.
THEOREM AnalysisSeesPromotedHolds == Spec => []AnalysisSeesPromoted
<1>1. Covered => AnalysisSeesPromoted
  BY DEF Covered, EvidenceFlow, AnalysisSeesPromoted
<1> QED BY <1>1, Invariance, PTL

\* A completed step neither calls the LLM nor writes again, but for the two reports that
\* are rendered anew, and the checkpoint never goes back.
THEOREM NeverRedoneHolds == Spec => NeverRedone
<1> DEFINE Rewritten(f) ==
               disk'[f] # disk[f] =>
                  \/ step > ckpt.last
                  \/ step = Outputs /\ f \in {"report_md", "report_docx"}
           Kept == /\ written' > written => step > ckpt.last
                   /\ \A f \in Artifact : Rewritten(f)
                   /\ ckpt'.last >= ckpt.last
<1>1. ASSUME Covered, [Next]_vars PROVE [Kept]_vars
  <2> SUFFICES ASSUME Next PROVE Kept
    BY <1>1
  <2>1. /\ ckpt.last \in 0..8 /\ written \in 0..3 /\ step \in 1..9 /\ last \in 0..8
        /\ disk \in [Artifact -> Version]
    BY <1>1 DEF Covered, TypeOK
  <2>2. CASE Command
    BY <2>1, <2>2 DEF Command, Start, Resume, Begin
  <2>3. CASE Search \/ Finish \/ Crash
    BY <2>1, <2>3 DEF Search, Finish, Crash
  <2>4. CASE WriteArtifact \/ OptionalFails
    <3>1. ckpt' = ckpt /\ run = "running" /\ step > last
      BY <2>1, <2>4 DEF WriteArtifact, OptionalFails, Working, AtStep, ShouldSkip
    <3> QED BY <1>1, <2>1, <3>1 DEF Covered, Progress
  <2>5. CASE SaveCheckpoint
    <3>1. ckpt.last = step - 1
      BY <1>1, <2>1, <2>5 DEF SaveCheckpoint, Working, AtStep, ShouldSkip, Covered, Progress
    <3> QED BY <2>1, <2>5, <3>1 DEF SaveCheckpoint, Advance
  <2>6. CASE SkipStep
    <3>1. written' = 0 /\ ckpt' = ckpt
      BY <2>6 DEF SkipStep, Advance
    <3>2. ASSUME NEW f \in Artifact PROVE Rewritten(f)
      <4>1. CASE UNCHANGED disk
        BY <4>1
      <4>2. CASE /\ step = Outputs
                 /\ \E docx \in BOOLEAN :
                       disk' = [disk EXCEPT !["report_md"] = disk["report_v3"],
                                            !["report_docx"] = IF docx THEN disk["report_v3"]
                                                               ELSE @]
        BY <2>1, <4>2
      <4> QED BY <2>6, <4>1, <4>2 DEF SkipStep
    <3> QED BY <2>1, <3>1, <3>2
  <2> QED BY <2>2, <2>3, <2>4, <2>5, <2>6 DEF Next, Process
<1> QED BY <1>1, Invariance, PTL DEF Spec, NeverRedone
=============================================================================
