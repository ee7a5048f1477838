---------------------------- MODULE CaseLifecycle ----------------------------
(***************************************************************************)
(* What the case API promises about one case, seen from outside: `live` is *)
(* the status its clients read, `saved` the one that a restarted process   *)
(* would bring back.  The saved status trails the live one, is only ever   *)
(* overwritten by what is live, and a restart never invents a status.      *)
(***************************************************************************)
CONSTANT LateFailures   \* storing a finished result may itself fail

VARIABLES live, saved

Status == {"created", "extracting", "extracted", "confirmed",
           "analyzing", "analyzed", "failed"}

\* The moves of a case.  Analyzed and failed cases do not move.
Moves ==
    {<<"created", "extracting">>,
     <<"extracting", "extracted">>, <<"extracting", "failed">>,
     <<"extracted", "created">>, <<"extracted", "confirmed">>, <<"extracted", "analyzing">>,
     <<"confirmed", "created">>, <<"confirmed", "analyzing">>,
     <<"analyzing", "analyzed">>, <<"analyzing", "failed">>}
    \cup (IF LateFailures
          THEN {<<"extracted", "failed">>, <<"analyzed", "failed">>} ELSE {})

Init == live = "absent" /\ saved = "absent"

Create == /\ live = "absent" /\ saved = "absent"
          /\ live' = "created" /\ saved' \in {"absent", "created"}

\* The live status moves, and the new one may reach the disk with it.
Move == /\ <<live, live'>> \in Moves
        /\ saved' \in {saved, live'}

\* The disk catches up with the live status.
Flush == live # "absent" /\ saved' = live /\ UNCHANGED live

\* The process forgets the case: it is evicted, or the process dies.
Forget == live # "absent" /\ live' = "absent" /\ UNCHANGED saved

Recover == live = "absent" /\ saved # "absent" /\ live' = saved /\ UNCHANGED saved

\* An analysis whose case was evicted under it may still reach the disk.
FinishUnseen == /\ live = "absent" /\ saved = "analyzing"
                /\ saved' = "analyzed" /\ UNCHANGED live

Next == Create \/ Move \/ Flush \/ Forget \/ Recover \/ FinishUnseen

Spec == Init /\ [][Next]_<<live, saved>>
=============================================================================
