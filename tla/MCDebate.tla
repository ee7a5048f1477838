------------------------------ MODULE MCDebate ------------------------------
(* Debate with one piece of evidence of each kind and two issues. *)
EXTENDS Debate, TLC

CONSTANTS pe, de, ae, i1, i2

\* i1 rests on the plaintiff's private evidence, i2 on the rest.
MCEvidenceOf == i1 :> {pe} @@ i2 :> {de, ae}
=============================================================================
