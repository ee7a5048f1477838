---------------------------- MODULE EvidenceBoard ----------------------------
(***************************************************************************)
(* What the evidence lifecycle promises: the audience of every piece of    *)
(* evidence only widens, from its owner to both parties to the court, and  *)
(* what is on the court's record stays there.                              *)
(***************************************************************************)
EXTENDS Naturals

CONSTANT Evidence

VARIABLE audience

Rank == [owner_private |-> 0, shared_common |-> 1, admitted_record |-> 2]
Audience == DOMAIN Rank

Init == audience = [e \in Evidence |-> "owner_private"]

Widen == /\ audience' \in [Evidence -> Audience]
         /\ \A e \in Evidence : Rank[audience[e]] <= Rank[audience'[e]]

Spec == Init /\ [][Widen]_audience
=============================================================================
