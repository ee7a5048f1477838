---------------------------- MODULE MCCaseClients ----------------------------
(* CaseClients with two clients, one follow-up and one scenario job. *)
EXTENDS CaseClients

CONSTANTS i1, i2, e1, x1

MCEntries ==
    {[issue |-> i1, direction |-> "weaken", impact |-> "text"],
     [issue |-> i2, direction |-> "worse", impact |-> ""],
     [issue |-> x1, direction |-> "neutral", impact |-> "text"]}

MCChangeSets == {<<>>, <<i1, x1>>, <<e1, x1, e1>>}
=============================================================================
