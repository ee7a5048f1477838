------------------------------ MODULE MCPretrial ------------------------------
(* A small instance of PretrialConference: two items of the plaintiff, one  *)
(* of the defendant.                                                        *)
EXTENDS PretrialConference

CONSTANTS e1, e2, e3

MCOwner == [e \in {e1, e2, e3} |-> IF e = e3 THEN Defendant ELSE Plaintiff]
=============================================================================
