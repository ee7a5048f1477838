----------------------------- MODULE MCFollowup -----------------------------
(* FollowupSession with one material for each party and up to two issues. *)
EXTENDS FollowupSession

CONSTANTS p1, d1, x1, a, b

MCEvidenceItems ==
    {[source |-> p1, whole |-> TRUE], [source |-> d1, whole |-> TRUE],
     [source |-> Blank, whole |-> TRUE], [source |-> x1, whole |-> FALSE]}

MCIssueItems ==
    {[name |-> a, parent |-> Blank, evidence |-> {<<"plaintiff", 1>>, x1}, whole |-> TRUE],
     [name |-> b, parent |-> a, evidence |-> {<<"defendant", 2>>}, whole |-> TRUE],
     [name |-> a, parent |-> <<"issue", 1>>, evidence |-> {}, whole |-> TRUE],
     [name |-> Blank, parent |-> b, evidence |-> {}, whole |-> TRUE]}

MCBurdenSets == {{}, {a}, {<<"issue", 2>>}}
MCMappingSets == {{}, {b, x1}}

MCQuestions == {<<"space", "tag">>, <<"space", "word", "tag", "word", "word">>}

O(answer, issues, evidence, cited, class) ==
    [answer |-> answer, issues |-> issues, evidence |-> evidence, cited |-> cited, class |-> class]

MCOutputs ==
    {O("", {1}, {}, {}, "fact"),
     O("text", {}, {}, {}, "fact"),
     O("text", {2, x1}, {<<"plaintiff", 1>>}, {x1}, "guess"),
     O("text", {1, 2}, {x1}, {<<"defendant", 2>>}, "assumption"),
     O("text", {x1}, {<<"plaintiff", 1>>, <<"plaintiff", 2>>}, {<<"defendant", 2>>}, "inference")}
=============================================================================
