----------------------------- MODULE LlmAnswer -----------------------------
(***************************************************************************)
(* ClaudeCLIClient and json_utils.py: the text that one run of the command *)
(* gives, and the object or the list that is read from a text, whatever    *)
(* the text is.                                                            *)
(*                                                                         *)
(* A text is what each way of reading it gives: a sequence that is empty   *)
(* if there is no object and holds the object if there is one.             *)
(***************************************************************************)
EXTENDS SequencesExt

\* A part of a text.  broken: it is no JSON at all, and mended is what it is with its
\* inner quotation marks escaped (_repair_json_string); what is JSON but no object is
\* not mended.
Read(part) == IF part.broken THEN part.mended ELSE part.object

Nothing == [broken |-> TRUE, mended |-> <<>>, object |-> <<>>]
Clean(object) == [broken |-> FALSE, mended |-> <<>>, object |-> <<object>>]
Mendable(object) == [broken |-> TRUE, mended |-> <<object>>, object |-> <<>>]

\* _extract_json_object: the code block, the whole text, what is between the first and
\* the last brace, and at last what can be read of a text that was cut off when its
\* braces are closed.  The whole text and the cut one are not mended.
ObjectIn(text) ==
    LET found == Read(text.block) \o text.whole.object \o Read(text.braces) \o text.cut.object
    IN  IF found = <<>> THEN <<>> ELSE <<Head(found)>>

\* _extract_json_array: a list instead, with brackets for braces; a list that was cut
\* off is not closed.
ArrayIn(text) ==
    LET found == Read(text.block) \o text.whole.object \o Read(text.braces)
    IN  IF found = <<>> THEN <<>> ELSE <<Head(found)>>

----------------------------------------------------------------------------
\* A run of the claude command.  It raises if the command is not on the PATH, is
\* killed for being late, or exits with an error: no text then.
Process(texts) == [found : BOOLEAN, timely : BOOLEAN, code : {0, 1}, text : texts]

Message(process) ==
    IF process.found /\ process.timely /\ process.code = 0 THEN <<process.text>> ELSE <<>>
=============================================================================
