--------------------------- MODULE MCGuardrailStream ---------------------------
(* Small instances of GuardrailStream for TLC. *)
EXTENDS GuardrailStream

Both == {0, 1}

Says(c)      == [choice |-> c, tool |-> NoTool, declared |-> TRUE, text |-> TRUE, finish |-> FALSE]
Calls(c, t)  == [Says(c) EXCEPT !.tool = t]
Finishes(c)  == [Says(c) EXCEPT !.text = FALSE, !.finish = TRUE]

FinishesSaying(c) == [Says(c) EXCEPT !.finish = TRUE]

\* Two choices, one of which calls two tools and one of which finishes with text,
\* and an event that is no chunk.
Ordinary ==
  {Says(0), Says(1), Calls(0, 0), Calls(0, 1), Says(Raw), Finishes(0), FinishesSaying(1)}
=============================================================================
