------------------------------ MODULE StdioFrames ------------------------------
(***************************************************************************)
(* The lines a client may write to src/task1_mcp_server and the frames it  *)
(* may get back, shared by the server and by the contract it keeps.        *)
(*                                                                         *)
(* A line is a kind and, where one can be recovered from it, an id.  The   *)
(* kinds are those the SDK's parser and the pump tell apart.               *)
(***************************************************************************)
EXTENDS Integers, Sequences, FiniteSets

CONSTANTS
  Ids,     (* usable request ids: strings and integers                     *)
  NoId     (* no id, or one that cannot be echoed: null in a frame         *)

ASSUME IdsAssumption  == IsFiniteSet(Ids)
ASSUME NoIdAssumption == NoId \notin Ids

Kinds == {"blank",     \* only white space
          "garbage",   \* not JSON
          "invalid",   \* JSON, but no request: a batch, a wrong version ...
          "bad_call",  \* a tools/call whose envelope is malformed
          "masked",    \* an unusable id: parsed as a notification
          "notice",    \* a notification, or a response to the server
          "request"}   \* any other request

Line ==
  {l \in [kind : Kinds, id : Ids \cup {NoId}] :
     /\ l.kind \in {"bad_call", "request"} => l.id # NoId
     /\ l.kind \in {"blank", "garbage", "masked", "notice"} => l.id = NoId}

Codes == {"parse_error", "invalid_request", "invalid_params", "answer"}
Frame == [id : Ids \cup {NoId}, code : Codes]

\* Does JSON-RPC owe this line a frame?
Owes(l) == l.kind \notin {"blank", "notice"}

\* The frame it is owed: "answer" is the handler's result or its error.
Owed(l) ==
  [id   |-> l.id,
   code |-> CASE l.kind = "garbage"               -> "parse_error"
              [] l.kind \in {"invalid", "masked"} -> "invalid_request"
              [] l.kind = "bad_call"              -> "invalid_params"
              [] OTHER                            -> "answer"]
=============================================================================
