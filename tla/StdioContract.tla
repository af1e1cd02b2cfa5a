----------------------------- MODULE StdioContract -----------------------------
(***************************************************************************)
(* What the stdio server promises its client: every line gets the frame it *)
(* is owed, once, and no other frame is ever written; the server does not  *)
(* leave before that, or it has said in its log that it gave up.           *)
(***************************************************************************)
EXTENDS StdioFrames

VARIABLES
  lines,   (* what the client has written                                  *)
  wire,    (* how many copies of each frame it has been sent               *)
  warned,  (* has the server logged that it leaves requests unanswered?    *)
  shut     (* has it left?                                                 *)

contractVars == <<lines, wire, warned, shut>>

OwedFor(f) == {n \in DOMAIN lines : Owes(lines[n]) /\ Owed(lines[n]) = f}
Settled    == \A f \in Frame : wire[f] = Cardinality(OwedFor(f))

ContractInit ==
  /\ lines = <<>>
  /\ wire = [f \in Frame |-> 0]
  /\ warned = FALSE /\ shut = FALSE

Accept ==
  /\ ~ shut
  /\ \E l \in Line : lines' = Append(lines, l)
  /\ UNCHANGED <<wire, warned, shut>>

\* A frame is written for a line that is owed it and has not had it.
Answer ==
  /\ ~ shut
  /\ \E f \in Frame :
       /\ wire[f] < Cardinality(OwedFor(f))
       /\ wire' = [wire EXCEPT ![f] = @ + 1]
  /\ UNCHANGED <<lines, warned, shut>>

Warn == ~ shut /\ warned' = TRUE /\ UNCHANGED <<lines, wire, shut>>

Leave ==
  /\ ~ shut
  /\ Settled \/ warned
  /\ shut' = TRUE
  /\ UNCHANGED <<lines, wire, warned>>

ContractNext == Accept \/ Answer \/ Warn \/ Leave

ContractSpec == ContractInit /\ [][ContractNext]_contractVars
=============================================================================
