---------------------------- MODULE GatewayContract ----------------------------
(***************************************************************************)
(* What the gateway of task 2 promises the client and the downstream       *)
(* server: the server is sent a request at most once and only if its       *)
(* sender may make it; the client gets at most one answer, under the id it *)
(* asked with, and one that tells the truth about what became of the       *)
(* request.                                                                *)
(***************************************************************************)
EXTENDS Naturals

CONSTANTS
  Req,         (* requests                                                 *)
  Ids,         (* the ids they may carry                                   *)
  NoId,        (* none                                                     *)
  Nothing      (* not arrived; no answer yet                               *)

VARIABLES
  asked,       (* the id each request asks to be answered under            *)
  may,         (* requests whose sender and content were found in order    *)
  sent,        (* how often the downstream server was sent each            *)
  outcome,     (* what it replied: a success or a failure                  *)
  told         (* what the client of each request was answered             *)

contractVars == <<asked, may, sent, outcome, told>>

Say(a, i) == [what |-> a, id |-> i]

ContractInit ==
  /\ asked = [r \in Req |-> Nothing]
  /\ may = {}
  /\ sent = [r \in Req |-> 0]
  /\ outcome = [r \in Req |-> Nothing]
  /\ told = [r \in Req |-> Say(Nothing, NoId)]

Pending(r) == told[r].what = Nothing

\* A request arrives: it may be made, or it may not, and then it can be turned
\* away at once.
Present(r) ==
  /\ Pending(r) /\ asked[r] = Nothing
  /\ \E i \in Ids \cup {NoId} : asked' = [asked EXCEPT ![r] = i]
  /\ \/ may' = may \cup {r} /\ UNCHANGED told
     \/ /\ UNCHANGED may
        /\ UNCHANGED told \/ told' = [told EXCEPT ![r] = Say("refused", NoId)]
  /\ UNCHANGED <<sent, outcome>>

\* The downstream server is sent the request: once, and only an admitted one.
Expose(r) ==
  /\ Pending(r) /\ r \in may /\ sent[r] = 0
  /\ sent' = [sent EXCEPT ![r] = @ + 1]
  /\ UNCHANGED <<asked, may, outcome, told>>

Reply(r) ==
  /\ Pending(r) /\ sent[r] > 0 /\ outcome[r] = Nothing
  /\ \E o \in {"success", "failure"} : outcome' = [outcome EXCEPT ![r] = o]
  /\ UNCHANGED <<asked, may, sent, told>>

\* A refusal is for a request that is not admitted.  A result, or a stream of the
\* server's own messages, is of a request that was sent, asked for an answer and
\* succeeded; a result bears its id.  Silence is for a notification that is refused
\* and for what succeeded.  A failure is of an admitted request, and bears its id
\* unless the server has replied.  Nobody listens to what is abandoned.
Truthful(r, a, i) ==
  \/ a = "refused" /\ r \notin may /\ i \in {asked[r], NoId}
  \/ a = "result"  /\ outcome[r] = "success" /\ i = asked[r] /\ i # NoId
  \/ a = "relayed" /\ outcome[r] = "success" /\ asked[r] # NoId
  \/ a = "silence" /\ IF r \in may THEN outcome[r] = "success" ELSE asked[r] = NoId
  \/ a = "failed"  /\ r \in may /\ (i = asked[r] \/ (i = NoId /\ outcome[r] # Nothing))
  \/ a = "abandoned"

Answers == {"refused", "result", "relayed", "silence", "failed", "abandoned"}

Tell(r, a, i) ==
  /\ Pending(r) /\ Truthful(r, a, i)
  /\ told' = [told EXCEPT ![r] = Say(a, i)]
  /\ UNCHANGED <<asked, may, sent, outcome>>

ContractNext ==
  \E r \in Req :
    \/ Present(r) \/ Expose(r) \/ Reply(r)
    \/ \E a \in Answers, i \in Ids \cup {NoId} : Tell(r, a, i)

ContractSpec == ContractInit /\ [][ContractNext]_contractVars
=============================================================================
