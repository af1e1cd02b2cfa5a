------------------------------- MODULE WireClaim -------------------------------
(***************************************************************************)
(* src/task1_mcp_server/wire.py: claim_stdio_wire, system call by system   *)
(* call, over the descriptor table of the process, and what run() in       *)
(* __main__.py makes of its failures.                                      *)
(***************************************************************************)
EXTENDS Naturals, FiniteSets

CONSTANTS
  MaxFd,      (* the highest descriptor the process may have               *)
  Starts      (* the descriptor tables it may be started with              *)

Fd   == 0..MaxFd
Open == {"in", "out", "err"}       (* the open files a process is given     *)
File == Open \cup {"null", "closed"}
None == MaxFd + 1

\* Any descriptors may be closed, and any of them share one open file: a terminal,
\* 2>&1, an inherited copy. "null" is the claim's own open of the null device.
ASSUME WireAssumption ==
  /\ MaxFd \in Nat /\ MaxFd >= 2
  /\ Starts \subseteq [Fd -> Open \cup {"closed"}]

VARIABLES
  pc,        (* the next system call                                       *)
  table,     (* what each descriptor refers to                             *)
  start,     (* what it referred to before                                 *)
  own,       (* the descriptors the claim holds in its variables           *)
  handles,   (* those a file object was made of                            *)
  exit       (* how run() ends                                             *)

vars == <<pc, table, start, own, handles, exit>>

Names == {"wire_out", "wire_in", "saved1", "saved0", "null"}

Free(least) == {d \in Fd : d >= least /\ table[d] = "closed"}
Lowest(ds)  == CHOOSE d \in ds : \A e \in ds : d <= e

\* Before the try nothing is undone.
GiveUp == pc' = "gone" /\ exit' = "oserror" /\ UNCHANGED <<table, own, handles>>

Took(name, d, file, next) ==
  /\ own' = [own EXCEPT ![name] = d]
  /\ table' = [table EXCEPT ![d] = file]
  /\ pc' = next /\ UNCHANGED <<handles, exit>>

\* Mutant: os.dup: the lowest free descriptor, whichever it is.
DupAnywhere(at, name, fd, next) ==
  /\ pc = at
  /\ \/ /\ table[fd] # "closed" /\ Free(0) # {}
        /\ Took(name, Lowest(Free(0)), table[fd], next)
     \/ GiveUp
  /\ UNCHANGED start

\* _dup_above_std: it fails on a closed descriptor, or when the table is full.
DupAboveStd(at, name, fd, next) ==
  /\ pc = at
  /\ \/ /\ table[fd] # "closed" /\ Free(3) # {}
        /\ Took(name, Lowest(Free(3)), table[fd], next)
     \/ GiveUp
  /\ UNCHANGED start

\* os.open(os.devnull)
OpenNull ==
  /\ pc = "open_null"
  /\ \/ Free(0) # {} /\ Took("null", Lowest(Free(0)), "null", "seal_out")
     \/ GiveUp
  /\ UNCHANGED start

\* A failure in the try goes to its finally.
Fails == pc' = "restore" /\ exit' = "oserror" /\ UNCHANGED <<table, own, handles>>

\* os.dup2(2, 1), os.dup2(null_fd, 0)
Dup2(at, from, to, next) ==
  /\ pc = at
  /\ \/ /\ table[from] # "closed"
        /\ table' = [table EXCEPT ![to] = table[from]]
        /\ pc' = next /\ UNCHANGED <<own, handles, exit>>
     \/ Fails
  /\ UNCHANGED start

\* os.fdopen
Fdopen(at, name, next) ==
  /\ pc = at
  /\ \/ handles' = handles \cup {name} /\ pc' = next /\ UNCHANGED <<table, own, exit>>
     \/ Fails
  /\ UNCHANGED start

\* The server ends, well or with an exception that passes through the claim: an
\* OSError, or a group of them, is an exit status.
Served ==
  /\ pc = "serving"
  /\ pc' = "restore"
  /\ exit' \in {"ok", "oserror", "raised"}
  /\ UNCHANGED <<table, start, own, handles>>

\* flush() and close(): the flush of an output nobody reads raises, and its close
\* is left to the interpreter.
CloseWire ==
  /\ pc = "restore"
  /\ \E kept \in SUBSET (handles \cap {"wire_out"}) :
       table' = [d \in Fd |->
         IF \E n \in {"wire_out", "wire_in"} \ kept : own[n] = d THEN "closed" ELSE table[d]]
  /\ pc' = "restore_fds"
  /\ UNCHANGED <<start, own, handles, exit>>

\* Mutant: the saved descriptors are restored the wrong way round.
RestoreSwapped ==
  /\ pc = "restore_fds"
  /\ table' = [d \in Fd |->
       IF \E n \in {"saved1", "saved0", "null"} : own[n] = d THEN "closed"
       ELSE IF d = 0 THEN table[own["saved1"]] ELSE IF d = 1 THEN table[own["saved0"]]
       ELSE table[d]]
  /\ pc' = "gone"
  /\ UNCHANGED <<start, own, handles, exit>>

\* os.dup2(saved_fd1, 1), os.dup2(saved_fd0, 0), then the rest is closed.
Restore ==
  /\ pc = "restore_fds"
  /\ table' = [d \in Fd |->
       IF \E n \in {"saved1", "saved0", "null"} : own[n] = d THEN "closed"
       ELSE IF d = 1 THEN table[own["saved1"]] ELSE IF d = 0 THEN table[own["saved0"]]
       ELSE table[d]]
  /\ pc' = "gone"
  /\ UNCHANGED <<start, own, handles, exit>>

Init ==
  /\ start \in Starts /\ table = start
  /\ own = [n \in Names |-> None] /\ handles = {}
  /\ pc = "dup_out" /\ exit = "none"

Next ==
  \/ DupAboveStd("dup_out", "wire_out", 1, "dup_in")
  \/ DupAboveStd("dup_in", "wire_in", 0, "save_out")
  \/ DupAboveStd("save_out", "saved1", 1, "save_in")
  \/ DupAboveStd("save_in", "saved0", 0, "open_null")
  \/ OpenNull
  \/ Dup2("seal_out", 2, 1, "seal_in")
  \/ Dup2("seal_in", own["null"], 0, "open_writer")
  \/ Fdopen("open_writer", "wire_out", "open_reader")
  \/ Fdopen("open_reader", "wire_in", "serving")
  \/ Served \/ CloseWire \/ Restore

Spec == Init /\ [][Next]_vars

-----------------------------------------------------------------------------
(* Properties                                                              *)

\* Types.
TypeOK ==
  /\ table \in [Fd -> File] /\ start \in [Fd -> File]
  /\ own \in [Names -> Fd \cup {None}] /\ handles \subseteq {"wire_out", "wire_in"}
  /\ exit \in {"none", "ok", "oserror", "raised"}

\* claim_stdio_wire: while the server runs, the client's files are reached through
\* the descriptors of the claim, all above the standard range, and no others but
\* those that were on them before the claim: fd 1 only if standard error was, fd 0
\* never, and nothing the claim opened on the way.
Sealed ==
  pc = "serving" =>
    /\ \A n \in Names \ {"null"} : own[n] \in 3..MaxFd
    /\ table[own["wire_out"]] = start[1] /\ table[own["wire_in"]] = start[0]
    /\ \A d \in Fd : table[d] \in {start[0], start[1]} =>
         \/ \E n \in Names : own[n] = d
         \/ d >= 2 /\ table[d] = start[d]
         \/ d = 1 /\ table[d] = start[2]

\* The finally: however the claim was left once it had begun to redirect, fd 0 and
\* fd 1 are what they were, and but for a wire whose flush failed no descriptor is
\* left open.
RestoredAfterwards ==
  pc = "gone" /\ own["null"] # None =>
    \A d \in Fd : table[d] = start[d] \/ (d = own["wire_out"] /\ "wire_out" \in handles)
=============================================================================
