---------------------------- MODULE WireClaimProofs ----------------------------
(***************************************************************************)
(* Proofs about WireClaim, for descriptor tables of every size and content. *)
(***************************************************************************)
EXTENDS WireClaim, WellFoundedInduction, TLAPS

\* A nonempty set of descriptors has a lowest one: what dup and open return.
LEMMA LowestIsIn ==
  ASSUME NEW S \in SUBSET Nat, S # {}
  PROVE  Lowest(S) \in S
<1>1. \A x, y \in Nat : y < x => <<y, x>> \in OpToRel(<, Nat)
  BY DEF OpToRel
<1>2. PICK less : IsWellFoundedOn(less, Nat) /\ \A x, y \in Nat : y < x => <<y, x>> \in less
  BY <1>1, NatLessThanWellFounded
<1>3. PICK x \in S : \A y \in S : ~ (<<y, x>> \in less)
  BY <1>2, WFMin
<1>4. \A y \in S : ~ (y < x)
  BY <1>2, <1>3
<1>5. \A y \in S : x <= y
  BY <1>4
<1> QED BY <1>5 DEF Lowest

\* A descriptor taken by dup or open was closed, and in the range asked for.
LEMMA LowestFree ==
  ASSUME NEW least \in Nat, Free(least) # {}
  PROVE  /\ Lowest(Free(least)) \in Fd
         /\ Lowest(Free(least)) >= least
         /\ table[Lowest(Free(least))] = "closed"
<1>1. Free(least) \in SUBSET Nat
  BY WireAssumption DEF Free, Fd
<1>2. Lowest(Free(least)) \in Free(least)
  BY <1>1, LowestIsIn
<1> QED BY <1>2 DEF Free

-----------------------------------------------------------------------------
(* The inductive invariant.                                                *)

Dup1   == {"dup_out"}
Dup2s  == Dup1 \cup {"dup_in"}
Dup3   == Dup2s \cup {"save_out"}
Dup4   == Dup3 \cup {"save_in"}
Dup5   == Dup4 \cup {"open_null"}
Unsealed == Dup5 \cup {"seal_out"}
Claimed  == {"open_writer", "open_reader", "serving"}
Calls    == Unsealed \cup {"seal_in"} \cup Claimed \cup {"restore", "restore_fds", "gone"}

Typing ==
  /\ pc \in Calls
  /\ table \in [Fd -> File] /\ start \in [Fd -> File]
  /\ own \in [Names -> Fd \cup {None}] /\ handles \subseteq {"wire_out", "wire_in"}
  /\ exit \in {"none", "ok", "oserror", "raised"}

\* What the process starts with.
StartInv == \A d \in Fd : start[d] \in Open \cup {"closed"}

\* Which descriptors have been taken by each call.
TakenInv ==
  /\ own["wire_out"] # None <=> pc \notin Dup1
  /\ own["wire_in"]  # None <=> pc \notin Dup2s
  /\ own["saved1"]   # None <=> pc \notin Dup3
  /\ own["saved0"]   # None <=> pc \notin Dup4
  /\ own["null"]     # None <=> pc \notin Dup5

\* The claim's descriptors are distinct, were closed, and are not standard ones,
\* but for the null device, which may be where standard error was closed.
OwnInv ==
  /\ \A m, n \in Names : m # n /\ own[m] # None => own[m] # own[n]
  /\ \A n \in Names : own[n] # None =>
       /\ start[own[n]] = "closed"
       /\ IF n = "null" THEN own[n] >= 2 ELSE own[n] >= 3

\* What the claim's descriptors refer to.
FileInv ==
  /\ pc # "restore_fds" /\ own["wire_out"] # None => table[own["wire_out"]] = start[1]
  /\ pc # "restore_fds" /\ own["wire_in"]  # None => table[own["wire_in"]] = start[0]
  /\ own["saved1"] # None => table[own["saved1"]] = start[1]
  /\ own["saved0"] # None => table[own["saved0"]] = start[0]
  /\ own["null"]   # None => table[own["null"]] = "null"
  /\ own["wire_out"] # None => start[1] # "closed"
  /\ own["wire_in"]  # None => start[0] # "closed"
  /\ pc = "restore_fds" => /\ table[own["wire_in"]] = "closed"
                           /\ "wire_out" \in handles \/ table[own["wire_out"]] = "closed"

\* The other descriptors are as they were, and the standard ones by stages.
RestInv ==
  /\ \A d \in Fd \ {0, 1} : (\A n \in Names : own[n] # d) => table[d] = start[d]
  /\ pc \in Unsealed => table[0] = start[0] /\ table[1] = start[1]
  /\ pc = "seal_in"  => table[1] \in {start[2], "null"}
  /\ pc \in Claimed  => table[0] = "null" /\ table[1] \in {start[2], "null"}

IInv ==
  /\ Typing /\ StartInv
  /\ pc # "gone" => TakenInv /\ OwnInv /\ FileInv /\ RestInv
  /\ RestoredAfterwards

\* The sets of calls are what they list.
LEMMA StandardFds == 0 \in Fd /\ 1 \in Fd /\ 2 \in Fd /\ None \notin Fd
  BY WireAssumption DEF Fd, None

\* The initial states satisfy the invariant.
LEMMA InitIInv == Init => IInv
<1> SUFFICES ASSUME Init PROVE IInv
  OBVIOUS
<1> USE StandardFds DEF Dup1, Dup2s, Dup3, Dup4, Dup5, Unsealed, Claimed, Calls
<1>1. start \in [Fd -> File] /\ StartInv
  BY WireAssumption DEF Init, File, StartInv
<1>2. Typing
  BY <1>1 DEF Init, Typing
<1>3. own = [n \in Names |-> None] /\ pc = "dup_out" /\ table = start
  BY DEF Init
<1> QED BY <1>1, <1>2, <1>3
        DEF IInv, TakenInv, OwnInv, FileInv, RestInv, RestoredAfterwards, Names

-----------------------------------------------------------------------------
(* The steps.                                                              *)

\* The four duplicates: who asks, for whom, of which descriptor, what comes next.
Dups == { <<"dup_out",  "wire_out", 1, "dup_in">>,
          <<"dup_in",   "wire_in",  0, "save_out">>,
          <<"save_out", "saved1",   1, "save_in">>,
          <<"save_in",  "saved0",   0, "open_null">> }

\* A failure before the try gives nothing back, and holds no null device.
LEMMA GiveUpIInv ==
  ASSUME IInv, pc \in Dup5, GiveUp, UNCHANGED start
  PROVE  IInv'
<1>1. own["null"] = None
  BY DEF IInv, TakenInv, Dup1, Dup2s, Dup3, Dup4, Dup5
<1>2. Typing' /\ StartInv'
  BY DEF GiveUp, IInv, Typing, StartInv, Calls
<1> QED BY <1>1, <1>2 DEF GiveUp, IInv, RestoredAfterwards

\* A descriptor is taken for `name`.
LEMMA TookIInv ==
  ASSUME IInv, NEW name \in Names, NEW d \in Fd, NEW file \in File, NEW next \in Calls,
         pc \in Dup5, own[name] = None, table[d] = "closed", file # "closed",
         d >= (IF name = "null" THEN 2 ELSE 3),
         Took(name, d, file, next), UNCHANGED start,
         next \in Unsealed
  PROVE  /\ Typing' /\ StartInv' /\ OwnInv' /\ RestInv' /\ RestoredAfterwards'
         /\ own' = [own EXCEPT ![name] = d] /\ table' = [table EXCEPT ![d] = file]
         /\ \A n \in Names : own[n] # None => own[n] # d
<1> USE StandardFds DEF IInv
<1>1. pc # "gone" /\ next # "gone" /\ next \notin {"seal_in"} \cup Claimed /\ pc \in Unsealed
  BY DEF Dup1, Dup2s, Dup3, Dup4, Dup5, Unsealed, Claimed
<1>2. TakenInv /\ OwnInv /\ FileInv /\ RestInv /\ Typing /\ StartInv
  BY <1>1
<1>3. own' = [own EXCEPT ![name] = d] /\ table' = [table EXCEPT ![d] = file] /\ pc' = next
  BY DEF Took
<1>4. \A n \in Names : own[n] # None => own[n] # d
  <2>1. /\ own["saved1"] # None => own["wire_out"] # None
        /\ own["saved0"] # None => own["wire_in"] # None
    BY <1>1, <1>2 DEF TakenInv, Dup1, Dup2s, Dup3, Dup4, Dup5
  <2>2. pc # "restore_fds"
    BY <1>1 DEF Unsealed, Dup1, Dup2s, Dup3, Dup4, Dup5
  <2>3. \A n \in Names : own[n] # None => table[own[n]] # "closed"
    BY <1>2, <2>1, <2>2 DEF FileInv, Names
  <2> QED BY <2>3
<1>5. start[d] = "closed"
  BY <1>2, <1>4 DEF RestInv
<1>6. Typing' /\ StartInv'
  BY <1>2, <1>3 DEF Took, Typing, StartInv
<1>7. OwnInv'
  <2>1. \A n \in Names : own'[n] = IF n = name THEN d ELSE own[n]
    BY <1>2, <1>3 DEF Typing
  <2> QED BY <1>2, <1>4, <1>5, <2>1 DEF OwnInv
<1>8. RestInv'
  <2>1. \A n \in Names : own'[n] = IF n = name THEN d ELSE own[n]
    BY <1>2, <1>3 DEF Typing
  <2>2. \A e \in Fd : table'[e] = IF e = d THEN file ELSE table[e]
    BY <1>2, <1>3 DEF Typing
  <2>3. d # 0 /\ d # 1
    BY WireAssumption DEF Fd
  <2> QED BY <1>1, <1>2, <1>3, <1>4, <2>1, <2>2, <2>3 DEF RestInv
<1>9. RestoredAfterwards'
  BY <1>1, <1>3 DEF RestoredAfterwards
<1> QED BY <1>3, <1>4, <1>6, <1>7, <1>8, <1>9

\* _dup_above_std
LEMMA DupIInv ==
  ASSUME IInv, NEW at, NEW name, NEW fd, NEW next,
         <<at, name, fd, next>> \in Dups, DupAboveStd(at, name, fd, next)
  PROVE  IInv'
<1> USE StandardFds
<1>1. /\ pc = at /\ at \in Dup5 /\ name \in Names /\ name # "null" /\ fd \in {0, 1}
      /\ next \in Unsealed /\ next \in Calls
  BY DEF DupAboveStd, Dups, Names, Dup1, Dup2s, Dup3, Dup4, Dup5, Unsealed, Calls
<1>2. CASE GiveUp
  BY <1>1, <1>2, GiveUpIInv DEF DupAboveStd
<1>3. CASE /\ table[fd] # "closed" /\ Free(3) # {}
           /\ Took(name, Lowest(Free(3)), table[fd], next)
  <2> DEFINE d == Lowest(Free(3))
  <2>1. d \in Fd /\ d >= 3 /\ table[d] = "closed"
    BY <1>3, LowestFree
  <2>2. TakenInv /\ OwnInv /\ FileInv /\ RestInv /\ Typing /\ StartInv /\ pc # "gone"
    BY <1>1 DEF IInv, Dup1, Dup2s, Dup3, Dup4, Dup5
  <2>3. own[name] = None
    BY <1>1, <2>2 DEF Dups, TakenInv, Dup1, Dup2s, Dup3, Dup4, Dup5
  <2>4. table[fd] = start[fd] /\ start[fd] # "closed"
    BY <1>1, <1>3, <2>2 DEF RestInv, Unsealed
  <2>5. UNCHANGED start
    BY DEF DupAboveStd
  <2> HIDE DEF d
  <2>6. /\ Typing' /\ StartInv' /\ OwnInv' /\ RestInv' /\ RestoredAfterwards'
        /\ own' = [own EXCEPT ![name] = d] /\ table' = [table EXCEPT ![d] = table[fd]]
        /\ \A n \in Names : own[n] # None => own[n] # d
    BY <1>1, <1>3, <2>1, <2>2, <2>3, <2>4, <2>5, TookIInv DEF d, Typing
  <2>7. pc' = next
    BY <1>3 DEF Took
  <2>8. \A n \in Names : own'[n] = IF n = name THEN d ELSE own[n]
    BY <2>2, <2>6 DEF Typing
  <2>9. \A e \in Fd : table'[e] = IF e = d THEN table[fd] ELSE table[e]
    BY <2>2, <2>6 DEF Typing
  <2>10. d # None
    BY <2>1
  <2>11. TakenInv'
    BY <1>1, <2>2, <2>7, <2>8, <2>10
    DEF TakenInv, Dups, Names, Dup1, Dup2s, Dup3, Dup4, Dup5
  <2>12. FileInv'
    <3>1. pc # "restore_fds" /\ pc' # "restore_fds"
      BY <1>1, <2>7 DEF Unsealed, Dup1, Dup2s, Dup3, Dup4, Dup5
    <3>2. \A n \in Names : own[n] # None => table'[own[n]] = table[own[n]]
      BY <2>2, <2>6, <2>9 DEF Typing
    <3>3. \A n \in Names \ {name} :
            own'[n] = own[n] /\ (own[n] # None => table'[own'[n]] = table[own[n]])
      BY <2>8, <3>2
    <3>4. own'[name] = d /\ table'[own'[name]] = table[fd]
      BY <1>1, <2>1, <2>8, <2>9
    <3>5. start' = start /\ FileInv
      BY <2>2, <2>5
    <3>6. CASE name = "wire_out"
      <4>1. fd = 1 /\ table[fd] = start[1] /\ start[1] # "closed"
        BY <2>4, <3>6 DEF Dups
      <4>2. own'["wire_out"] = d /\ table'[own'["wire_out"]] = start[1]
        BY <3>4, <3>6, <4>1
      <4>3. \A n \in {"wire_in", "saved1", "saved0", "null"} :
              own'[n] = own[n] /\ (own[n] # None => table'[own'[n]] = table[own[n]])
        BY <3>3, <3>6 DEF Names
      <4> QED BY <3>1, <3>5, <4>1, <4>2, <4>3 DEF FileInv
    <3>7. CASE name = "wire_in"
      <4>1. fd = 0
        BY <3>7 DEF Dups
      <4>2. fd # 1
        BY <4>1
      <4>3. fd = 0 /\ table[fd] = start[0] /\ start[0] # "closed"
        BY <2>4, <4>1, <4>2, Zenon
      <4>4. own'["wire_in"] = d /\ table'[own'["wire_in"]] = start[0]
        BY <3>4, <3>7, <4>3
      <4>5. \A n \in {"wire_out", "saved1", "saved0", "null"} :
              own'[n] = own[n] /\ (own[n] # None => table'[own'[n]] = table[own[n]])
        BY <3>3, <3>7 DEF Names
      <4> QED BY <3>1, <3>5, <4>3, <4>4, <4>5 DEF FileInv
    <3>8. CASE name = "saved1"
      BY <2>4, <3>1, <3>3, <3>4, <3>5, <3>8, <1>1 DEF FileInv, Dups, Names
    <3>9. CASE name = "saved0"
      BY <2>4, <3>1, <3>3, <3>4, <3>5, <3>9, <1>1 DEF FileInv, Dups, Names
    <3> QED BY <1>1, <3>6, <3>7, <3>8, <3>9 DEF Names
  <2> QED BY <2>6, <2>11, <2>12 DEF IInv
<1> QED BY <1>2, <1>3 DEF DupAboveStd

\* os.open(os.devnull)
LEMMA OpenNullIInv ==
  ASSUME IInv, OpenNull
  PROVE  IInv'
<1> USE StandardFds
<1>1. pc = "open_null" /\ UNCHANGED start
  BY DEF OpenNull
<1>2. CASE GiveUp
  BY <1>1, <1>2, GiveUpIInv DEF Dup1, Dup2s, Dup3, Dup4, Dup5
<1>3. CASE Free(0) # {} /\ Took("null", Lowest(Free(0)), "null", "seal_out")
  <2> DEFINE d == Lowest(Free(0))
  <2>1. d \in Fd /\ table[d] = "closed"
    BY <1>3, LowestFree
  <2>2. TakenInv /\ OwnInv /\ FileInv /\ RestInv /\ Typing /\ StartInv
    BY <1>1 DEF IInv
  <2>3. own["null"] = None /\ own["wire_out"] # None /\ own["wire_in"] # None
    BY <1>1, <2>2 DEF TakenInv, Dup1, Dup2s, Dup3, Dup4, Dup5
  <2>4. table[0] # "closed" /\ table[1] # "closed"
    BY <1>1, <2>2, <2>3
    DEF RestInv, FileInv, Unsealed, Dup1, Dup2s, Dup3, Dup4, Dup5
  <2>5. d >= 2
    BY <2>1, <2>4, WireAssumption DEF Fd
  <2>6. "seal_out" \in Unsealed /\ "seal_out" \in Calls /\ pc \in Dup5 /\ pc # "gone"
    BY <1>1 DEF Unsealed, Calls, Dup1, Dup2s, Dup3, Dup4, Dup5
  <2> HIDE DEF d
  <2>7. /\ Typing' /\ StartInv' /\ OwnInv' /\ RestInv' /\ RestoredAfterwards'
        /\ own' = [own EXCEPT !["null"] = d] /\ table' = [table EXCEPT ![d] = "null"]
        /\ \A n \in Names : own[n] # None => own[n] # d
    BY <1>1, <1>3, <2>1, <2>3, <2>5, <2>6, TookIInv DEF d, Names, File
  <2>8. pc' = "seal_out"
    BY <1>3 DEF Took
  <2>9. \A n \in Names : own'[n] = IF n = "null" THEN d ELSE own[n]
    BY <2>2, <2>7 DEF Typing
  <2>10. \A e \in Fd : table'[e] = IF e = d THEN "null" ELSE table[e]
    BY <2>2, <2>7 DEF Typing
  <2>11. TakenInv'
    BY <1>1, <2>1, <2>2, <2>8, <2>9 DEF TakenInv, Names, Dup1, Dup2s, Dup3, Dup4, Dup5
  <2>12. FileInv'
    <3>1. \A n \in Names \ {"null"} :
            own'[n] = own[n] /\ (own[n] # None => table'[own'[n]] = table[own[n]])
      BY <2>2, <2>7, <2>9, <2>10 DEF Typing
    <3>2. own'["null"] = d /\ table'[own'["null"]] = "null"
      BY <2>1, <2>9, <2>10 DEF Names
    <3> QED BY <1>1, <2>2, <2>8, <3>1, <3>2 DEF FileInv, Names
  <2> QED BY <2>7, <2>11, <2>12 DEF IInv
<1> QED BY <1>2, <1>3 DEF OpenNull

\* Standard error is as it was, or the null device where it was closed.
LEMMA ErrIsKept ==
  ASSUME IInv, pc \in {"seal_out", "seal_in"}
  PROVE  table[2] \in {start[2], "null"}
<1> USE StandardFds
<1>1. OwnInv /\ FileInv /\ RestInv /\ Typing /\ StartInv
  BY DEF IInv
<1>2. CASE \E n \in Names : own[n] = 2
  <2>1. own["null"] = 2
    BY <1>1, <1>2 DEF OwnInv
  <2> QED BY <1>1, <2>1 DEF FileInv
<1>3. CASE \A n \in Names : own[n] # 2
  BY <1>1, <1>3 DEF RestInv
<1> QED BY <1>2, <1>3

\* A failure in the try leaves everything to its finally.
LEMMA FailsIInv ==
  ASSUME IInv, pc \in {"seal_out", "seal_in", "open_writer", "open_reader"}, Fails,
         UNCHANGED start
  PROVE  IInv'
<1>1. TakenInv /\ OwnInv /\ FileInv /\ RestInv /\ Typing /\ StartInv
  BY DEF IInv
<1>2. pc' = "restore" /\ own' = own /\ table' = table /\ handles' = handles /\ exit' = "oserror"
  BY DEF Fails
<1>3. Typing' /\ StartInv'
  BY <1>1, <1>2 DEF Typing, StartInv, Calls
<1>4. TakenInv' /\ OwnInv' /\ FileInv'
  BY <1>1, <1>2
  DEF TakenInv, OwnInv, FileInv, Dup1, Dup2s, Dup3, Dup4, Dup5
<1>5. RestInv'
  BY <1>1, <1>2 DEF RestInv, Unsealed, Claimed, Dup1, Dup2s, Dup3, Dup4, Dup5
<1>6. RestoredAfterwards'
  BY <1>2 DEF RestoredAfterwards
<1> QED BY <1>3, <1>4, <1>5, <1>6 DEF IInv

\* os.dup2(2, 1)
LEMMA SealOutIInv ==
  ASSUME IInv, Dup2("seal_out", 2, 1, "seal_in")
  PROVE  IInv'
<1> USE StandardFds
<1>1. pc = "seal_out" /\ UNCHANGED start
  BY DEF Dup2
<1>2. CASE Fails
  BY <1>1, <1>2, FailsIInv
<1>3. CASE ~Fails
  <2>1. TakenInv /\ OwnInv /\ FileInv /\ RestInv /\ Typing /\ StartInv
    BY <1>1 DEF IInv
  <2>2. /\ table[2] # "closed" /\ table' = [table EXCEPT ![1] = table[2]]
        /\ pc' = "seal_in" /\ UNCHANGED <<own, handles, exit>>
    BY <1>3 DEF Dup2
  <2>3. table[2] \in {start[2], "null"}
    BY <1>1, <2>2, ErrIsKept
  <2>4. \A e \in Fd : table'[e] = IF e = 1 THEN table[2] ELSE table[e]
    BY <2>1, <2>2 DEF Typing
  <2>5. \A n \in Names : own[n] # None => own[n] # 1 /\ table'[own[n]] = table[own[n]]
    BY <2>1, <2>4 DEF OwnInv, Typing
  <2>6. Typing' /\ StartInv'
    BY <1>1, <2>1, <2>2 DEF Typing, StartInv, Calls
  <2>7. TakenInv' /\ OwnInv'
    BY <1>1, <2>1, <2>2 DEF TakenInv, OwnInv, Dup1, Dup2s, Dup3, Dup4, Dup5
  <2>8. FileInv'
    BY <1>1, <2>1, <2>2, <2>5 DEF FileInv, Names
  <2>9. RestInv'
    BY <1>1, <2>1, <2>2, <2>3, <2>4
    DEF RestInv, Unsealed, Claimed, Dup1, Dup2s, Dup3, Dup4, Dup5
  <2>10. RestoredAfterwards'
    BY <2>2 DEF RestoredAfterwards
  <2> QED BY <2>6, <2>7, <2>8, <2>9, <2>10 DEF IInv
<1> QED BY <1>2, <1>3

\* os.dup2(null_fd, 0)
LEMMA SealInIInv ==
  ASSUME IInv, Dup2("seal_in", own["null"], 0, "open_writer")
  PROVE  IInv'
<1> USE StandardFds
<1>1. pc = "seal_in" /\ UNCHANGED start
  BY DEF Dup2
<1>2. CASE Fails
  BY <1>1, <1>2, FailsIInv
<1>3. CASE ~Fails
  <2>1. TakenInv /\ OwnInv /\ FileInv /\ RestInv /\ Typing /\ StartInv
    BY <1>1 DEF IInv
  <2>2. /\ table' = [table EXCEPT ![0] = table[own["null"]]]
        /\ pc' = "open_writer" /\ UNCHANGED <<own, handles, exit>>
    BY <1>3 DEF Dup2
  <2>3. table[own["null"]] = "null"
    BY <1>1, <2>1 DEF TakenInv, FileInv, Dup1, Dup2s, Dup3, Dup4, Dup5
  <2>4. \A e \in Fd : table'[e] = IF e = 0 THEN "null" ELSE table[e]
    BY <2>1, <2>2, <2>3 DEF Typing
  <2>5. \A n \in Names : own[n] # None => own[n] # 0 /\ table'[own[n]] = table[own[n]]
    BY <2>1, <2>4 DEF OwnInv, Typing
  <2>6. Typing' /\ StartInv'
    BY <1>1, <2>1, <2>2, <2>3 DEF Typing, StartInv, Calls, Claimed, File
  <2>7. TakenInv' /\ OwnInv'
    BY <1>1, <2>1, <2>2 DEF TakenInv, OwnInv, Dup1, Dup2s, Dup3, Dup4, Dup5
  <2>8. FileInv'
    BY <1>1, <2>1, <2>2, <2>5 DEF FileInv, Names
  <2>9. RestInv'
    BY <1>1, <2>1, <2>2, <2>4
    DEF RestInv, Unsealed, Claimed, Dup1, Dup2s, Dup3, Dup4, Dup5
  <2>10. RestoredAfterwards'
    BY <2>2 DEF RestoredAfterwards
  <2> QED BY <2>6, <2>7, <2>8, <2>9, <2>10 DEF IInv
<1> QED BY <1>2, <1>3

\* os.fdopen, and the server's run: the table does not change.
LEMMA TableKeptIInv ==
  ASSUME IInv, pc \in Claimed, pc' \in {"open_reader", "serving", "restore"},
         UNCHANGED <<table, start, own>>, handles \subseteq handles',
         handles' \subseteq {"wire_out", "wire_in"}, exit' \in {"none", "ok", "oserror", "raised"}
  PROVE  IInv'
<1>1. TakenInv /\ OwnInv /\ FileInv /\ RestInv /\ Typing /\ StartInv
  BY DEF IInv, Claimed
<1>2. Typing' /\ StartInv'
  BY <1>1 DEF Typing, StartInv, Calls, Claimed
<1>3. TakenInv' /\ OwnInv' /\ FileInv'
  BY <1>1 DEF TakenInv, OwnInv, FileInv, Claimed, Dup1, Dup2s, Dup3, Dup4, Dup5
<1>4. RestInv'
  BY <1>1 DEF RestInv, Unsealed, Claimed, Dup1, Dup2s, Dup3, Dup4, Dup5
<1>5. RestoredAfterwards'
  BY DEF RestoredAfterwards
<1> QED BY <1>2, <1>3, <1>4, <1>5 DEF IInv

\* flush() and close() of the wire.
LEMMA CloseWireIInv ==
  ASSUME IInv, CloseWire
  PROVE  IInv'
<1> USE StandardFds
<1>1. pc = "restore" /\ pc' = "restore_fds" /\ UNCHANGED <<start, own, handles, exit>>
  BY DEF CloseWire
<1>2. TakenInv /\ OwnInv /\ FileInv /\ RestInv /\ Typing /\ StartInv
  BY <1>1 DEF IInv
<1>3. PICK kept \in SUBSET (handles \cap {"wire_out"}) :
        table' = [d \in Fd |->
          IF \E n \in {"wire_out", "wire_in"} \ kept : own[n] = d THEN "closed" ELSE table[d]]
  BY DEF CloseWire
<1>4. Typing' /\ StartInv'
  BY <1>1, <1>2, <1>3 DEF Typing, StartInv, Calls, File
<1>5. TakenInv' /\ OwnInv'
  BY <1>1, <1>2 DEF TakenInv, OwnInv, Dup1, Dup2s, Dup3, Dup4, Dup5
<1>6. \A n \in Names : own[n] \in Fd
  BY <1>1, <1>2 DEF TakenInv, Typing, Names, Dup1, Dup2s, Dup3, Dup4, Dup5
<1>7. FileInv'
  <2>1. \A n \in {"saved1", "saved0", "null"} : table'[own[n]] = table[own[n]]
    BY <1>2, <1>3, <1>6 DEF OwnInv, Names
  <2>2. table'[own["wire_in"]] = "closed"
    BY <1>3, <1>6 DEF Names
  <2>3. "wire_out" \in handles \/ table'[own["wire_out"]] = "closed"
    BY <1>3, <1>6 DEF Names
  <2> QED BY <1>1, <1>2, <2>1, <2>2, <2>3 DEF FileInv
<1>8. RestInv'
  BY <1>1, <1>2, <1>3
  DEF RestInv, Names, Unsealed, Claimed, Dup1, Dup2s, Dup3, Dup4, Dup5
<1>9. RestoredAfterwards'
  BY <1>1 DEF RestoredAfterwards
<1> QED BY <1>4, <1>5, <1>7, <1>8, <1>9 DEF IInv

\* os.dup2(saved_fd1, 1), os.dup2(saved_fd0, 0), and the rest is closed.
LEMMA RestoreIInv ==
  ASSUME IInv, Restore
  PROVE  IInv'
<1> USE StandardFds
<1>1. pc = "restore_fds" /\ pc' = "gone" /\ UNCHANGED <<start, own, handles, exit>>
  BY DEF Restore
<1>2. TakenInv /\ OwnInv /\ FileInv /\ RestInv /\ Typing /\ StartInv
  BY <1>1 DEF IInv
<1>3. \A n \in Names : own[n] # None /\ own[n] \in Fd
  BY <1>1, <1>2 DEF TakenInv, Typing, Names, Dup1, Dup2s, Dup3, Dup4, Dup5
<1>4. table' = [d \in Fd |->
        IF \E n \in {"saved1", "saved0", "null"} : own[n] = d THEN "closed"
        ELSE IF d = 1 THEN start[1] ELSE IF d = 0 THEN start[0] ELSE table[d]]
  BY <1>2, <1>3 DEF Restore, FileInv, Names
<1>5. Typing' /\ StartInv'
  BY <1>1, <1>2, <1>4 DEF Typing, StartInv, Calls, File
<1>6. RestoredAfterwards'
  <2> SUFFICES ASSUME NEW d \in Fd
               PROVE  table'[d] = start[d] \/ (d = own["wire_out"] /\ "wire_out" \in handles)
    BY <1>1 DEF RestoredAfterwards
  <2>1. start[1] # "closed" /\ start[0] # "closed"
    BY <1>2, <1>3 DEF FileInv, Names
  <2>2. \A n \in Names : own[n] # 0 /\ own[n] # 1 /\ start[own[n]] = "closed"
    BY <1>2, <1>3 DEF OwnInv
  <2>3. CASE d \in {0, 1}
    BY <1>4, <2>1, <2>2, <2>3 DEF Names
  <2>4. CASE \E n \in {"saved1", "saved0", "null"} : own[n] = d
    BY <1>4, <2>2, <2>4 DEF Names
  <2>5. CASE d \notin {0, 1} /\ \A n \in {"saved1", "saved0", "null"} : own[n] # d
    <3>1. table'[d] = table[d]
      BY <1>4, <2>5
    <3>2. CASE d = own["wire_in"]
      BY <1>1, <1>2, <2>2, <3>1, <3>2 DEF FileInv, Names
    <3>3. CASE d = own["wire_out"]
      BY <1>1, <1>2, <2>2, <3>1, <3>3 DEF FileInv, Names
    <3>4. CASE d # own["wire_in"] /\ d # own["wire_out"]
      BY <1>2, <2>5, <3>1, <3>4 DEF RestInv, Names
    <3> QED BY <3>2, <3>3, <3>4
  <2> QED BY <2>3, <2>4, <2>5
<1> QED BY <1>1, <1>5, <1>6 DEF IInv

\* Every step preserves the invariant.
LEMMA NextIInv == IInv /\ [Next]_vars => IInv'
<1> SUFFICES ASSUME IInv, [Next]_vars PROVE IInv'
  OBVIOUS
<1>1. ASSUME DupAboveStd("dup_out", "wire_out", 1, "dup_in") PROVE IInv'
  BY <1>1, DupIInv DEF Dups
<1>2. ASSUME DupAboveStd("dup_in", "wire_in", 0, "save_out") PROVE IInv'
  BY <1>2, DupIInv DEF Dups
<1>3. ASSUME DupAboveStd("save_out", "saved1", 1, "save_in") PROVE IInv'
  BY <1>3, DupIInv DEF Dups
<1>4. ASSUME DupAboveStd("save_in", "saved0", 0, "open_null") PROVE IInv'
  BY <1>4, DupIInv DEF Dups
<1>5. ASSUME Fdopen("open_writer", "wire_out", "open_reader") PROVE IInv'
  <2>1. CASE Fails
    BY <1>5, <2>1, FailsIInv DEF Fdopen
  <2>2. CASE ~Fails
    BY <1>5, <2>2, TableKeptIInv DEF Fdopen, Claimed, IInv, Typing
  <2> QED BY <2>1, <2>2
<1>6. ASSUME Fdopen("open_reader", "wire_in", "serving") PROVE IInv'
  <2>1. CASE Fails
    BY <1>6, <2>1, FailsIInv DEF Fdopen
  <2>2. CASE ~Fails
    BY <1>6, <2>2, TableKeptIInv DEF Fdopen, Claimed, IInv, Typing
  <2> QED BY <2>1, <2>2
<1>7. ASSUME Served PROVE IInv'
  BY <1>7, TableKeptIInv DEF Served, Claimed, IInv, Typing
<1>8. ASSUME UNCHANGED vars PROVE IInv'
  BY <1>8 DEF vars, IInv, Typing, StartInv, TakenInv, OwnInv, FileInv, RestInv,
     RestoredAfterwards
<1> QED BY <1>1, <1>2, <1>3, <1>4, <1>5, <1>6, <1>7, <1>8, OpenNullIInv, SealOutIInv,
           SealInIInv, CloseWireIInv, RestoreIInv DEF Next

\* The invariant holds of every behaviour.
LEMMA Invariant == Spec => []IInv
  BY InitIInv, NextIInv, PTL DEF Spec

-----------------------------------------------------------------------------
(* The theorems.                                                           *)

\* The table, what the claim has taken, and the exit status keep their types.
THEOREM WireIsTyped == Spec => []TypeOK
<1>1. IInv => TypeOK
  BY DEF IInv, Typing, TypeOK
<1> QED BY <1>1, Invariant, PTL

\* While the server runs the client's files are reached through the claim's own
\* descriptors, and those that were on them before: fd 1 only if standard error was,
\* fd 0 never (wire.py, claim_stdio_wire).
THEOREM WireIsSealed == Spec => []Sealed
<1>1. IInv => Sealed
  <2> SUFFICES ASSUME IInv, pc = "serving" PROVE Sealed
    BY DEF Sealed
  <2> USE StandardFds
  <2>1. TakenInv /\ OwnInv /\ FileInv /\ RestInv /\ Typing /\ StartInv
    BY DEF IInv
  <2>2. \A n \in Names : own[n] # None /\ own[n] \in Fd
    BY <2>1 DEF TakenInv, Typing, Names, Dup1, Dup2s, Dup3, Dup4, Dup5
  <2>3. \A n \in Names \ {"null"} : own[n] \in 3..MaxFd
    BY <2>1, <2>2, WireAssumption DEF OwnInv, Fd
  <2>4. table[own["wire_out"]] = start[1] /\ table[own["wire_in"]] = start[0]
    BY <2>1, <2>2 DEF FileInv, Names
  <2>5. start[0] # "null" /\ start[1] # "null" /\ table[0] = "null"
        /\ table[1] \in {start[2], "null"}
    BY <2>1 DEF StartInv, Open, RestInv, Claimed
  <2>6. ASSUME NEW d \in Fd, table[d] \in {start[0], start[1]}, \A n \in Names : own[n] # d
        PROVE  (d >= 2 /\ table[d] = start[d]) \/ (d = 1 /\ table[d] = start[2])
    <3>1. CASE d \in {0, 1}
      BY <2>5, <2>6, <3>1
    <3>2. CASE d \notin {0, 1}
      BY <2>1, <2>6, <3>2, WireAssumption DEF RestInv, Fd
    <3> QED BY <3>1, <3>2
  <2> QED BY <2>3, <2>4, <2>6 DEF Sealed
<1> QED BY <1>1, Invariant, PTL

\* Once the claim has begun to redirect, its end puts every descriptor back, but
\* for a wire whose flush failed (the finally of claim_stdio_wire).
THEOREM WireIsRestored == Spec => []RestoredAfterwards
<1>1. IInv => RestoredAfterwards
  BY DEF IInv
<1> QED BY <1>1, Invariant, PTL
=============================================================================
