----------------------------- MODULE MCWireClaim -----------------------------
(* Small instances of WireClaim for TLC. *)
EXTENDS WireClaim

\* Every sharing of the standard descriptors, and two higher ones open on any of
\* the same files or closed.
MCStarts ==
  {[d \in 0..9 |-> IF d \in DOMAIN t THEN t[d] ELSE "closed"] :
     t \in [{0, 1, 2, 3, 5} -> {"in", "out", "err", "closed"}]}
===========================================================================
