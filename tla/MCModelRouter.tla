---------------------------- MODULE MCModelRouter ----------------------------
(* Small instances of ModelRouter for TLC. *)
EXTENDS ModelRouter

CONSTANTS r1, r2, alice

OneRequest  == {r1}
TwoRequests == {r1, r2}
OneKey      == {alice}
=============================================================================
