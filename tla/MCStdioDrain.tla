----------------------------- MODULE MCStdioDrain -----------------------------
(* Small instances of StdioDrain for TLC. *)
EXTENDS StdioDrain

CONSTANTS i1, i2

TwoIds == {i1, i2}
=============================================================================
