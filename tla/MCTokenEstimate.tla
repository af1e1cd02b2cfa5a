---------------------------- MODULE MCTokenEstimate ----------------------------
(* Caps on both sides of zero and of the default, and counts on both sides of
   one; the provider's own default is above the ceiling,
   and what it may bill and report is beyond both bounds on a charge. *)
EXTENDS TokenEstimate

MCCaps == {-1, 0, 1, 4}
MCCounts == {0, 2, 3}
=============================================================================
