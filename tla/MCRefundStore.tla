---------------------------- MODULE MCRefundStore ----------------------------
(* Small instances of RefundStore for TLC. *)
EXTENDS RefundStore

CONSTANTS c1, c2, c3, ada, eve

MCCalls     == {c1, c2, c3}
MCCustomers == {ada}
MCStrangers == {eve}
MCBalance   == [x \in MCCustomers |-> 3]
\* Halves of a cent and quarters: less than a cent, between two, and the balance.
MCAmounts   == {1, 2, 6, 7, 10, 12, 13}
=============================================================================
