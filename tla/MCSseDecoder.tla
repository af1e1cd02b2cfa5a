----------------------------- MODULE MCSseDecoder -----------------------------
(* Small instances of SseDecoder for TLC. *)
EXTENDS SseDecoder
=============================================================================
