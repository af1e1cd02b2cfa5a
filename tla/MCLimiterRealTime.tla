--------------------------- MODULE MCLimiterRealTime ---------------------------
(* Small instances of LimiterRealTime for TLC. *)
EXTENDS LimiterRealTime, TLC

CONSTANTS r1, r2, r3, alice

ThreeRequests == {r1, r2, r3}
OneKey        == {alice}

\* A provider reporting more than was held; every request may also be charged
\* what it held, or nothing (a release).
OddReports    == {2}

\* Requests are interchangeable: no definition singles one out.
Interchangeable == Permutations(Req)
=============================================================================
