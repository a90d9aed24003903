---------------------------- MODULE MCRequestPool ---------------------------
(* An instance of RequestPool for TLC: as many requests as threads and     *)
(* connections together.                                                   *)
EXTENDS RequestPool

CONSTANTS c1, c2, p1, h1

CreateRequests == {c1, c2}
PollRequests   == {p1}
ProbeRequests  == {h1}
InlineRequests == {c2}
=============================================================================
