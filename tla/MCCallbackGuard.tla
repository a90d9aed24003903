--------------------------- MODULE MCCallbackGuard ---------------------------
(* An instance of CallbackGuard for TLC.                                      *)
EXTENDS CallbackGuard, TLC

CONSTANTS j1, p1, p2, b1

MCJobs    == {j1}
MCPublic  == {p1, p2}
MCBlocked == {b1}

Symmetry == Permutations(MCPublic)
=============================================================================
