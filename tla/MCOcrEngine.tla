----------------------------- MODULE MCOcrEngine ----------------------------
(* Instances of OcrEngine for TLC.                                         *)
EXTENDS OcrEngineInv, TLC

CONSTANTS j1, j2, w1, w2, h1, h2

OneJob    == {j1}
TwoJobs   == {j1, j2}
OneOcr    == {w1}
TwoOcr    == {w1, w2}
OneHook   == {h1}
TwoHooks  == {h1, h2}

\* Jobs and workers are only compared, and no property of the safety runs
\* names one of them.
Symmetry == Permutations(TwoJobs) \cup Permutations(TwoOcr) \cup Permutations(TwoHooks)
=============================================================================
