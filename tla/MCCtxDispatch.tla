--------------------------- MODULE MCCtxDispatch ----------------------------
(* CtxDispatch on one window with short transcripts, for TLC.               *)
EXTENDS CtxDispatch, TLC

CONSTANTS w1, j1, j2, j3

OneWindow == {w1}
TwoJobs == {j1, j2}
ThreeJobs == {j1, j2, j3}
SweepJob == {j1}
Both == {"both"}
AllHalves == {"both", "ctx", "updr"}

(* The slots outside the sweep are interchangeable.                         *)
Symmetry == Permutations(Jobs \ Sweeper)
=============================================================================
