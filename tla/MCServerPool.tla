---------------------------- MODULE MCServerPool ----------------------------
(* ServerPool on small pools, for TLC.                                      *)
EXTENDS ServerPool, TLC

CONSTANTS d1, d2, s1, s2, s3, s4

OneDispatch == {d1}
TwoDispatches == {d1, d2}
NoReaders == {}
OneReader == {d2}
ThreePids == {s1, s2, s3}
FourPids == {s1, s2, s3, s4}

(* Server processes are interchangeable, and so are the dispatches of the   *)
(* same kind.                                                               *)
Symmetry == Permutations(Pids) \union Permutations(Dispatches \ Readers)
=============================================================================
