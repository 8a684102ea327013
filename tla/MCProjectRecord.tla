-------------------------- MODULE MCProjectRecord --------------------------
(* ProjectRecord on two names, the second reserved, so that only a branch  *)
(* or a rename can use it, one goal, two repositories and one session, with *)
(* two commands at a time.                                                  *)
EXTENDS ProjectRecord, TLC

CONSTANTS n1, n2, g1, r1, r2, s1, p1, p2

MCNames == {n1, n2}
MCTaken == {n2}
MCGoals == {g1}
MCRepos == {r1, r2}
MCSessions == {s1}
MCProcs == {p1, p2}

Symmetry == Permutations(MCProcs)
=============================================================================
