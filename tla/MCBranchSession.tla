-------------------------- MODULE MCBranchSession --------------------------
(* BranchSession on a session, a child of it and an id to mint, with two   *)
(* Claude windows and an OpenCode one.                                      *)
EXTENDS BranchSession, TLC

CONSTANTS root, c1, n1, w1, w2, w3, r1, r2, x1, e1, e2

MCSessions == {root, c1, n1}
MCWindows == {w1, w2, w3}
MCKindOf == w1 :> "claude" @@ w2 :> "claude" @@ w3 :> "opencode"
MCRepos == {r1, r2}
MCEntries == {e1}
MCTwoEntries == {e1, e2}
MCRoot == root
MCBegun == {c1}
MCNone == {}
MCWork == {x1}

Symmetry == Permutations({w1, w2}) \union Permutations(MCRepos)

(* A bound of the run: the OpenCode window only attaches.                   *)
OthersAttach ==
    \A a \in Windows : KindOf[a] # "claude" => cmd'[a].op \in {"none", "attach"}

=============================================================================
