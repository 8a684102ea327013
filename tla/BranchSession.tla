--------------------------- MODULE BranchSession ---------------------------
(* Child sessions: spawned, or with a Git branch and worktree per           *)
(* repository; merging a branch, collapsing a child's context into its      *)
(* parent's, and cleaning worktrees up, among all the other commands on     *)
(* sessions and what the user does in the checkouts:                        *)
(* src/owrap/session/workflow.py, kind/run/worktree.py, kind/run/session.py.*)
(* Each of these commands reads the session file once, and writes that copy *)
(* back when Git is done, whatever happened to the file meanwhile.          *)
EXTENDS SessionFiles

CONSTANTS Work     \* the pieces of work the user makes in worktrees

VARIABLES
    base,      \* the work each repository's base branch has
    other,     \* that of another branch its checkout can be on
    head,      \* which of the two it is on
    unclean,   \* repositories whose checkout has uncommitted changes
    tree,      \* each session's worktrees and branches
    mdlock,    \* the holder of each context.md.lock
    made,      \* history: the work ever made
    past       \* history: what happened to each child

gitVars == <<base, other, head, unclean, tree, made>>
branchVars == <<base, other, head, unclean, tree, mdlock, made, past>>
vars == <<sessionVars, branchVars>>

-----------------------------------------------------------------------------
Trees == [there : BOOLEAN, ref : BOOLEAN, loose : SUBSET Work, work : SUBSET Work]
NoTree == [there |-> FALSE, ref |-> FALSE, loose |-> {}, work |-> {}]
NewTree == [NoTree EXCEPT !.there = TRUE, !.ref = TRUE]

(* What happened to a child: the branches it had when its creation          *)
(* finished, those Git merged, whether its entries were written into its    *)
(* parent's context, and which.                                             *)
Pasts == [opened : SUBSET Repos, landed : SUBSET Repos, carried : BOOLEAN, entries : SUBSET Entries]

(* Git's own guards: a worktree is only removed when clean, and a branch    *)
(* only deleted when no worktree is on it and HEAD has its work.            *)
HeadHas(r) == IF head[r] = "base" THEN base[r] ELSE other[r]
ForceDeletable(s, r) == tree[s][r].ref /\ ~tree[s][r].there
Removable(s, r) == tree[s][r].there /\ tree[s][r].loose = {}
Deletable(s, r) == tree[s][r].ref /\ ~tree[s][r].there /\ tree[s][r].work \subseteq HeadHas(r)

IsMerged(f) == f.merged = Repos
AlwaysCollapsed(f) == TRUE
IsCollapsed(f) == f.into # Nobody
SessionFor(a, env, s) == s # Nobody /\ (s = Resolved(a, env) \/ Exists(s))

-----------------------------------------------------------------------------
(* create.  A branch session's checkouts must be clean.                     *)
Create(a, env, n, mode) ==
    LET p == Resolved(a, env)
        f == [Missing EXCEPT !.there = TRUE]
        child == IF mode = "temp" THEN f
                 ELSE [f EXCEPT !.parent = p, !.target = HasTarget(p),
                                !.branch = mode = "branch"]
    IN  /\ n \notin known
        /\ mode # "temp" => p # Nobody /\ live[p].file.into = Nobody
        /\ mode = "branch" => HasTarget(p) /\ unclean = {}
        /\ cmd[a].at = "idle"
        /\ Spend
        /\ known' = known \union {n}
        /\ ptr' = IF mode = "temp" THEN ptr ELSE Rebound(a, env)
        /\ cmd' = [cmd EXCEPT ![a] =
                     [Idle EXCEPT !.op = "create", !.sid = n, !.copy = child,
                                  !.repos = IF mode = "branch" THEN Repos ELSE {},
                                  !.at = IF mode = "branch" THEN "grow" ELSE "found"]]
        /\ UNCHANGED <<folders, ctxlock, branchVars>>

AddTree(a, r) ==
    LET s == cmd[a].sid
    IN  /\ cmd[a].at = "grow"
        /\ r \in cmd[a].repos
        /\ tree' = [tree EXCEPT ![s][r] = NewTree]
        /\ cmd' = [cmd EXCEPT ![a].repos = @ \ {r},
                              ![a].at = IF cmd[a].repos = {r} THEN "found" ELSE "grow"]
        /\ UNCHANGED <<folders, ptr, known, ctxlock, left, base, other, head, unclean,
                       mdlock, made, past>>

(* A failure before the files are written, or while they are: the files     *)
(* are unlinked, and the worktrees and branches made so far removed.        *)
Built(s) == {r \in Repos : tree[s][r].ref}
CreateFails(a) ==
    LET s == cmd[a].sid
    IN  /\ cmd[a].op = "create"
        /\ \/ cmd[a].at \in {"grow", "found", "skeleton"}
           \/ cmd[a].at = "anchor" /\ ~Exists(s)
        /\ live' = IF cmd[a].at = "grow" THEN live
                   ELSE [live EXCEPT ![s].file = Missing, ![s].ctx = NoContext]
        /\ IF Built(s) = {} THEN Leave(a)
           ELSE cmd' = [cmd EXCEPT ![a].repos = Built(s), ![a].at = "tree"]
        /\ UNCHANGED <<trash, ptr, known, ctxlock, left, branchVars>>

Found(a) ==
    /\ cmd[a].at = "found"
    /\ ~Exists(cmd[a].sid)
    /\ live' = [live EXCEPT ![cmd[a].sid].file = cmd[a].copy]
    /\ Goto(a, "skeleton")
    /\ UNCHANGED <<trash, ptr, known, ctxlock, left, branchVars>>

Skeleton(a) ==
    /\ cmd[a].at = "skeleton"
    /\ live' = [live EXCEPT ![cmd[a].sid].ctx = IF @ = NoContext THEN {} ELSE @]
    /\ Goto(a, "anchor")
    /\ UNCHANGED <<trash, ptr, known, ctxlock, left, branchVars>>

Anchor(a) ==
    LET s == cmd[a].sid
    IN  /\ cmd[a].at = "anchor"
        /\ Exists(s)
        /\ ptr' = AttachedPtr(a, s)
        /\ live' = Released(a, s)
        /\ WriteBack(a, AttachedFile(a, s), "idle")
        /\ past' = [past EXCEPT ![s].opened = Built(s)]
        /\ UNCHANGED <<trash, known, ctxlock, left, base, other, head, unclean, tree,
                       mdlock, made>>

-----------------------------------------------------------------------------
(* merge_branch ... apply, of one repository.                               *)
Merge(a, env, s, r) ==
    LET f == live[s].file
    IN  /\ SessionFor(a, env, s)
        /\ Exists(s) /\ f.branch
        /\ r \notin f.merged
        /\ head[r] = "base" /\ r \notin unclean
        /\ Removable(s, r) /\ tree[s][r].ref
        /\ cmd[a].at = "idle"
        /\ Spend
        /\ cmd' = [cmd EXCEPT ![a] = [Idle EXCEPT !.at = "merge", !.op = "merge", !.sid = s,
                                                  !.repos = {r}, !.copy = f]]
        /\ ptr' = IF s = Resolved(a, env) THEN Rebound(a, env) ELSE ptr
        /\ UNCHANGED <<folders, known, ctxlock, branchVars>>

(* git merge: into the branch the checkout is on by now.                    *)
GitMerge(a, r) ==
    LET s == cmd[a].sid
    IN  /\ cmd[a].at = "merge"
        /\ r \in cmd[a].repos
        /\ tree[s][r].ref
        /\ base' = IF head[r] = "base" THEN [base EXCEPT ![r] = @ \union tree[s][r].work] ELSE base
        /\ other' = IF head[r] = "base" THEN other ELSE [other EXCEPT ![r] = @ \union tree[s][r].work]
        /\ past' = [past EXCEPT ![s].landed = @ \union {r}]
        /\ WriteBack(a, [cmd[a].copy EXCEPT !.merged = @ \union {r}], "idle")
        /\ UNCHANGED <<folders, ptr, known, ctxlock, left, head, unclean, tree, mdlock, made>>

GitMergeFailsNoted(a, r) ==
    /\ cmd[a].at = "merge"
    /\ r \in cmd[a].repos
    /\ WriteBack(a, [cmd[a].copy EXCEPT !.merged = @ \union {r}], "idle")
    /\ UNCHANGED <<folders, ptr, known, ctxlock, left, base, other, head, unclean, tree, mdlock,
                   made, past>>

(* It fails, on a conflict, which stays in the checkout, or otherwise.      *)
GitMergeFails(a, r) ==
    /\ cmd[a].at = "merge"
    /\ r \in cmd[a].repos
    /\ unclean' \in {unclean, unclean \union {r}}
    /\ Leave(a)
    /\ UNCHANGED <<folders, ptr, known, ctxlock, left, base, other, head, tree, mdlock, made, past>>

-----------------------------------------------------------------------------
(* collapse ... apply: the child's file and context are read first, then    *)
(* context.md.lock is taken and the parent's context read; it is written,   *)
(* then the child's file.                                                   *)
Collapse(a, env, s) ==
    LET f == live[s].file
    IN  /\ SessionFor(a, env, s)
        /\ Exists(s) /\ Exists(f.parent)
        /\ ~IsCollapsed(f)
        /\ f.branch => IsMerged(f)
        /\ cmd[a].at = "idle"
        /\ Spend
        /\ cmd' = [cmd EXCEPT ![a] = [Idle EXCEPT !.at = "lock", !.op = "collapse", !.sid = s,
                                                  !.copy = f, !.new = Text(live[s].ctx)]]
        /\ ptr' = IF s = Resolved(a, env) THEN Rebound(a, env) ELSE ptr
        /\ UNCHANGED <<folders, known, ctxlock, branchVars>>

CollapseLock(a) ==
    LET p == cmd[a].copy.parent
    IN  /\ cmd[a].at = "lock"
        /\ mdlock[p] = Nobody
        /\ mdlock' = [mdlock EXCEPT ![p] = a]
        /\ cmd' = [cmd EXCEPT ![a].text = Text(live[p].ctx), ![a].at = "parent"]
        /\ UNCHANGED <<folders, ptr, known, ctxlock, left, gitVars, past>>

CollapseParent(a) ==
    LET p == cmd[a].copy.parent
    IN  /\ cmd[a].at = "parent"
        /\ live' = [live EXCEPT ![p].ctx = cmd[a].text \union cmd[a].new]
        /\ past' = [past EXCEPT ![cmd[a].sid].carried = TRUE, ![cmd[a].sid].entries = cmd[a].new]
        /\ Goto(a, "child")
        /\ UNCHANGED <<trash, ptr, known, ctxlock, left, gitVars, mdlock>>

CollapseChild(a) ==
    LET p == cmd[a].copy.parent
    IN  /\ cmd[a].at = "child"
        /\ live' = [live EXCEPT ![cmd[a].sid].file = [cmd[a].copy EXCEPT !.into = p]]
        /\ mdlock' = [mdlock EXCEPT ![p] = Nobody]
        /\ Leave(a)
        /\ UNCHANGED <<trash, ptr, known, ctxlock, left, gitVars, past>>

-----------------------------------------------------------------------------
(* cleanup_branch ... apply: of a session that is merged and collapsed, the *)
(* worktrees, all clean and their branches in the base; for each, remove,   *)
(* branch -d, and the session file written.                                 *)
Cleanup(a, env, s) ==
    LET f == live[s].file
        pending == Repos \ f.cleaned
    IN  /\ SessionFor(a, env, s)
        /\ Exists(s) /\ f.branch
        /\ IsMerged(f) /\ IsCollapsed(f)
        /\ pending # {}
        /\ \A r \in pending : /\ Removable(s, r) /\ tree[s][r].ref
                              /\ tree[s][r].work \subseteq base[r]
        /\ cmd[a].at = "idle"
        /\ Spend
        /\ cmd' = [cmd EXCEPT ![a] = [Idle EXCEPT !.at = "tree", !.op = "cleanup", !.sid = s,
                                                  !.copy = f, !.repos = pending]]
        /\ ptr' = IF s = Resolved(a, env) THEN Rebound(a, env) ELSE ptr
        /\ UNCHANGED <<folders, known, ctxlock, branchVars>>

(* The two removals, of a cleanup or of a creation undone.                  *)
DropTree(a, r) ==
    LET s == cmd[a].sid
    IN  /\ cmd[a].at = "tree"
        /\ r \in cmd[a].repos
        /\ Removable(s, r)
        /\ tree' = [tree EXCEPT ![s][r].there = FALSE, ![s][r].loose = {}]
        /\ cmd' = [cmd EXCEPT ![a].at = "ref", ![a].now = {r}]
        /\ UNCHANGED <<folders, ptr, known, ctxlock, left, base, other, head, unclean,
                       mdlock, made, past>>

DropRef(a, r) ==
    LET s == cmd[a].sid
        rest == cmd[a].repos \ {r}
        after == IF rest = {} THEN "idle" ELSE "tree"
        next == [cmd[a] EXCEPT !.repos = rest, !.now = {}]
    IN  /\ cmd[a].at = "ref"
        /\ r \in cmd[a].now
        /\ Deletable(s, r)
        /\ tree' = [tree EXCEPT ![s][r] = NoTree]
        /\ cmd' = [cmd EXCEPT ![a] =
                     IF cmd[a].op = "cleanup"
                     THEN [next EXCEPT !.copy.cleaned = @ \union {r}, !.at = "write", !.then = after]
                     ELSE IF rest = {} THEN Idle ELSE [next EXCEPT !.at = "tree"]]
        /\ UNCHANGED <<folders, ptr, known, ctxlock, left, base, other, head, unclean,
                       mdlock, made, past>>

(* Git refuses, or fails for a reason of its own: the command ends there.   *)
DropFails(a) ==
    /\ cmd[a].at \in {"tree", "ref"}
    /\ Leave(a)
    /\ UNCHANGED <<folders, ptr, known, ctxlock, left, branchVars>>

-----------------------------------------------------------------------------
Act == left.acts > 0 /\ left' = [left EXCEPT !.acts = @ - 1]

(* The user: edits worktrees, and commits at once or later; and, in a       *)
(* checkout, leaves changes or clears them, and moves to another branch and *)
(* back.                                                                    *)
Committed(t) == [t EXCEPT !.work = @ \union t.loose, !.loose = {}]
Edit(s, r, x, commits) ==
    LET edited == [tree[s][r] EXCEPT !.loose = @ \union {x}]
    IN  /\ Act
        /\ tree[s][r].there
        /\ commits => tree[s][r].ref
        /\ x \notin made
        /\ made' = made \union {x}
        /\ tree' = [tree EXCEPT ![s][r] = IF commits THEN Committed(edited) ELSE edited]
        /\ UNCHANGED <<folders, ptr, known, ctxlock, cmd, base, other, head, unclean, mdlock, past>>

Commit(s, r) ==
    /\ Act
    /\ tree[s][r].there /\ tree[s][r].ref
    /\ tree[s][r].loose # {}
    /\ tree' = [tree EXCEPT ![s][r] = Committed(@)]
    /\ UNCHANGED <<folders, ptr, known, ctxlock, cmd, base, other, head, unclean, mdlock, made, past>>

UserChanges(r) ==
    /\ Act
    /\ unclean' = IF r \in unclean THEN unclean \ {r} ELSE unclean \union {r}
    /\ UNCHANGED <<folders, ptr, known, ctxlock, cmd, base, other, head, tree, mdlock, made, past>>

UserSwitches(r) ==
    /\ Act
    /\ head' = [head EXCEPT ![r] = IF @ = "base" THEN "other" ELSE "base"]
    /\ UNCHANGED <<folders, ptr, known, ctxlock, cmd, base, other, unclean, tree, mdlock, made, past>>

(* A command killed on the way; its locks end with it.                      *)
Kill(a) ==
    /\ cmd[a].at # "idle"
    /\ Act
    /\ Leave(a)
    /\ ctxlock' = [s \in Sessions |-> IF ctxlock[s] = a THEN Nobody ELSE ctxlock[s]]
    /\ mdlock' = [s \in Sessions |-> IF mdlock[s] = a THEN Nobody ELSE mdlock[s]]
    /\ UNCHANGED <<folders, ptr, known, gitVars, past>>

-----------------------------------------------------------------------------
(* Some of the branch sessions have had nothing to merge, and were merged;  *)
(* the worktrees of others have edits.                                      *)
Loose == {f \in [Branches \X Repos -> SUBSET Work] :
            \A i, j \in Branches \X Repos : i # j => f[i] \intersect f[j] = {}}
Init ==
  \E done \in SUBSET Branches, loose \in Loose :
    /\ \A s \in done, r \in Repos : loose[<<s, r>>] = {}
    /\ SessionInit(done)
    /\ base = [r \in Repos |-> {}]
    /\ other = [r \in Repos |-> {}]
    /\ head = [r \in Repos |-> "base"]
    /\ unclean = {}
    /\ tree = [s \in Sessions |-> [r \in Repos |->
                 IF s \in Branches THEN [NewTree EXCEPT !.loose = loose[<<s, r>>]] ELSE NoTree]]
    /\ mdlock = [s \in Sessions |-> Nobody]
    /\ made = UNION {loose[i] : i \in Branches \X Repos}
    /\ past = [s \in Sessions |->
                 [opened |-> IF s \in Branches THEN Repos ELSE {},
                  landed |-> IF s \in done THEN Repos ELSE {},
                  carried |-> FALSE, entries |-> {}]]

WorkflowStep(a) ==
    \/ /\ CanCall(a)
       /\ \E env \in Sessions \union {Nobody}, s \in Sessions :
             \/ \E mode \in {"spawn", "branch", "temp"} : Create(a, env, s, mode)
             \/ \E r \in Repos : Merge(a, env, s, r)
             \/ Collapse(a, env, s) \/ Cleanup(a, env, s)
    \/ \E r \in Repos : \/ AddTree(a, r) \/ GitMerge(a, r) \/ GitMergeFails(a, r)
                        \/ DropTree(a, r) \/ DropRef(a, r)
    \/ DropFails(a) \/ CreateFails(a) \/ Found(a) \/ Skeleton(a) \/ Anchor(a)
    \/ CollapseLock(a) \/ CollapseParent(a) \/ CollapseChild(a)
    \/ Kill(a)

UserStep ==
    \/ \E s \in Sessions, r \in Repos : Commit(s, r) \/ (\E x \in Work, commits \in BOOLEAN : Edit(s, r, x, commits))
    \/ \E r \in Repos : UserChanges(r) \/ UserSwitches(r)

Next ==
    \/ \E a \in Windows : WorkflowStep(a) \/ (SessionStep(a) /\ UNCHANGED branchVars)
    \/ UserStep

Spec == Init /\ [][Next]_vars

-----------------------------------------------------------------------------
TypeOK ==
    /\ live \in [Sessions -> Folders]
    /\ trash \in [Sessions -> Folders]
    /\ ptr \in [Windows -> Sessions \union {Nobody}]
    /\ known \subseteq Sessions
    /\ ctxlock \in [Sessions -> Windows \union {Nobody}]
    /\ cmd \in [Windows -> Commands]
    /\ left \in [commands : Nat, acts : Nat]
    /\ base \in [Repos -> SUBSET Work]
    /\ other \in [Repos -> SUBSET Work]
    /\ head \in [Repos -> {"base", "other"}]
    /\ unclean \subseteq Repos
    /\ tree \in [Sessions -> [Repos -> Trees]]
    /\ mdlock \in [Sessions -> Windows \union {Nobody}]
    /\ made \subseteq Work
    /\ past \in [Sessions -> Pasts]

(* No work is ever lost: what the user made in a worktree is in it, on its  *)
(* branch, or on a branch it was merged into, whatever commands interleave, *)
(* fail or are killed between checking the worktree and removing it         *)
(* (workflow.py:318-338, 150-156).                                          *)
WorkIsKept ==
    \A x \in made : \E r \in Repos :
        \/ x \in base[r] \union other[r]
        \/ \E s \in Sessions : x \in tree[s][r].loose \union tree[s][r].work

(* A session file never claims what has not happened, though commands write *)
(* old copies of it back over each other (workflow.py:283-291, 333-337):    *)
(* not the live one, nor one in the trash or in the hands of a command.     *)
Honest(s, f) ==
    /\ f.merged \subseteq past[s].landed
    /\ f.into # Nobody => past[s].carried
    /\ \A r \in f.cleaned : ~tree[s][r].there /\ ~tree[s][r].ref
ClaimsHold ==
    \A s \in Sessions :
        /\ Honest(s, live[s].file) /\ Honest(s, trash[s].file)
        /\ \A a \in Windows : cmd[a].sid = s => Honest(s, cmd[a].copy)

(* A branch of a session that was created whole goes only after the code of *)
(* all its repositories was merged and its context carried over             *)
(* (workflow.py:304-305), though the checks read a file others rewrite.     *)
GoneOnlyAfter ==
    \A s \in Sessions : \A r \in past[s].opened :
        tree[s][r].ref \/ (past[s].landed = Repos /\ past[s].carried)

(* Moving a directory to the trash or back loses none of its entries, even  *)
(* when an earlier one of the session is there already (trash.py:13-38);    *)
(* but a context.md that is in the way of restore is overwritten.           *)
Held(s) == Inside(live[s]) \union Inside(trash[s])
MovesKeep ==
    [][\A s \in Sessions :
         trash'[s] # trash[s] /\ live'[s] # live[s] /\ (live[s].ctx = NoContext \/ trash'[s] # NoFolder)
           => Held(s) \subseteq Held(s)']_vars

(* A window that runs no command of its own at a step is taken from its     *)
(* session, never moved to another one, and only by: the attach of a window *)
(* of another harness to that session, as windows of one harness share it   *)
(* (resolver.py:218-220, 448-503); the daemon that finds the window stale;  *)
(* the stop or restart of that session, or a forced stop of all; the        *)
(* housekeeping of a session without a target; or the start of another      *)
(* project's session from it, which takes the windows of no other one.      *)
TakenBy(a, v) ==
    \/ cmd'[a].op \in {"attach", "create"} /\ cmd'[a].sid = ptr[v] /\ KindOf[a] # KindOf[v]
    \/ cmd'[a].op = "detach" /\ cmd'[a].sid = ptr[v] /\ KindOf[v] \in {"claude", "codex"}
    \/ cmd[a].at = "remove" /\ cmd[a].sid = ptr[v]
    \/ cmd[a].at = "force" /\ (ptr[v] \in cmd[a].ids \/ KindOf[v] = "claude")
    \/ cmd[a].at = "bare" /\ ~HasTarget(ptr[v]) /\ KindOf[v] # "codex"
    \/ /\ cmd'[a].op = "start" /\ cmd'[a].sid \in known' \ known /\ HasTarget(ptr[v])
       /\ \A w \in Windows \ {a} : ptr'[w] # ptr[w] => ptr[w] = ptr[v]
WindowsKeepTheirSession ==
    [][\A v \in Windows :
         ptr'[v] # ptr[v] /\ cmd'[v] = cmd[v] /\ Exists(ptr[v]) =>
           ptr'[v] = Nobody /\ \E a \in Windows \ {v} : TakenBy(a, v)]_vars

(* The entries a collapse carried over stay in the parent's context.md      *)
(* while that is neither moved nor removed: whoever rewrites it keeps them  *)
(* (templates/self/sessions.md:66-67).                                      *)
CollapsedIsKept ==
    [][\A s \in Sessions :
         LET p == live[s].file.parent
         IN  /\ past[s].carried /\ p # Nobody
             /\ past[s].entries \subseteq live[p].ctx
             /\ trash' = trash /\ live'[p].ctx # NoContext
             => past[s].entries \subseteq live'[p].ctx]_vars
=============================================================================
