----------------------- MODULE BranchSession_proofs -----------------------
(* Sessions and their branches, for any number of sessions, windows,        *)
(* repositories, commands and interleavings: no copy of a session file      *)
(* claims what did not happen, no work is lost, and a branch goes only when *)
(* it was merged and its context carried over.                              *)
EXTENDS BranchSession, TLAPS

(* What a command is about, by where it is.                                 *)
Creating == {"grow", "found", "skeleton", "anchor"}
Refreshing == {"identify", "context", "resync", "scan", "sweep", "bare", "stamp"}
Collapsing == {"lock", "parent", "child"}
Dropping(c) == c.at \in {"tree", "ref"} \/ (c.at = "write" /\ c.then = "tree")
Shape(c) ==
    /\ c.at \notin {"idle", "force"} => c.sid \in Sessions
    /\ c.at = "force" => c.op = "force"
    /\ c.at = "remove" => c.op \in {"stop", "restart"}
    /\ c.at = "write" => c.then \in {"idle", "context", "tree"}
    /\ c.at = "write" /\ c.then = "context" => c.op \in {"start", "refresh"}
    /\ c.at = "write" /\ c.then = "tree" => c.op = "cleanup"
    /\ c.at \in Creating => c.op = "create"
    /\ c.at \in Refreshing => c.op \in {"start", "refresh"}
    /\ c.at \in Collapsing => c.op = "collapse" /\ c.copy.parent \in Sessions
    /\ Dropping(c) => c.op \in {"create", "cleanup"}
    /\ Dropping(c) /\ c.op = "cleanup" => IsMerged(c.copy) /\ IsCollapsed(c.copy)
Shapes == \A a \in Windows : Shape(cmd[a])

TypeInv == TypeOK /\ Shapes

-----------------------------------------------------------------------------
(* The values commands are made of.                                         *)
LEMMA Values ==
    /\ Missing \in Files /\ NoFolder \in Folders /\ Idle \in Commands /\ Shape(Idle)
    /\ NoTree \in Trees /\ NewTree \in Trees
    /\ NoContext \in Texts /\ {} \in Texts
    /\ \A t \in Texts : Text(t) \in SUBSET Entries
    /\ \A t \in SUBSET Entries : t \in Texts
    /\ Nobody \notin Sessions /\ Nobody \notin Windows /\ Nobody \notin Entries
<1>1. Missing \in Files
  BY DEF Missing, Files
<1>2. NoFolder \in Folders
  BY <1>1 DEF NoFolder, Folders, Texts
<1>3. Idle \in Commands
  BY <1>1 DEF Idle, Commands, Places, Operations
<1>4. Shape(Idle)
  BY DEF Idle, Shape, Creating, Refreshing, Collapsing, Dropping
<1>5. NoTree \in Trees /\ NewTree \in Trees
  BY DEF NoTree, NewTree, Trees
<1>. QED
  BY <1>1, <1>2, <1>3, <1>4, <1>5, WindowsAssumption DEF Texts, Text

(* A command that starts or moves on.                                       *)
LEMMA CommandMoves ==
    ASSUME TypeInv, NEW a \in Windows, NEW c \in Commands, Shape(c),
           cmd' = [cmd EXCEPT ![a] = c]
    PROVE  cmd' \in [Windows -> Commands] /\ Shapes'
<1>1. cmd \in [Windows -> Commands] /\ \A v \in Windows : Shape(cmd[v])
  BY DEF TypeInv, TypeOK, Shapes
<1>2. cmd' \in [Windows -> Commands]
  BY <1>1
<1>3. ASSUME NEW v \in Windows PROVE Shape(cmd'[v])
  <2>1. cmd'[v] = IF v = a THEN c ELSE cmd[v]
    BY <1>1
  <2>. QED  BY <1>1, <2>1
<1>. QED  BY <1>2, <1>3 DEF Shapes

LEMMA FileWritten ==
    ASSUME live \in [Sessions -> Folders], NEW s \in Sessions, NEW f \in Files
    PROVE  [live EXCEPT ![s].file = f] \in [Sessions -> Folders]
BY DEF Folders

LEMMA ContextWritten ==
    ASSUME live \in [Sessions -> Folders], NEW s \in Sessions, NEW t \in Texts
    PROVE  [live EXCEPT ![s].ctx = t] \in [Sessions -> Folders]
BY DEF Folders

LEMMA Swept ==
    ASSUME NEW f \in [Sessions -> Folders], NEW ids, NoFolder \in Folders
    PROVE  [s \in Sessions |-> IF ids = {} \/ s \in ids THEN f[s] ELSE NoFolder]
              \in [Sessions -> Folders]
OBVIOUS

LEMMA FilesOf ==
    ASSUME TypeOK, NEW s \in Sessions
    PROVE  /\ live[s] \in Folders /\ trash[s] \in Folders
           /\ live[s].file \in Files /\ trash[s].file \in Files
           /\ live[s].ctx \in Texts /\ trash[s].ctx \in Texts
           /\ live[s].deep \in Texts /\ trash[s].deep \in Texts
           /\ Text(live[s].ctx) \in SUBSET Entries
           /\ Inside(live[s]) \in SUBSET Entries /\ Inside(trash[s]) \in SUBSET Entries
<1>1. live[s] \in Folders /\ trash[s] \in Folders
  BY DEF TypeOK
<1>2. /\ live[s].file \in Files /\ trash[s].file \in Files
      /\ live[s].ctx \in Texts /\ trash[s].ctx \in Texts
      /\ live[s].deep \in Texts /\ trash[s].deep \in Texts
  BY <1>1 DEF Folders
<1>. QED  BY <1>1, <1>2, Values DEF Inside

(* The form most calls and steps have.                                      *)
LEMMA Moved ==
    ASSUME TypeInv, NEW a \in Windows, NEW p \in Places,
           Shape([cmd[a] EXCEPT !.at = p]), Goto(a, p)
    PROVE  cmd' \in [Windows -> Commands] /\ Shapes'
<1>1. cmd[a] \in Commands
  BY DEF TypeInv, TypeOK
<1>2. [cmd[a] EXCEPT !.at = p] \in Commands
  BY <1>1 DEF Commands
<1>3. cmd' = [cmd EXCEPT ![a] = [cmd[a] EXCEPT !.at = p]]
  BY DEF Goto
<1>. QED  BY <1>2, <1>3, CommandMoves

LEMMA Left ==
    ASSUME TypeInv, NEW a \in Windows, Leave(a)
    PROVE  cmd' \in [Windows -> Commands] /\ Shapes'
BY Values, CommandMoves DEF Leave

LEMMA Called ==
    ASSUME TypeInv, NEW a \in Windows, NEW op \in Operations, NEW p \in Places,
           NEW s \in Sessions, Call(a, op, p, s),
           Shape([Idle EXCEPT !.at = p, !.op = op, !.sid = s])
    PROVE  cmd' \in [Windows -> Commands] /\ Shapes' /\ left' \in [commands : Nat, acts : Nat]
<1>1. [Idle EXCEPT !.at = p, !.op = op, !.sid = s] \in Commands
  BY Values DEF Commands
<1>2. left' \in [commands : Nat, acts : Nat]
  BY DEF TypeInv, TypeOK, Call, Spend
<1>. QED  BY <1>1, <1>2, CommandMoves DEF Call

LEMMA CalledWriting ==
    ASSUME TypeInv, NEW a \in Windows, NEW op \in Operations, op # "collapse",
           NEW s \in Sessions, NEW f \in Files, CallWriting(a, op, s, f)
    PROVE  cmd' \in [Windows -> Commands] /\ Shapes' /\ left' \in [commands : Nat, acts : Nat]
<1>. DEFINE c == [Idle EXCEPT !.at = "write", !.op = op, !.sid = s, !.copy = f]
<1>1. c \in Commands
  BY Values DEF Commands, Places
<1>2. Shape(c)
  BY Values DEF Shape, Creating, Refreshing, Collapsing, Dropping, Idle
<1>3. left' \in [commands : Nat, acts : Nat]
  BY DEF TypeInv, TypeOK, CallWriting, Spend
<1>4. cmd' = [cmd EXCEPT ![a] = c]
  BY DEF CallWriting
<1>. QED  BY <1>1, <1>2, <1>3, <1>4, CommandMoves

LEMMA WrittenBack ==
    ASSUME TypeInv, NEW a \in Windows, NEW f \in Files, NEW p \in {"idle", "context"},
           cmd[a].at # "idle", cmd[a].at # "force",
           p = "context" => cmd[a].op \in {"start", "refresh"}, WriteBack(a, f, p)
    PROVE  cmd' \in [Windows -> Commands] /\ Shapes'
<1>. DEFINE c == [cmd[a] EXCEPT !.copy = f, !.at = "write", !.then = p]
<1>1. cmd[a] \in Commands /\ Shape(cmd[a])
  BY DEF TypeInv, TypeOK, Shapes
<1>2. c \in Commands
  BY <1>1 DEF Commands, Places
<1>3. Shape(c)
  BY <1>1 DEF Shape, Creating, Refreshing, Collapsing, Dropping, Commands
<1>4. cmd' = [cmd EXCEPT ![a] = c]
  BY <1>1 DEF WriteBack
<1>. QED  BY <1>2, <1>3, <1>4, CommandMoves

LEMMA FilesMade ==
    /\ \A a \in Windows : Created(a) \in Files
    /\ \A a \in Windows, s \in Sessions : TypeOK => AttachedFile(a, s) \in Files
    /\ \A w \in Windows, s \in Sessions : TypeOK => Forgotten(w, s) \subseteq Files
<1>. USE WindowsAssumption
<1>1. \A a \in Windows : Created(a) \in Files
  BY DEF Created, Missing, Files
<1>2. ASSUME NEW a \in Windows, NEW s \in Sessions, TypeOK PROVE AttachedFile(a, s) \in Files
  BY <1>2, FilesOf DEF AttachedFile, Files
<1>3. ASSUME NEW w \in Windows, NEW s \in Sessions, TypeOK PROVE Forgotten(w, s) \subseteq Files
  <2>1. live[s].file \in Files /\ KindOf[w] \in Harnesses \union {"shell"}
    BY <1>3, FilesOf
  <2>. QED  BY <2>1 DEF Forgotten, Files, Harnesses
<1>. QED  BY <1>1, <1>2, <1>3

LEMMA AnchorsMade ==
    ASSUME NEW p \in [Windows -> Sessions \union {Nobody}], NEW a \in Windows,
           NEW s \in Sessions \union {Nobody}, NEW kinds
    PROVE  /\ Anchored(p, a, s) \in [Windows -> Sessions \union {Nobody}]
           /\ Cleared(p, s, kinds) \in [Windows -> Sessions \union {Nobody}]
BY DEF Anchored, Cleared

LEMMA Rebinds ==
    ASSUME TypeOK, NEW a \in Windows, NEW env \in Sessions \union {Nobody}
    PROVE  /\ Rebound(a, env) \in [Windows -> Sessions \union {Nobody}]
           /\ Resolved(a, env) \in Sessions \union {Nobody}
           /\ Resolved(a, env) # Nobody => Exists(Resolved(a, env))
BY DEF Rebound, Resolved, TypeOK, Exists

LEMMA Moves ==
    ASSUME TypeOK, NEW s \in Sessions
    PROVE  Trashed(s) \in Folders /\ Restored(s) \in Folders
<1>1. Trashed(s) \in Folders
  <2>1. [trash[s] EXCEPT !.deep = Inside(live[s])] \in Folders
    BY FilesOf, Values DEF Folders
  <2>2. [trash[s] EXCEPT !.deep = @] \in Folders
    BY FilesOf, Values DEF Folders
  <2>. QED  BY <2>1, <2>2, FilesOf DEF Trashed
<1>2. Restored(s) \in Folders
  <2>1. Text(trash[s].deep) \union Text(live[s].deep) \in Texts
    BY FilesOf, Values
  <2>. QED  BY <2>1, FilesOf, Values DEF Restored, Folders
<1>. QED  BY <1>1, <1>2

LEMMA Releases ==
    ASSUME TypeOK, NEW a \in Windows, NEW s \in Sessions
    PROVE  Released(a, s) \in [Sessions -> Folders]
<1>1. CASE Released(a, s) = live
  BY <1>1 DEF TypeOK
<1>2. CASE KindOf[a] # "shell" /\ ptr[a] # s /\ Exists(ptr[a])
  <2>. DEFINE q == ptr[a]
              f == [live[q].file EXCEPT !.win[KindOf[a]] = Nobody]
  <2>1. q \in Sessions /\ KindOf[a] \in Harnesses
    BY <1>2, WindowsAssumption DEF TypeOK, Exists
  <2>2. f \in Files
    BY <2>1, FilesOf DEF Files
  <2>3. Released(a, s) = [live EXCEPT ![q].file = f]
    BY <1>2 DEF Released
  <2>4. [live EXCEPT ![q].file = f] \in [Sessions -> Folders]
    <3>. HIDE DEF f, q
    <3>. QED  BY <2>1, <2>2, FileWritten DEF TypeOK
  <2>. QED  BY <2>3, <2>4
<1>. QED  BY <1>1, <1>2 DEF Released

-----------------------------------------------------------------------------
(* Types of the commands on sessions.                                       *)
LEMMA StartTypes ==
    ASSUME TypeInv, NEW a \in Windows, NEW env \in Sessions \union {Nobody},
           NEW named \in BOOLEAN, Start(a, env, named), UNCHANGED branchVars
    PROVE  TypeInv'
<1>. DEFINE s == Resolved(a, env)
            c(n) == [Idle EXCEPT !.op = "start", !.sid = n,
                                 !.at = IF named THEN "identify" ELSE "context"]
<1>1. \A n \in Sessions : c(n) \in Commands /\ Shape(c(n))
  <2>1. \A n \in Sessions : c(n) \in Commands
    BY Values DEF Commands, Places, Operations
  <2>2. \A n \in Sessions : Shape(c(n))
    BY DEF Shape, Creating, Refreshing, Collapsing, Dropping, Idle
  <2>. QED  BY <2>1, <2>2
<1>2. PICK n \in Sessions : cmd' = [cmd EXCEPT ![a] = c(n)]
  BY Rebinds DEF Start, TypeInv
<1>3. cmd' \in [Windows -> Commands] /\ Shapes'
  <2>. HIDE DEF c
  <2>. QED  BY <1>1, <1>2, CommandMoves
<1>4. left' \in [commands : Nat, acts : Nat]
  <2>1. Spend \/ left' = left
    BY DEF Start
  <2>. QED  BY <2>1 DEF Spend, TypeInv, TypeOK
<1>5. ptr' \in [Windows -> Sessions \union {Nobody}]
  <2>1. Rebound(a, env) \in [Windows -> Sessions \union {Nobody}] /\ s \in Sessions \union {Nobody}
    BY Rebinds DEF TypeInv
  <2>2. ptr \in [Windows -> Sessions \union {Nobody}]
    BY DEF TypeInv, TypeOK
  <2>3. Cleared(Rebound(a, env), s, Harnesses) \in [Windows -> Sessions \union {Nobody}]
    BY <2>1, AnchorsMade
  <2>4. \/ ptr' = Rebound(a, env)
        \/ \E m \in Sessions :
             ptr' = Anchored(IF s = Nobody THEN ptr ELSE Cleared(Rebound(a, env), s, Harnesses), a, m)
    BY DEF Start
  <2>. DEFINE q == IF s = Nobody THEN ptr ELSE Cleared(Rebound(a, env), s, Harnesses)
  <2>5. q \in [Windows -> Sessions \union {Nobody}]
    BY <2>2, <2>3
  <2>6. \A m \in Sessions : Anchored(q, a, m) \in [Windows -> Sessions \union {Nobody}]
    <3>. HIDE DEF q
    <3>. QED  BY <2>5, AnchorsMade
  <2>. QED  BY <2>1, <2>4, <2>6
<1>6. live' \in [Sessions -> Folders] /\ known' \subseteq Sessions
  <2>1. \/ live' = live /\ known' = known
        \/ \E m \in Sessions : /\ live' = [live EXCEPT ![m].file = Created(a)]
                               /\ known' = known \union {m}
    BY DEF Start
  <2>2. live \in [Sessions -> Folders] /\ known \subseteq Sessions /\ Created(a) \in Files
    BY FilesMade DEF TypeInv, TypeOK
  <2>. QED  BY <2>1, <2>2, FileWritten
<1>. QED  BY <1>3, <1>4, <1>5, <1>6 DEF Start, TypeInv, TypeOK, branchVars

LEMMA CallTypes ==
    ASSUME TypeInv, NEW a \in Windows, UNCHANGED branchVars,
           \/ \E env \in Sessions \union {Nobody} :
                \/ \E named \in BOOLEAN : Refresh(a, env, named)
                \/ \E s \in Sessions, op \in {"stop", "restart"} : Stop(a, op, env, s)
           \/ \E s \in Sessions : Attach(a, s) \/ Restore(a, s)
    PROVE  TypeInv'
<1>. USE DEF TypeInv
<1>1. ASSUME NEW env \in Sessions \union {Nobody}, NEW named \in BOOLEAN, Refresh(a, env, named)
      PROVE  TypeInv'
  <2>. DEFINE s == Resolved(a, env)
              p == IF named THEN "identify" ELSE "context"
  <2>1. s \in Sessions /\ p \in Places /\ "refresh" \in Operations
    BY <1>1, Rebinds DEF Refresh, Places, Operations
  <2>2. Shape([Idle EXCEPT !.at = p, !.op = "refresh", !.sid = s])
    BY <2>1 DEF Shape, Creating, Refreshing, Collapsing, Dropping, Idle
  <2>3. Call(a, "refresh", p, s)
    BY <1>1 DEF Refresh
  <2>4. cmd' \in [Windows -> Commands] /\ Shapes' /\ left' \in [commands : Nat, acts : Nat]
    <3>. HIDE DEF p, s
    <3>. QED  BY <2>1, <2>2, <2>3, Called
  <2>. QED  BY <1>1, <2>4, Rebinds DEF Refresh, TypeOK, branchVars
<1>2. ASSUME NEW env \in Sessions \union {Nobody}, NEW s \in Sessions,
             NEW op \in {"stop", "restart"}, Stop(a, op, env, s)
      PROVE  TypeInv'
  <2>1. Shape([Idle EXCEPT !.at = "remove", !.op = op, !.sid = s])
    BY DEF Shape, Creating, Refreshing, Collapsing, Dropping, Idle
  <2>2. cmd' \in [Windows -> Commands] /\ Shapes' /\ left' \in [commands : Nat, acts : Nat]
    BY <1>2, <2>1, Called DEF Stop, Places, Operations
  <2>. QED  BY <1>2, <2>2, Rebinds, Moves, Values DEF Stop, TypeOK, branchVars
<1>3. ASSUME NEW s \in Sessions, Attach(a, s) PROVE TypeInv'
  <2>1. AttachedFile(a, s) \in Files
    BY FilesMade
  <2>2. cmd' \in [Windows -> Commands] /\ Shapes' /\ left' \in [commands : Nat, acts : Nat]
    BY <1>3, <2>1, CalledWriting DEF Attach, Operations
  <2>3. AttachedPtr(a, s) \in [Windows -> Sessions \union {Nobody}]
    BY AnchorsMade DEF AttachedPtr, TypeOK
  <2>. QED  BY <1>3, <2>2, <2>3, Releases DEF Attach, TypeOK, branchVars
<1>4. ASSUME NEW s \in Sessions, Restore(a, s) PROVE TypeInv'
  BY <1>4, Moves, Values DEF Restore, Spend, TypeOK, Shapes, branchVars
<1>. QED  BY <1>1, <1>2, <1>3, <1>4

LEMMA DetachTypes ==
    ASSUME TypeInv, NEW a \in Windows, NEW w \in Windows, Unanchor(a, w), UNCHANGED branchVars
    PROVE  TypeInv'
<1>. USE DEF TypeInv
<1>1. ptr[w] \in Sessions /\ "detach" \in Operations
  BY DEF Unanchor, TypeOK, Operations
<1>2. CASE cmd' = cmd /\ Spend
  BY <1>2, <1>1 DEF Unanchor, Spend, TypeOK, Shapes, branchVars
<1>3. ASSUME NEW f \in Forgotten(w, ptr[w]), CallWriting(a, "detach", ptr[w], f)
      PROVE  TypeInv'
  <2>1. f \in Files
    BY <1>1, FilesMade
  <2>2. cmd' \in [Windows -> Commands] /\ Shapes' /\ left' \in [commands : Nat, acts : Nat]
    BY <1>1, <1>3, <2>1, CalledWriting
  <2>. QED  BY <1>1, <2>2 DEF Unanchor, TypeOK, branchVars
<1>. QED  BY <1>2, <1>3 DEF Unanchor

LEMMA ForceTypes ==
    ASSUME TypeInv, NEW a \in Windows, UNCHANGED branchVars,
           \/ ForceStop(a) \/ ForceLast(a) \/ (\E s \in Sessions : ForceOne(a, s))
           \/ (\E old \in SUBSET Sessions : Clean(a, old))
    PROVE  TypeInv'
<1>. USE DEF TypeInv
<1>1. CASE ForceStop(a)
  <2>. DEFINE c == [Idle EXCEPT !.at = "force", !.op = "force",
                                !.ids = {s \in Sessions : live[s].file.there}]
  <2>1. c \in Commands
    BY Values DEF Commands, Places, Operations
  <2>2. Shape(c)
    BY DEF Shape, Creating, Refreshing, Collapsing, Dropping, Idle
  <2>3. cmd' \in [Windows -> Commands] /\ Shapes'
    <3>1. cmd' = [cmd EXCEPT ![a] = c]
      BY <1>1 DEF ForceStop
    <3>. HIDE DEF c
    <3>. QED  BY <2>1, <2>2, <3>1, CommandMoves
  <2>. QED  BY <1>1, <2>3 DEF ForceStop, Spend, TypeOK, branchVars
<1>2. CASE ForceLast(a)
  BY <1>2, Left DEF ForceLast, TypeOK, branchVars
<1>3. ASSUME NEW s \in Sessions, ForceOne(a, s) PROVE TypeInv'
  <2>. DEFINE c == [cmd[a] EXCEPT !.ids = @ \ {s}]
  <2>1. cmd[a] \in Commands /\ Shape(cmd[a])
    BY DEF TypeOK, Shapes
  <2>2. c \in Commands
    BY <2>1 DEF Commands
  <2>3. Shape(c)
    BY <2>1 DEF Shape, Creating, Refreshing, Collapsing, Dropping, Commands
  <2>4. cmd' \in [Windows -> Commands] /\ Shapes'
    <3>1. CASE CanMove(s)
      <4>1. cmd' = [cmd EXCEPT ![a] = c]
        BY <1>3, <3>1 DEF ForceOne
      <4>. HIDE DEF c
      <4>. QED  BY <2>2, <2>3, <4>1, CommandMoves
    <3>. QED  BY <1>3, <3>1, Left DEF ForceOne
  <2>5. live' \in [Sessions -> Folders] /\ trash' \in [Sessions -> Folders]
    <3>1. \/ live' = live /\ trash' = trash
          \/ live' = [live EXCEPT ![s] = NoFolder] /\ trash' = [trash EXCEPT ![s] = Trashed(s)]
      BY <1>3 DEF ForceOne
    <3>2. Trashed(s) \in Folders /\ NoFolder \in Folders
      BY Moves, Values
    <3>. QED  BY <3>1, <3>2 DEF TypeOK
  <2>6. ptr' \in [Windows -> Sessions \union {Nobody}]
    BY <1>3, AnchorsMade DEF ForceOne, TypeOK
  <2>. QED  BY <1>3, <2>4, <2>5, <2>6 DEF ForceOne, TypeOK, branchVars
<1>4. ASSUME NEW old \in SUBSET Sessions, Clean(a, old) PROVE TypeInv'
  <2>1. \A s \in Sessions : [live[s] EXCEPT !.file = Missing] \in Folders
    BY FilesOf, Values DEF Folders
  <2>2. live' \in [Sessions -> Folders]
    BY <1>4, <2>1, FilesOf DEF Clean
  <2>. QED  BY <1>4, <2>2 DEF Clean, Spend, TypeOK, Shapes, branchVars
<1>. QED  BY <1>1, <1>2, <1>3, <1>4

LEMMA FileStepTypes ==
    ASSUME TypeInv, NEW a \in Windows, UNCHANGED branchVars,
           Identify(a) \/ Stamp(a) \/ Write(a) \/ Remove(a)
    PROVE  TypeInv'
<1>. USE DEF TypeInv
<1>1. cmd[a] \in Commands /\ Shape(cmd[a])
  BY DEF TypeOK, Shapes
<1>2. cmd[a].at \in {"identify", "stamp", "write", "remove"} /\ cmd[a].sid \in Sessions
  BY <1>1 DEF Identify, Stamp, Write, Remove, Shape
<1>. DEFINE s == cmd[a].sid
            f == [live[s].file EXCEPT !.target = TRUE]
<1>3. CASE Identify(a)
  <2>1. f \in Files
    <3>1. live[s].file \in Files
      BY <1>2, FilesOf
    <3>. QED  BY <3>1 DEF Files
  <2>2. cmd[a].op \in {"start", "refresh"}
    BY <1>1, <1>3 DEF Shape, Refreshing, Identify
  <2>3. WriteBack(a, f, "context") \/ Leave(a)
    BY <1>3 DEF Identify
  <2>4. cmd' \in [Windows -> Commands] /\ Shapes'
    <3>. HIDE DEF f
    <3>. QED  BY <1>2, <2>1, <2>2, <2>3, WrittenBack, Left
  <2>. QED  BY <1>3, <2>4 DEF Identify, TypeOK, branchVars
<1>4. CASE Stamp(a)
  <2>1. WriteBack(a, live[s].file, "idle") \/ Leave(a)
    BY <1>4 DEF Stamp
  <2>2. cmd' \in [Windows -> Commands] /\ Shapes'
    BY <1>2, <2>1, WrittenBack, Left, FilesOf
  <2>. QED  BY <1>4, <2>2 DEF Stamp, TypeOK, branchVars
<1>5. CASE Write(a)
  <2>1. live' \in [Sessions -> Folders]
    BY <1>1, <1>2, <1>5, FileWritten DEF Write, TypeOK, Commands
  <2>2. cmd[a].then \in {"idle", "context", "tree"} /\ cmd[a].then \in Places
    BY <1>1, <1>5 DEF Write, Shape, Places
  <2>3. cmd[a].then # "idle" => Shape([cmd[a] EXCEPT !.at = cmd[a].then])
    BY <1>1, <1>5, <2>2 DEF Write, Shape, Creating, Refreshing, Collapsing, Dropping, Commands
  <2>4. cmd' \in [Windows -> Commands] /\ Shapes'
    BY <1>5, <2>2, <2>3, Moved, Left DEF Write, GotoOrLeave
  <2>. QED  BY <1>5, <2>1, <2>4 DEF Write, TypeOK, branchVars
<1>6. CASE Remove(a)
  <2>1. live' \in [Sessions -> Folders] /\ ptr' \in [Windows -> Sessions \union {Nobody}]
    BY <1>2, <1>6, FileWritten, Values, AnchorsMade DEF Remove, TypeOK
  <2>2. Shape([cmd[a] EXCEPT !.at = "restart"]) /\ "restart" \in Places
    BY <1>1, <1>2 DEF Shape, Creating, Refreshing, Collapsing, Dropping, Commands, Places
  <2>3. cmd' \in [Windows -> Commands] /\ Shapes'
    BY <1>6, <2>2, Moved, Left DEF Remove, GotoOrLeave
  <2>. QED  BY <1>6, <2>1, <2>3 DEF Remove, TypeOK, branchVars
<1>. QED  BY <1>3, <1>4, <1>5, <1>6

LEMMA ContextTypes ==
    ASSUME TypeInv, NEW a \in Windows, UNCHANGED branchVars,
           Context(a) \/ Resync(a) \/ RecordWrite(a)
    PROVE  TypeInv'
<1>. USE DEF TypeInv
<1>1. cmd[a] \in Commands /\ Shape(cmd[a])
  BY DEF TypeOK, Shapes
<1>2. cmd[a].at \in {"context", "resync", "record"} /\ cmd[a].sid \in Sessions
  BY <1>1 DEF Context, Resync, RecordWrite, Shape
<1>. DEFINE s == cmd[a].sid
            c == [cmd[a] EXCEPT !.text = live[s].ctx, !.at = "resync"]
            d == [cmd[a] EXCEPT !.text = {}, !.at = "scan"]
<1>3. CASE Context(a) /\ Goto(a, "scan")
  <2>1. Shape([cmd[a] EXCEPT !.at = "scan"]) /\ "scan" \in Places
    BY <1>1, <1>2, <1>3 DEF Context, Shape, Creating, Refreshing, Collapsing, Dropping, Commands, Places
  <2>2. cmd' \in [Windows -> Commands] /\ Shapes'
    BY <1>3, <2>1, Moved
  <2>3. live' = live \/ live' = [live EXCEPT ![s].ctx = {}]
    BY <1>3 DEF Context
  <2>4. live' \in [Sessions -> Folders]
    <3>1. live \in [Sessions -> Folders] /\ s \in Sessions
      BY <1>2 DEF TypeOK
    <3>. HIDE DEF s
    <3>. QED  BY <2>3, <3>1, ContextWritten, Values
  <2>. QED  BY <1>3, <2>2, <2>4 DEF Context, TypeOK, branchVars
<1>4. CASE Context(a) /\ live' = live /\ live[s].ctx # NoContext
  <2>1. live[s].ctx \in SUBSET Entries
    BY <1>2, <1>4, FilesOf DEF Texts
  <2>2. c \in Commands
    BY <1>1, <2>1 DEF Commands, Places
  <2>3. Shape(c)
    BY <1>1, <1>2, <1>4 DEF Context, Shape, Creating, Refreshing, Collapsing, Dropping, Commands
  <2>4. cmd' = [cmd EXCEPT ![a] = c]
    BY <1>4 DEF Context, TypeOK
  <2>5. cmd' \in [Windows -> Commands] /\ Shapes'
    <3>. HIDE DEF c
    <3>. QED  BY <2>2, <2>3, <2>4, CommandMoves
  <2>. QED  BY <1>4, <2>5 DEF Context, TypeOK, branchVars
<1>5. CASE Resync(a) /\ cmd' = [cmd EXCEPT ![a] = d]
  <2>1. d \in Commands
    BY <1>1 DEF Commands, Places
  <2>2. Shape(d)
    BY <1>1, <1>2, <1>5 DEF Resync, Shape, Creating, Refreshing, Collapsing, Dropping, Commands
  <2>3. cmd' \in [Windows -> Commands] /\ Shapes'
    <3>. HIDE DEF d
    <3>. QED  BY <1>5, <2>1, <2>2, CommandMoves
  <2>4. live' = live \/ live' = [live EXCEPT ![s].ctx = cmd[a].text]
    BY <1>5 DEF Resync
  <2>5. cmd[a].text \in Texts
    BY <1>1, Values DEF Commands
  <2>6. live' \in [Sessions -> Folders]
    <3>1. live \in [Sessions -> Folders] /\ s \in Sessions
      BY <1>2 DEF TypeOK
    <3>. HIDE DEF s
    <3>. QED  BY <2>4, <2>5, <3>1, ContextWritten
  <2>. QED  BY <1>5, <2>3, <2>6 DEF Resync, TypeOK, branchVars
<1>6. CASE Resync(a) /\ Leave(a) /\ live' = live
  BY <1>6, Left DEF Resync, TypeOK, branchVars
<1>7. CASE RecordWrite(a)
  <2>1. live' = live \/ live' = [live EXCEPT ![s].ctx = cmd[a].text \union cmd[a].new]
    BY <1>7 DEF RecordWrite
  <2>2. cmd[a].text \union cmd[a].new \in Texts
    BY <1>1, Values DEF Commands
  <2>3. live' \in [Sessions -> Folders]
    <3>1. live \in [Sessions -> Folders] /\ s \in Sessions
      BY <1>2 DEF TypeOK
    <3>. DEFINE t == cmd[a].text \union cmd[a].new
    <3>2. t \in Texts /\ (live' = live \/ live' = [live EXCEPT ![s].ctx = t])
      BY <2>1, <2>2
    <3>. HIDE DEF s, t
    <3>. QED  BY <3>1, <3>2, ContextWritten
  <2>. QED  BY <1>7, <2>3, Left DEF RecordWrite, TypeOK, branchVars
<1>8. Context(a) => Goto(a, "scan") \/ (live' = live /\ live[s].ctx # NoContext)
  BY DEF Context
<1>9. Resync(a) => cmd' = [cmd EXCEPT ![a] = d] \/ (Leave(a) /\ live' = live)
  BY DEF Resync, TypeOK
<1>. QED  BY <1>3, <1>4, <1>5, <1>6, <1>7, <1>8, <1>9

LEMMA RecordTypes ==
    ASSUME TypeInv, NEW a \in Windows, NEW s \in Sessions, NEW e \in Entries, Record(a, s, e),
           UNCHANGED branchVars
    PROVE  TypeInv'
<1>. USE DEF TypeInv
<1>. DEFINE c == [Idle EXCEPT !.at = "record", !.op = "record", !.sid = s,
                              !.new = {e}, !.text = Text(live[s].ctx)]
<1>1. c \in Commands
  BY Values, FilesOf DEF Commands, Places, Operations
<1>2. Shape(c)
  BY DEF Shape, Creating, Refreshing, Collapsing, Dropping, Idle
<1>3. cmd' = [cmd EXCEPT ![a] = c]
  BY DEF Record
<1>4. cmd' \in [Windows -> Commands] /\ Shapes'
  <2>. HIDE DEF c
  <2>. QED  BY <1>1, <1>2, <1>3, CommandMoves
<1>. QED  BY <1>4 DEF Record, Spend, TypeOK, branchVars

LEMMA SweepTypes ==
    ASSUME TypeInv, NEW a \in Windows, UNCHANGED branchVars,
           \/ Scan(a) \/ Sweep(a)
           \/ \E old, gone \in SUBSET Sessions : SweepBare(a, old, gone)
    PROVE  TypeInv'
<1>. USE DEF TypeInv
<1>1. cmd[a] \in Commands /\ Shape(cmd[a]) /\ cmd[a].at \in {"scan", "sweep", "bare"}
  BY DEF TypeOK, Shapes, Scan, Sweep, SweepBare
<1>2. ASSUME NEW ids \in SUBSET Sessions, NEW p \in {"sweep", "bare"},
             cmd' = [cmd EXCEPT ![a].ids = ids, ![a].at = p]
      PROVE  cmd' \in [Windows -> Commands] /\ Shapes'
  <2>. DEFINE c == [cmd[a] EXCEPT !.ids = ids, !.at = p]
  <2>1. c \in Commands
    BY <1>1 DEF Commands, Places
  <2>2. Shape(c)
    BY <1>1 DEF Shape, Creating, Refreshing, Collapsing, Dropping, Commands
  <2>3. cmd' = [cmd EXCEPT ![a] = c]
    BY <1>2 DEF TypeOK
  <2>. HIDE DEF c
  <2>. QED  BY <2>1, <2>2, <2>3, CommandMoves
<1>3. CASE Scan(a)
  BY <1>2, <1>3 DEF Scan, TypeOK, branchVars
<1>4. CASE Sweep(a)
  <2>1. live' \in [Sessions -> Folders]
    <3>1. ASSUME NEW ids, ids = cmd[a].ids PROVE live' \in [Sessions -> Folders]
      <4>1. live' = [s \in Sessions |-> IF ids = {} \/ s \in ids THEN live[s] ELSE NoFolder]
        BY <1>4, <3>1 DEF Sweep
      <4>2. live \in [Sessions -> Folders] /\ NoFolder \in Folders
        BY Values DEF TypeOK
      <4>. QED  BY <4>1, <4>2, Swept
    <3>. QED  BY <3>1
  <2>. QED  BY <1>2, <1>4, <2>1 DEF Sweep, TypeOK, branchVars
<1>5. ASSUME NEW old \in SUBSET Sessions, NEW gone \in SUBSET Sessions, SweepBare(a, old, gone)
      PROVE  TypeInv'
  <2>1. live' \in [Sessions -> Folders] /\ trash' \in [Sessions -> Folders]
    BY <1>5, Values, Moves, FilesOf DEF SweepBare
  <2>2. ptr' \in [Windows -> Sessions \union {Nobody}]
    BY <1>5 DEF SweepBare, TypeOK
  <2>3. Shape([cmd[a] EXCEPT !.at = "stamp"]) /\ "stamp" \in Places
    BY <1>1 DEF Shape, Creating, Refreshing, Collapsing, Dropping, Commands, Places
  <2>4. cmd' \in [Windows -> Commands] /\ Shapes'
    BY <1>5, <2>3, Moved, Left DEF SweepBare, GotoOrLeave
  <2>. QED  BY <1>5, <2>1, <2>2, <2>4 DEF SweepBare, TypeOK, branchVars
<1>. QED  BY <1>3, <1>4, <1>5

-----------------------------------------------------------------------------
(* Types of the commands on branch sessions.                                *)
LEMMA TreeSet ==
    ASSUME TypeOK, NEW s \in Sessions, NEW r \in Repos, NEW t \in Trees
    PROVE  [tree EXCEPT ![s][r] = t] \in [Sessions -> [Repos -> Trees]]
BY DEF TypeOK

LEMMA PastSet ==
    ASSUME TypeOK, NEW s \in Sessions, NEW q \in Pasts
    PROVE  [past EXCEPT ![s] = q] \in [Sessions -> Pasts]
BY DEF TypeOK

LEMMA CreateTypes ==
    ASSUME TypeInv, NEW a \in Windows, NEW env \in Sessions \union {Nobody}, NEW n \in Sessions,
           NEW mode \in {"spawn", "branch", "temp"}, Create(a, env, n, mode)
    PROVE  TypeInv'
<1>. USE DEF TypeInv
<1>. DEFINE p == Resolved(a, env)
            f == [Missing EXCEPT !.there = TRUE]
            child == IF mode = "temp" THEN f
                     ELSE [f EXCEPT !.parent = p, !.target = HasTarget(p), !.branch = mode = "branch"]
            c == [Idle EXCEPT !.op = "create", !.sid = n, !.copy = child,
                              !.repos = IF mode = "branch" THEN Repos ELSE {},
                              !.at = IF mode = "branch" THEN "grow" ELSE "found"]
<1>1. child \in Files
  <2>1. p \in Sessions \union {Nobody} /\ HasTarget(p) \in BOOLEAN
    <3>1. p \in Sessions \union {Nobody}
      BY Rebinds
    <3>. QED  BY <3>1, FilesOf DEF HasTarget, Files
  <2>2. f \in Files
    BY Values DEF Files
  <2>. HIDE DEF p, f
  <2>. QED  BY <2>1, <2>2 DEF Files
<1>2. c \in Commands
  <2>. HIDE DEF child
  <2>. QED  BY <1>1, Values DEF Commands, Places, Operations
<1>3. Shape(c)
  BY DEF Shape, Creating, Refreshing, Collapsing, Dropping, Idle
<1>4. cmd' = [cmd EXCEPT ![a] = c]
  BY DEF Create
<1>5. cmd' \in [Windows -> Commands] /\ Shapes'
  <2>. HIDE DEF c
  <2>. QED  BY <1>2, <1>3, <1>4, CommandMoves
<1>6. ptr' \in [Windows -> Sessions \union {Nobody}] /\ known' \subseteq Sessions
  BY Rebinds DEF Create, TypeOK
<1>7. left' \in [commands : Nat, acts : Nat]
  BY DEF Create, Spend, TypeOK
<1>. QED  BY <1>5, <1>6, <1>7 DEF Create, TypeOK, branchVars, folders

LEMMA GrowTypes ==
    ASSUME TypeInv, NEW a \in Windows,
           (\E r \in Repos : AddTree(a, r)) \/ CreateFails(a)
    PROVE  TypeInv'
<1>. USE DEF TypeInv
<1>1. cmd[a] \in Commands /\ Shape(cmd[a])
  BY DEF TypeOK, Shapes
<1>2. cmd[a].sid \in Sessions /\ cmd[a].op = "create"
  BY <1>1 DEF AddTree, CreateFails, Shape, Creating
<1>3. ASSUME NEW r \in Repos, AddTree(a, r) PROVE TypeInv'
  <2>. DEFINE c == [cmd[a] EXCEPT !.repos = @ \ {r},
                                  !.at = IF cmd[a].repos = {r} THEN "found" ELSE "grow"]
  <2>1. c \in Commands
    BY <1>1 DEF Commands, Places
  <2>2. Shape(c)
    BY <1>1, <1>2 DEF Shape, Creating, Refreshing, Collapsing, Dropping, Commands
  <2>3. cmd' = [cmd EXCEPT ![a] = c]
    BY <1>3 DEF AddTree, TypeOK
  <2>4. cmd' \in [Windows -> Commands] /\ Shapes'
    <3>. HIDE DEF c
    <3>. QED  BY <2>1, <2>2, <2>3, CommandMoves
  <2>5. tree' \in [Sessions -> [Repos -> Trees]]
    BY <1>2, <1>3, TreeSet, Values DEF AddTree
  <2>. QED  BY <1>3, <2>4, <2>5 DEF AddTree, TypeOK, folders
<1>4. CASE CreateFails(a)
  <2>. DEFINE s == cmd[a].sid
              c == [cmd[a] EXCEPT !.repos = Built(s), !.at = "tree"]
              f == [live[s] EXCEPT !.file = Missing, !.ctx = NoContext]
  <2>1. c \in Commands
    BY <1>1 DEF Commands, Places, Built
  <2>2. Shape(c)
    BY <1>1, <1>2 DEF Shape, Creating, Refreshing, Collapsing, Dropping, Commands
  <2>3. Leave(a) \/ cmd' = [cmd EXCEPT ![a] = c]
    BY <1>4 DEF CreateFails, TypeOK
  <2>4. cmd' \in [Windows -> Commands] /\ Shapes'
    <3>. HIDE DEF c
    <3>. QED  BY <2>1, <2>2, <2>3, CommandMoves, Left
  <2>5. live' \in [Sessions -> Folders]
    <3>1. f \in Folders
      <4>1. live[s] \in Folders
        BY <1>2, FilesOf
      <4>. QED  BY <4>1, Values DEF Folders
    <3>2. live' = live \/ live' = [live EXCEPT ![s] = f]
      BY <1>4 DEF CreateFails, TypeOK
    <3>3. live \in [Sessions -> Folders] /\ s \in Sessions
      BY <1>2 DEF TypeOK
    <3>. HIDE DEF f, s
    <3>. QED  BY <3>1, <3>2, <3>3
  <2>. QED  BY <1>4, <2>4, <2>5 DEF CreateFails, TypeOK, branchVars
<1>. QED  BY <1>3, <1>4

LEMMA FoundTypes ==
    ASSUME TypeInv, NEW a \in Windows, Found(a) \/ Skeleton(a) \/ Anchor(a)
    PROVE  TypeInv'
<1>. USE DEF TypeInv
<1>1. cmd[a] \in Commands /\ Shape(cmd[a]) /\ live \in [Sessions -> Folders]
  BY DEF TypeOK, Shapes
<1>2. /\ cmd[a].sid \in Sessions /\ cmd[a].op = "create" /\ cmd[a].copy \in Files
      /\ cmd[a].at \in {"found", "skeleton", "anchor"}
  BY <1>1 DEF Found, Skeleton, Anchor, Shape, Creating, Commands
<1>. DEFINE s == cmd[a].sid
<1>3. \A p \in {"skeleton", "anchor"} : p \in Places /\ Shape([cmd[a] EXCEPT !.at = p])
  BY <1>1, <1>2 DEF Shape, Creating, Refreshing, Collapsing, Dropping, Commands, Places
<1>4. CASE Found(a)
  <2>1. live' \in [Sessions -> Folders]
    <3>1. live' = [live EXCEPT ![s].file = cmd[a].copy] /\ s \in Sessions
      BY <1>2, <1>4 DEF Found
    <3>. HIDE DEF s
    <3>. QED  BY <1>1, <1>2, <3>1, FileWritten
  <2>2. cmd' \in [Windows -> Commands] /\ Shapes'
    BY <1>3, <1>4, Moved DEF Found
  <2>. QED  BY <1>4, <2>1, <2>2 DEF Found, TypeOK, branchVars
<1>5. CASE Skeleton(a)
  <2>1. live' \in [Sessions -> Folders]
    <3>1. ASSUME NEW t, t = IF live[s].ctx = NoContext THEN {} ELSE live[s].ctx
          PROVE  live' \in [Sessions -> Folders]
      <4>1. t \in Texts /\ s \in Sessions
        BY <1>2, <3>1, FilesOf, Values
      <4>2. live' = [live EXCEPT ![s].ctx = t]
        BY <1>1, <1>2, <1>5, <3>1 DEF Skeleton
      <4>. HIDE DEF s
      <4>. QED  BY <1>1, <4>1, <4>2, ContextWritten
    <3>. QED  BY <3>1
  <2>2. cmd' \in [Windows -> Commands] /\ Shapes'
    BY <1>3, <1>5, Moved DEF Skeleton
  <2>. QED  BY <1>5, <2>1, <2>2 DEF Skeleton, TypeOK, branchVars
<1>6. CASE Anchor(a)
  <2>1. AttachedFile(a, s) \in Files /\ Released(a, s) \in [Sessions -> Folders]
    BY <1>2, FilesMade, Releases
  <2>2. cmd' \in [Windows -> Commands] /\ Shapes'
    BY <1>2, <1>6, <2>1, WrittenBack DEF Anchor
  <2>3. ptr' \in [Windows -> Sessions \union {Nobody}]
    BY <1>2, <1>6, AnchorsMade DEF Anchor, AttachedPtr, TypeOK
  <2>4. past' \in [Sessions -> Pasts]
    <3>1. [past[s] EXCEPT !.opened = Built(s)] \in Pasts
      BY <1>2 DEF TypeOK, Pasts, Built
    <3>2. past' = [past EXCEPT ![s] = [past[s] EXCEPT !.opened = Built(s)]]
      BY <1>6 DEF Anchor, TypeOK
    <3>. QED  BY <1>2, <3>1, <3>2, PastSet
  <2>. QED  BY <1>6, <2>1, <2>2, <2>3, <2>4 DEF Anchor, TypeOK
<1>. QED  BY <1>4, <1>5, <1>6

LEMMA MergeTypes ==
    ASSUME TypeInv, NEW a \in Windows, NEW r \in Repos,
           \/ \E env \in Sessions \union {Nobody}, s \in Sessions : Merge(a, env, s, r)
           \/ GitMerge(a, r) \/ GitMergeFails(a, r)
    PROVE  TypeInv'
<1>. USE DEF TypeInv
<1>1. cmd[a] \in Commands /\ Shape(cmd[a])
  BY DEF TypeOK, Shapes
<1>2. ASSUME NEW env \in Sessions \union {Nobody}, NEW s \in Sessions, Merge(a, env, s, r)
      PROVE  TypeInv'
  <2>. DEFINE c == [Idle EXCEPT !.at = "merge", !.op = "merge", !.sid = s,
                                !.repos = {r}, !.copy = live[s].file]
  <2>1. c \in Commands
    BY Values, FilesOf DEF Commands, Places, Operations
  <2>2. Shape(c)
    BY DEF Shape, Creating, Refreshing, Collapsing, Dropping, Idle
  <2>3. cmd' = [cmd EXCEPT ![a] = c]
    BY <1>2 DEF Merge
  <2>4. cmd' \in [Windows -> Commands] /\ Shapes'
    <3>. HIDE DEF c
    <3>. QED  BY <2>1, <2>2, <2>3, CommandMoves
  <2>5. ptr' \in [Windows -> Sessions \union {Nobody}]
    BY <1>2, Rebinds DEF Merge, TypeOK
  <2>6. left' \in [commands : Nat, acts : Nat]
    <3>1. Spend
      BY <1>2 DEF Merge
    <3>. QED  BY <3>1 DEF Spend, TypeOK
  <2>8. UNCHANGED <<folders, known, ctxlock, branchVars>>
    BY <1>2 DEF Merge
  <2>. HIDE DEF c
  <2>. QED  BY <2>4, <2>5, <2>6, <2>8 DEF TypeOK, branchVars, folders
<1>3. CASE GitMerge(a, r)
  <2>. DEFINE s == cmd[a].sid
              f == [cmd[a].copy EXCEPT !.merged = @ \union {r}]
  <2>1. s \in Sessions /\ f \in Files /\ cmd[a].at = "merge"
    BY <1>1, <1>3 DEF GitMerge, Shape, Commands, Files
  <2>2. cmd' \in [Windows -> Commands] /\ Shapes'
    <3>1. WriteBack(a, f, "idle")
      BY <1>3 DEF GitMerge
    <3>. HIDE DEF f
    <3>. QED  BY <2>1, <3>1, WrittenBack
  <2>3. past' \in [Sessions -> Pasts]
    <3>1. [past[s] EXCEPT !.landed = @ \union {r}] \in Pasts
      <4>1. past[s] \in Pasts
        BY <2>1 DEF TypeOK
      <4>. QED  BY <4>1 DEF Pasts
    <3>2. past' = [past EXCEPT ![s] = [past[s] EXCEPT !.landed = @ \union {r}]]
      BY <1>3 DEF GitMerge, TypeOK
    <3>. QED  BY <2>1, <3>1, <3>2, PastSet
  <2>4. tree[s][r].work \subseteq Work
    BY <2>1 DEF TypeOK, Trees
  <2>. QED  BY <1>3, <2>2, <2>3, <2>4 DEF GitMerge, TypeOK, folders
<1>4. CASE GitMergeFails(a, r)
  BY <1>4, Left DEF GitMergeFails, TypeOK, folders
<1>. QED  BY <1>2, <1>3, <1>4

LEMMA CollapseTypes ==
    ASSUME TypeInv, NEW a \in Windows,
           \/ \E env \in Sessions \union {Nobody}, s \in Sessions : Collapse(a, env, s)
           \/ CollapseLock(a) \/ CollapseParent(a) \/ CollapseChild(a)
    PROVE  TypeInv'
<1>. USE DEF TypeInv
<1>1. cmd[a] \in Commands /\ Shape(cmd[a])
  BY DEF TypeOK, Shapes
<1>2. cmd[a].at \in Collapsing =>
        /\ cmd[a].sid \in Sessions /\ cmd[a].copy.parent \in Sessions /\ cmd[a].op = "collapse"
        /\ cmd[a].copy \in Files /\ cmd[a].text \in SUBSET Entries /\ cmd[a].new \in SUBSET Entries
  BY <1>1 DEF Shape, Collapsing, Commands
<1>3. ASSUME NEW env \in Sessions \union {Nobody}, NEW s \in Sessions, Collapse(a, env, s)
      PROVE  TypeInv'
  <2>. DEFINE f == live[s].file
              c == [Idle EXCEPT !.at = "lock", !.op = "collapse", !.sid = s,
                                !.copy = f, !.new = Text(live[s].ctx)]
  <2>1. c \in Commands
    BY Values, FilesOf DEF Commands, Places, Operations
  <2>2. f.parent \in Sessions
    BY <1>3, FilesOf DEF Collapse, Exists, Files
  <2>3. Shape(c)
    BY <2>2 DEF Shape, Creating, Refreshing, Collapsing, Dropping, Idle
  <2>4. cmd' = [cmd EXCEPT ![a] = c]
    BY <1>3 DEF Collapse
  <2>5. cmd' \in [Windows -> Commands] /\ Shapes'
    <3>. HIDE DEF c
    <3>. QED  BY <2>1, <2>3, <2>4, CommandMoves
  <2>6. ptr' \in [Windows -> Sessions \union {Nobody}]
    BY <1>3, Rebinds DEF Collapse, TypeOK
  <2>7. left' \in [commands : Nat, acts : Nat]
    <3>1. Spend
      BY <1>3 DEF Collapse
    <3>. QED  BY <3>1 DEF Spend, TypeOK
  <2>8. UNCHANGED <<folders, known, ctxlock, branchVars>>
    BY <1>3 DEF Collapse
  <2>. HIDE DEF c
  <2>. HIDE DEF c
  <2>. QED  BY <2>5, <2>6, <2>7, <2>8 DEF TypeOK, branchVars, folders
<1>4. CASE CollapseLock(a)
  <2>. DEFINE p == cmd[a].copy.parent
              c == [cmd[a] EXCEPT !.text = Text(live[p].ctx), !.at = "parent"]
  <2>1. Text(live[p].ctx) \in SUBSET Entries /\ p \in Sessions
    BY <1>2, <1>4, FilesOf DEF CollapseLock, Collapsing
  <2>2. c \in Commands
    <3>. HIDE DEF p
    <3>. QED  BY <1>1, <2>1 DEF Commands, Places
  <2>3. Shape(c)
    BY <1>1, <1>2, <1>4 DEF CollapseLock, Shape, Creating, Refreshing, Collapsing, Dropping, Commands
  <2>4. cmd' = [cmd EXCEPT ![a] = c]
    BY <1>4 DEF CollapseLock, TypeOK
  <2>5. cmd' \in [Windows -> Commands] /\ Shapes'
    <3>. HIDE DEF c
    <3>. QED  BY <2>2, <2>3, <2>4, CommandMoves
  <2>. QED  BY <1>4, <2>1, <2>5 DEF CollapseLock, TypeOK, gitVars, folders
<1>5. CASE CollapseParent(a)
  <2>. DEFINE p == cmd[a].copy.parent
              s == cmd[a].sid
              x == cmd[a].text \union cmd[a].new
              q == [past[s] EXCEPT !.carried = TRUE, !.entries = cmd[a].new]
  <2>1. p \in Sessions /\ s \in Sessions /\ x \in SUBSET Entries
    BY <1>2, <1>5 DEF CollapseParent, Collapsing
  <2>2. live' \in [Sessions -> Folders]
    <3>1. live' = [live EXCEPT ![p].ctx = x] /\ live \in [Sessions -> Folders] /\ x \in Texts
      BY <1>5, <2>1, Values DEF CollapseParent, TypeOK
    <3>. HIDE DEF p, x
    <3>. QED  BY <2>1, <3>1, ContextWritten
  <2>3. past' \in [Sessions -> Pasts]
    <3>1. past[s] \in Pasts
      BY <2>1 DEF TypeOK
    <3>2. q \in Pasts
      BY <1>2, <1>5, <3>1 DEF Pasts, CollapseParent, Collapsing
    <3>3. past' = [past EXCEPT ![s] = q]
      BY <1>5 DEF CollapseParent, TypeOK
    <3>. HIDE DEF q, s
    <3>. QED  BY <2>1, <3>2, <3>3, PastSet
  <2>4. Shape([cmd[a] EXCEPT !.at = "child"]) /\ "child" \in Places
    BY <1>1, <1>2, <1>5
       DEF CollapseParent, Shape, Creating, Refreshing, Collapsing, Dropping, Commands, Places
  <2>5. cmd' \in [Windows -> Commands] /\ Shapes'
    BY <1>5, <2>4, Moved DEF CollapseParent
  <2>. QED  BY <1>5, <2>2, <2>3, <2>5 DEF CollapseParent, TypeOK, gitVars
<1>6. CASE CollapseChild(a)
  <2>. DEFINE p == cmd[a].copy.parent
              s == cmd[a].sid
              f == [cmd[a].copy EXCEPT !.into = p]
  <2>1. p \in Sessions /\ s \in Sessions /\ f \in Files
    BY <1>2, <1>6 DEF CollapseChild, Collapsing, Files
  <2>2. live' \in [Sessions -> Folders]
    <3>1. live' = [live EXCEPT ![s].file = f] /\ live \in [Sessions -> Folders]
      BY <1>6 DEF CollapseChild, TypeOK
    <3>. HIDE DEF s, f
    <3>. QED  BY <2>1, <3>1, FileWritten
  <2>. QED  BY <1>6, <2>1, <2>2, Left DEF CollapseChild, TypeOK, gitVars
<1>. QED  BY <1>3, <1>4, <1>5, <1>6

LEMMA CleanupTypes ==
    ASSUME TypeInv, NEW a \in Windows,
           \/ \E env \in Sessions \union {Nobody}, s \in Sessions : Cleanup(a, env, s)
           \/ (\E r \in Repos : DropTree(a, r) \/ DropRef(a, r))
           \/ DropFails(a)
    PROVE  TypeInv'
<1>. USE DEF TypeInv
<1>1. cmd[a] \in Commands /\ Shape(cmd[a])
  BY DEF TypeOK, Shapes
<1>2. ASSUME NEW env \in Sessions \union {Nobody}, NEW s \in Sessions, Cleanup(a, env, s)
      PROVE  TypeInv'
  <2>. DEFINE f == live[s].file
              c == [Idle EXCEPT !.at = "tree", !.op = "cleanup", !.sid = s,
                                !.copy = f, !.repos = Repos \ f.cleaned]
  <2>1. c \in Commands
    BY Values, FilesOf DEF Commands, Places, Operations
  <2>2. IsMerged(f) /\ IsCollapsed(f)
    BY <1>2 DEF Cleanup
  <2>3. Shape(c)
    BY <2>2 DEF Shape, Creating, Refreshing, Collapsing, Dropping, Idle
  <2>4. cmd' = [cmd EXCEPT ![a] = c]
    BY <1>2 DEF Cleanup
  <2>5. cmd' \in [Windows -> Commands] /\ Shapes'
    <3>. HIDE DEF c
    <3>. QED  BY <2>1, <2>3, <2>4, CommandMoves
  <2>6. ptr' \in [Windows -> Sessions \union {Nobody}]
    BY <1>2, Rebinds DEF Cleanup, TypeOK
  <2>7. left' \in [commands : Nat, acts : Nat]
    <3>1. Spend
      BY <1>2 DEF Cleanup
    <3>. QED  BY <3>1 DEF Spend, TypeOK
  <2>8. UNCHANGED <<folders, known, ctxlock, branchVars>>
    BY <1>2 DEF Cleanup
  <2>. QED  BY <2>5, <2>6, <2>7, <2>8 DEF TypeOK, branchVars, folders
<1>3. ASSUME NEW r \in Repos, DropTree(a, r) PROVE TypeInv'
  <2>. DEFINE s == cmd[a].sid
              c == [cmd[a] EXCEPT !.at = "ref", !.now = {r}]
              t == [tree[s][r] EXCEPT !.there = FALSE, !.loose = {}]
  <2>1. s \in Sessions
    BY <1>1, <1>3 DEF DropTree, Shape
  <2>2. c \in Commands /\ Shape(c)
    BY <1>1, <1>3 DEF DropTree, Shape, Creating, Refreshing, Collapsing, Dropping, Commands, Places
  <2>3. cmd' = [cmd EXCEPT ![a] = c] /\ tree' = [tree EXCEPT ![s][r] = t]
    BY <1>3, <2>1 DEF DropTree, TypeOK
  <2>4. cmd' \in [Windows -> Commands] /\ Shapes'
    <3>. HIDE DEF c
    <3>. QED  BY <2>2, <2>3, CommandMoves
  <2>5. tree' \in [Sessions -> [Repos -> Trees]]
    <3>1. tree[s][r] \in Trees
      BY <2>1 DEF TypeOK
    <3>2. t \in Trees
      BY <3>1 DEF Trees
    <3>. HIDE DEF s, t
    <3>. QED  BY <2>1, <2>3, <3>2, TreeSet
  <2>. QED  BY <1>3, <2>4, <2>5 DEF DropTree, TypeOK, folders
<1>4. ASSUME NEW r \in Repos, DropRef(a, r) PROVE TypeInv'
  <2>. DEFINE s == cmd[a].sid
              rest == cmd[a].repos \ {r}
              after == IF rest = {} THEN "idle" ELSE "tree"
              c == [cmd[a] EXCEPT !.repos = rest, !.now = {}, !.copy.cleaned = @ \union {r},
                                  !.at = "write", !.then = after]
              d == [cmd[a] EXCEPT !.repos = rest, !.now = {}, !.at = "tree"]
  <2>1. s \in Sessions /\ cmd[a].at = "ref"
    BY <1>1, <1>4 DEF DropRef, Shape
  <2>2. c \in Commands /\ d \in Commands
    BY <1>1 DEF Commands, Places, Files
  <2>3. Shape(d)
    BY <1>1, <2>1 DEF Shape, Creating, Refreshing, Collapsing, Dropping, Commands
  <2>4. cmd[a].op = "cleanup" => Shape(c)
    BY <1>1, <2>1 DEF Shape, Creating, Refreshing, Collapsing, Dropping, Commands, Files,
       IsMerged, IsCollapsed
  <2>5. \/ cmd[a].op = "cleanup" /\ cmd' = [cmd EXCEPT ![a] = c]
        \/ cmd' = [cmd EXCEPT ![a] = d]
        \/ cmd' = [cmd EXCEPT ![a] = Idle]
    BY <1>1, <1>4 DEF DropRef, Commands
  <2>6. cmd' \in [Windows -> Commands] /\ Shapes'
    <3>. HIDE DEF c, d
    <3>. QED  BY <2>2, <2>3, <2>4, <2>5, Values, CommandMoves
  <2>7. tree' \in [Sessions -> [Repos -> Trees]]
    <3>1. tree' = [tree EXCEPT ![s][r] = NoTree]
      BY <1>4 DEF DropRef
    <3>. HIDE DEF s
    <3>. QED  BY <2>1, <3>1, TreeSet, Values
  <2>. QED  BY <1>4, <2>6, <2>7 DEF DropRef, TypeOK, folders
<1>5. CASE DropFails(a)
  BY <1>5, Left DEF DropFails, TypeOK, branchVars, folders
<1>. QED  BY <1>2, <1>3, <1>4, <1>5

LEMMA UserTypes == ASSUME TypeInv, UserStep PROVE TypeInv'
<1>. USE DEF TypeInv
<1>1. Act /\ cmd' = cmd /\ live' = live /\ trash' = trash /\ ptr' = ptr /\ known' = known
      /\ ctxlock' = ctxlock /\ base' = base /\ other' = other /\ mdlock' = mdlock /\ past' = past
  BY DEF UserStep, Commit, Edit, UserChanges, UserSwitches, folders
<1>2. left' \in [commands : Nat, acts : Nat]
  BY <1>1 DEF Act, TypeOK
<1>3. made' \subseteq Work /\ unclean' \subseteq Repos /\ head' \in [Repos -> {"base", "other"}]
  BY DEF UserStep, Commit, Edit, UserChanges, UserSwitches, TypeOK
<1>4. tree' \in [Sessions -> [Repos -> Trees]]
  <2>1. \A t \in Trees : Committed(t) \in Trees
    BY DEF Committed, Trees
  <2>2. \A t \in Trees, x \in Work : [t EXCEPT !.loose = @ \union {x}] \in Trees
    BY DEF Trees
  <2>3. tree \in [Sessions -> [Repos -> Trees]]
    BY DEF TypeOK
  <2>4. ASSUME NEW s \in Sessions, NEW r \in Repos, Commit(s, r)
        PROVE  tree' \in [Sessions -> [Repos -> Trees]]
    BY <2>1, <2>3, <2>4, TreeSet DEF Commit
  <2>5. ASSUME NEW s \in Sessions, NEW r \in Repos, NEW x \in Work, NEW commits \in BOOLEAN,
               Edit(s, r, x, commits)
        PROVE  tree' \in [Sessions -> [Repos -> Trees]]
    BY <2>1, <2>2, <2>3, <2>5, TreeSet DEF Edit
  <2>. QED  BY <2>3, <2>4, <2>5 DEF UserStep, UserChanges, UserSwitches
<1>. QED  BY <1>1, <1>2, <1>3, <1>4 DEF TypeOK, Shapes

LEMMA KillTypes == ASSUME TypeInv, NEW a \in Windows, Kill(a) PROVE TypeInv'
<1>1. left' \in [commands : Nat, acts : Nat]
  BY DEF Kill, Act, TypeInv, TypeOK
<1>. QED  BY <1>1, Left DEF Kill, TypeInv, TypeOK, gitVars, folders

LEMMA NextTypes == TypeInv /\ [Next]_vars => TypeInv'
<1>1. ASSUME TypeInv, NEW a \in Windows, SessionStep(a), UNCHANGED branchVars PROVE TypeInv'
  BY <1>1, StartTypes, CallTypes, DetachTypes, ForceTypes, FileStepTypes, ContextTypes,
     RecordTypes, SweepTypes DEF SessionStep, Detach, DetachStale
<1>2. ASSUME TypeInv, NEW a \in Windows, WorkflowStep(a) PROVE TypeInv'
  BY <1>2, CreateTypes, GrowTypes, FoundTypes, MergeTypes, CollapseTypes, CleanupTypes, KillTypes
     DEF WorkflowStep
<1>3. ASSUME TypeInv, UNCHANGED vars PROVE TypeInv'
  BY <1>3 DEF TypeInv, TypeOK, Shapes, vars, sessionVars, branchVars
<1>. QED  BY <1>1, <1>2, <1>3, UserTypes DEF Next

LEMMA InitTypes == Init => TypeInv
<1>. SUFFICES ASSUME Init PROVE TypeInv
  OBVIOUS
<1>1. PICK done \in SUBSET Branches, loose \in Loose : 
        /\ SessionInit(done)
        /\ tree = [s \in Sessions |-> [r \in Repos |->
                    IF s \in Branches THEN [NewTree EXCEPT !.loose = loose[<<s, r>>]] ELSE NoTree]]
        /\ made = UNION {loose[i] : i \in Branches \X Repos}
        /\ past = [s \in Sessions |->
                     [opened |-> IF s \in Branches THEN Repos ELSE {},
                      landed |-> IF s \in done THEN Repos ELSE {},
                      carried |-> FALSE, entries |-> {}]]
  BY DEF Init
<1>2. Branches \subseteq Sessions /\ Begun \subseteq Sessions /\ Root \in Sessions
  BY BegunAssumption
<1>3. \A i \in Branches \X Repos : loose[i] \subseteq Work
  BY DEF Loose
<1>4. tree \in [Sessions -> [Repos -> Trees]] /\ made \subseteq Work
  <2>1. \A s \in Branches, r \in Repos : loose[<<s, r>>] \subseteq Work
    BY <1>3
  <2>2. \A s \in Branches, r \in Repos : [NewTree EXCEPT !.loose = loose[<<s, r>>]] \in Trees
    BY <2>1, Values DEF Trees
  <2>. QED  BY <1>1, <1>3, <2>2, Values
<1>5. past \in [Sessions -> Pasts]
  BY <1>1 DEF Pasts
<1>6. live \in [Sessions -> Folders] /\ trash \in [Sessions -> Folders]
  <2>1. PICK e \in Entries, kept \in [Begun -> Entries], last \in Windows, again \in BOOLEAN :
          LET file == [Created(last) EXCEPT !.target = TRUE]
              stopped == [NoFolder EXCEPT !.file = file, !.ctx = {e}]
          IN  /\ \A w \in Windows : KindOf[w] = "claude" => KindOf[last] = "claude"
              /\ again => done = {}
              /\ live = [s \in Sessions |->
                   IF s = Root THEN IF again THEN [NoFolder EXCEPT !.file = file] ELSE stopped
                   ELSE IF s \in Begun
                   THEN [NoFolder EXCEPT !.ctx = {kept[s]}, !.file = Child(s, done)]
                   ELSE NoFolder]
              /\ trash = [s \in Sessions |-> IF again /\ s = Root THEN stopped ELSE NoFolder]
    <3>1. SessionInit(done)
      BY <1>1
    <3>. QED  BY <3>1, ZenonT(60) DEF SessionInit
  <2>. DEFINE file == [Created(last) EXCEPT !.target = TRUE]
              stopped == [NoFolder EXCEPT !.file = file, !.ctx = {e}]
  <2>2. file \in Files
    BY FilesMade DEF Files
  <2>3. stopped \in Folders /\ [NoFolder EXCEPT !.file = file] \in Folders
    <3>. HIDE DEF file
    <3>. QED  BY <2>2, Values DEF Folders
  <2>4. \A s \in Begun : Child(s, done) \in Files
    <3>1. ASSUME NEW m \in SUBSET Repos, NEW b \in BOOLEAN
          PROVE  [Missing EXCEPT !.merged = m, !.there = TRUE, !.target = TRUE, !.parent = Root,
                                 !.branch = b] \in Files
      BY <1>2 DEF Missing, Files
    <3>2. ASSUME NEW s \in Begun PROVE Child(s, done) \in Files
      <4>. DEFINE m == IF s \in done THEN Repos ELSE {}
                  b == s \in Branches
      <4>1. m \in SUBSET Repos /\ b \in BOOLEAN
        OBVIOUS
      <4>2. Child(s, done) = [Missing EXCEPT !.merged = m, !.there = TRUE, !.target = TRUE,
                                             !.parent = Root, !.branch = b]
        BY Zenon DEF Child
      <4>. HIDE DEF m, b
      <4>. QED  BY <3>1, <4>1, <4>2
    <3>. QED  BY <3>2
  <2>5. \A s \in Begun : [NoFolder EXCEPT !.ctx = {kept[s]}, !.file = Child(s, done)] \in Folders
    BY <2>4, Values DEF Folders
  <2>. QED  BY <2>1, <2>3, <2>5, Values
<1>7. /\ ptr \in [Windows -> Sessions \union {Nobody}] /\ known \subseteq Sessions
      /\ ctxlock \in [Sessions -> Windows \union {Nobody}]
      /\ cmd = [a \in Windows |-> Idle]
      /\ left \in [commands : Nat, acts : Nat]
  BY <1>1, <1>2, BudgetAssumption DEF SessionInit
<1>8. cmd \in [Windows -> Commands] /\ Shapes
  BY <1>7, Values DEF Shapes
<1>. QED  BY <1>4, <1>5, <1>6, <1>7, <1>8 DEF Init, TypeInv, TypeOK

LEMMA TypeInvariant == Spec => []TypeInv
BY InitTypes, NextTypes, PTL DEF Spec

(* Sessions, windows, commands, checkouts and worktrees are in a legal      *)
(* state.                                                                   *)
THEOREM TypeCorrect == Spec => []TypeOK
BY TypeInvariant, PTL DEF TypeInv

-----------------------------------------------------------------------------
(* What the commands on sessions do to files: whatever file is left         *)
(* anywhere claims what one that was there claimed, or nothing.             *)
Same(f, g) == f.merged = g.merged /\ f.into = g.into /\ f.cleaned = g.cleaned
Old(s, f) ==
    \/ Same(f, Missing) \/ Same(f, live[s].file) \/ Same(f, trash[s].file)
    \/ \E b \in Windows : cmd[b].sid = s /\ Same(f, cmd[b].copy)

Blank(s) == live[s] = NoFolder /\ trash[s] = NoFolder
Effects(a) ==
    /\ \A b \in Windows \ {a} : cmd'[b] = cmd[b]
    /\ \/ cmd'[a] = cmd[a] /\ cmd[a].at = "idle"
       \/ cmd'[a].op \notin {"create", "collapse"} /\ cmd'[a].at \notin {"grow", "child"}
    /\ known \subseteq known'
    /\ \A s \in Sessions :
          /\ Old(s, live'[s].file) /\ Old(s, trash'[s].file)
          /\ cmd'[a] # cmd[a] /\ cmd'[a].sid = s => Old(s, cmd'[a].copy)
    /\ \A s \in Sessions :
          Blank(s) /\ cmd[a].sid # s /\ (s \in known \/ s \notin known') =>
             Blank(s)' /\ (cmd'[a] # cmd[a] => cmd'[a].sid # s)

LEMMA Kept ==
    ASSUME TypeInv, NEW s \in Sessions
    PROVE  /\ Old(s, Missing) /\ Old(s, live[s].file) /\ Old(s, trash[s].file)
           /\ \A b \in Windows : cmd[b].sid = s => Old(s, cmd[b].copy)
BY DEF Old, Same

LEMMA SameIsOld ==
    ASSUME NEW s \in Sessions, NEW f, NEW g, Old(s, g), Same(f, g)
    PROVE  Old(s, f)
BY DEF Old, Same

LEMMA FormsOf ==
    ASSUME TypeInv
    PROVE  /\ \A s \in Sessions : Exists(s) => ~Blank(s)
           /\ \A a \in Windows : Same(Created(a), Missing)
           /\ \A a \in Windows, s \in Sessions : Same(AttachedFile(a, s), live[s].file)
           /\ \A w \in Windows, s \in Sessions : \A f \in Forgotten(w, s) : Same(f, live[s].file)
           /\ \A s \in Sessions : Trashed(s).file \in {live[s].file, trash[s].file}
           /\ \A s \in Sessions : Restored(s).file \in {live[s].file, trash[s].file}
           /\ \A s \in Sessions : Blank(s) => Trashed(s) = NoFolder
           /\ NoFolder.file = Missing
<1>. USE DEF TypeInv, Same
<1>1. \A s \in Sessions : live[s] \in Folders /\ trash[s] \in Folders
                          /\ live[s].file \in Files /\ trash[s].file \in Files
  BY FilesOf
<1>2. NoFolder.file = Missing /\ Missing.there = FALSE
  BY DEF NoFolder, Missing
<1>3. \A s \in Sessions : Exists(s) => ~Blank(s)
  BY <1>2 DEF Exists, Blank
<1>4. \A a \in Windows : Same(Created(a), Missing)
  BY DEF Created, Missing
<1>5. \A a \in Windows, s \in Sessions : Same(AttachedFile(a, s), live[s].file)
  BY <1>1 DEF AttachedFile, Files
<1>6. ASSUME NEW w \in Windows, NEW s \in Sessions, NEW f \in Forgotten(w, s)
      PROVE  Same(f, live[s].file)
  BY <1>1 DEF Forgotten, Files
<1>7. \A s \in Sessions : Trashed(s).file \in {live[s].file, trash[s].file}
  BY <1>1 DEF Trashed, Folders
<1>8. \A s \in Sessions : Restored(s).file \in {live[s].file, trash[s].file}
  BY DEF Restored
<1>9. \A s \in Sessions : Blank(s) => Trashed(s) = NoFolder
  BY DEF Blank, Trashed
<1>. QED  BY <1>2, <1>3, <1>4, <1>5, <1>6, <1>7, <1>8, <1>9

(* Writing one session's file or context leaves all else as it was.         *)
LEMMA AfterWrite ==
    ASSUME TypeInv, NEW s \in Sessions
    PROVE  /\ \A f : [live EXCEPT ![s].file = f][s].file = f
           /\ \A f : \A u \in Sessions \ {s} : [live EXCEPT ![s].file = f][u] = live[u]
           /\ \A x : [live EXCEPT ![s].ctx = x][s].file = live[s].file
           /\ \A x : \A u \in Sessions \ {s} : [live EXCEPT ![s].ctx = x][u] = live[u]
BY FilesOf DEF TypeInv, TypeOK, Folders

LEMMA AfterRelease ==
    ASSUME TypeInv, NEW a \in Windows, NEW s \in Sessions
    PROVE  \A u \in Sessions : /\ Same(Released(a, s)[u].file, live[u].file)
                               /\ Blank(u) => Released(a, s)[u] = NoFolder
<1>. SUFFICES ASSUME NEW u \in Sessions
              PROVE  /\ Same(Released(a, s)[u].file, live[u].file)
                     /\ Blank(u) => Released(a, s)[u] = NoFolder
  OBVIOUS
<1>1. live \in [Sessions -> Folders] /\ live[u].file \in Files /\ live[u] \in Folders
  BY FilesOf DEF TypeInv, TypeOK
<1>2. CASE Released(a, s) = live
  BY <1>2 DEF Same, Blank
<1>3. CASE Exists(ptr[a]) /\ Released(a, s) = [live EXCEPT ![ptr[a]].file.win[KindOf[a]] = Nobody]
  <2>1. u # ptr[a] => Released(a, s)[u] = live[u]
    BY <1>1, <1>3
  <2>2. u = ptr[a] => Same(Released(a, s)[u].file, live[u].file) /\ ~Blank(u)
    BY <1>1, <1>3, FormsOf DEF Same, Files, Folders
  <2>. QED  BY <2>1, <2>2 DEF Same, Blank
<1>. QED  BY <1>2, <1>3 DEF Released

LEMMA CallEffects ==
    ASSUME TypeInv, NEW a \in Windows, UNCHANGED branchVars,
           \/ \E env \in Sessions \union {Nobody} :
                \/ \E named \in BOOLEAN : Start(a, env, named) \/ Refresh(a, env, named)
                \/ \E s \in Sessions, op \in {"stop", "restart"} : Stop(a, op, env, s)
           \/ \E s \in Sessions : \/ Attach(a, s) \/ Restore(a, s)
                                 \/ \E e \in Entries : Record(a, s, e)
           \/ \E w \in Windows : Unanchor(a, w)
    PROVE  Effects(a)
<1>. USE DEF Effects
<1>0. /\ live \in [Sessions -> Folders] /\ trash \in [Sessions -> Folders]
      /\ cmd \in [Windows -> Commands] /\ known \subseteq Sessions
      /\ ptr \in [Windows -> Sessions \union {Nobody}]
  BY DEF TypeInv, TypeOK
<1>1. ASSUME NEW env \in Sessions \union {Nobody}, NEW named \in BOOLEAN, Start(a, env, named)
      PROVE  Effects(a)
  <2>. DEFINE s == Resolved(a, env)
              c(n) == [Idle EXCEPT !.op = "start", !.sid = n,
                                   !.at = IF named THEN "identify" ELSE "context"]
  <2>1. \A n : c(n).op = "start" /\ c(n).at \in {"identify", "context"} /\ c(n).sid = n
               /\ c(n).copy = Missing
    BY DEF Idle
  <2>2. trash' = trash
    BY <1>1 DEF Start
  <2>3. CASE s # Nobody /\ cmd' = [cmd EXCEPT ![a] = c(s)] /\ live' = live /\ known' = known
    <3>1. s \in Sessions /\ ~Blank(s)
      BY <2>3, Rebinds, FormsOf DEF TypeInv
    <3>. HIDE DEF c, s
    <3>. QED  BY <1>0, <2>1, <2>2, <2>3, <3>1, Kept DEF Blank
  <2>4. ASSUME NEW n \in Sessions \ known, cmd' = [cmd EXCEPT ![a] = c(n)],
               live' = [live EXCEPT ![n].file = Created(a)], known' = known \union {n}
        PROVE  Effects(a)
    <3>1. \A u \in Sessions : Old(u, live'[u].file)
      BY <2>4, AfterWrite, Kept, FormsOf, SameIsOld
    <3>2. \A u \in Sessions \ {n} : live'[u] = live[u]
      BY <2>4, AfterWrite
    <3>. HIDE DEF c, s
    <3>. QED  BY <1>0, <2>1, <2>2, <2>4, <3>1, <3>2, Kept DEF Blank
  <2>. QED  BY <1>1, <2>3, <2>4 DEF Start
<1>2. ASSUME NEW env \in Sessions \union {Nobody}, NEW named \in BOOLEAN, Refresh(a, env, named)
      PROVE  Effects(a)
  <2>. DEFINE s == Resolved(a, env)
              c == [Idle EXCEPT !.at = IF named THEN "identify" ELSE "context", !.op = "refresh",
                                !.sid = s]
  <2>1. c.op = "refresh" /\ c.at \in {"identify", "context"} /\ c.sid = s /\ c.copy = Missing
    BY DEF Idle
  <2>2. s \in Sessions /\ ~Blank(s)
    BY <1>2, Rebinds, FormsOf DEF TypeInv, Refresh
  <2>3. cmd' = [cmd EXCEPT ![a] = c] /\ UNCHANGED <<live, trash, known>>
    BY <1>2 DEF Refresh, Call
  <2>. HIDE DEF c, s
  <2>. QED  BY <1>0, <2>1, <2>2, <2>3, Kept DEF Blank
<1>3. ASSUME NEW env \in Sessions \union {Nobody}, NEW s \in Sessions,
             NEW op \in {"stop", "restart"}, Stop(a, op, env, s)
      PROVE  Effects(a)
  <2>. DEFINE c == [Idle EXCEPT !.at = "remove", !.op = op, !.sid = s]
  <2>1. c.op \in {"stop", "restart"} /\ c.at = "remove" /\ c.sid = s /\ c.copy = Missing
    BY DEF Idle
  <2>2. ~Blank(s)
    BY <1>3, Rebinds, FormsOf DEF TypeInv, Stop
  <2>3. /\ cmd' = [cmd EXCEPT ![a] = c] /\ known' = known
        /\ live' = [live EXCEPT ![s] = NoFolder] /\ trash' = [trash EXCEPT ![s] = Trashed(s)]
    BY <1>3 DEF Stop, Call
  <2>4. \A u \in Sessions : Old(u, live'[u].file) /\ Old(u, trash'[u].file)
    BY <1>0, <2>3, FormsOf, Kept
  <2>. HIDE DEF c
  <2>. QED  BY <1>0, <2>1, <2>2, <2>3, <2>4, Kept DEF Blank
<1>4. ASSUME NEW s \in Sessions, Attach(a, s) PROVE Effects(a)
  <2>. DEFINE c == [Idle EXCEPT !.at = "write", !.op = "attach", !.sid = s,
                                !.copy = AttachedFile(a, s)]
  <2>1. c.op = "attach" /\ c.at = "write" /\ c.sid = s /\ c.copy = AttachedFile(a, s)
    BY DEF Idle
  <2>2. ~Blank(s)
    BY <1>4, FormsOf DEF Attach, Named
  <2>3. /\ cmd' = [cmd EXCEPT ![a] = c] /\ UNCHANGED <<trash, known>> /\ live' = Released(a, s)
    BY <1>4 DEF Attach, CallWriting
  <2>4. \A u \in Sessions : Old(u, live'[u].file) /\ (Blank(u) => live'[u] = NoFolder)
    BY <2>3, AfterRelease, Kept, SameIsOld
  <2>5. Old(s, AttachedFile(a, s))
    BY FormsOf, Kept, SameIsOld
  <2>. HIDE DEF c
  <2>. QED  BY <1>0, <2>1, <2>2, <2>3, <2>4, <2>5, Kept DEF Blank
<1>5. ASSUME NEW s \in Sessions, Restore(a, s) PROVE Effects(a)
  <2>1. /\ cmd' = cmd /\ cmd[a].at = "idle" /\ known' = known /\ ~Blank(s)
        /\ live' = [live EXCEPT ![s] = Restored(s)] /\ trash' = [trash EXCEPT ![s] = NoFolder]
    BY <1>5 DEF Restore, Blank
  <2>2. \A u \in Sessions : Old(u, live'[u].file) /\ Old(u, trash'[u].file)
    BY <1>0, <2>1, FormsOf, Kept
  <2>. QED  BY <1>0, <2>1, <2>2 DEF Blank
<1>6. ASSUME NEW s \in Sessions, NEW e \in Entries, Record(a, s, e) PROVE Effects(a)
  <2>. DEFINE c == [Idle EXCEPT !.at = "record", !.op = "record", !.sid = s,
                                !.new = {e}, !.text = Text(live[s].ctx)]
  <2>1. c.op = "record" /\ c.at = "record" /\ c.sid = s /\ c.copy = Missing
    BY DEF Idle
  <2>2. ~Blank(s)
    BY <1>6, FormsOf DEF Record
  <2>3. cmd' = [cmd EXCEPT ![a] = c] /\ UNCHANGED <<live, trash, known>>
    BY <1>6 DEF Record
  <2>. HIDE DEF c
  <2>. QED  BY <1>0, <2>1, <2>2, <2>3, Kept DEF Blank
<1>7. ASSUME NEW w \in Windows, Unanchor(a, w) PROVE Effects(a)
  <2>1. ptr[w] \in Sessions /\ UNCHANGED <<live, trash, known>>
    BY <1>0, <1>7 DEF Unanchor
  <2>2. CASE cmd' = cmd /\ cmd[a].at = "idle"
    BY <2>1, <2>2, Kept DEF Blank
  <2>3. ASSUME Exists(ptr[w]), NEW f \in Forgotten(w, ptr[w]), CallWriting(a, "detach", ptr[w], f)
        PROVE  Effects(a)
    <3>. DEFINE s == ptr[w]
                c == [Idle EXCEPT !.at = "write", !.op = "detach", !.sid = s, !.copy = f]
    <3>1. c.op = "detach" /\ c.at = "write" /\ c.sid = s /\ c.copy = f
      BY DEF Idle
    <3>2. ~Blank(s)
      BY <2>1, <2>3, FormsOf
    <3>3. Old(s, f)
      BY <2>1, <2>3, FormsOf, Kept, SameIsOld
    <3>4. cmd' = [cmd EXCEPT ![a] = c]
      BY <2>3 DEF CallWriting
    <3>. HIDE DEF c, s
    <3>. QED  BY <1>0, <2>1, <3>1, <3>2, <3>3, <3>4, Kept DEF Blank
  <2>. QED  BY <1>7, <2>2, <2>3 DEF Unanchor
<1>. QED  BY <1>1, <1>2, <1>3, <1>4, <1>5, <1>6, <1>7

LEMMA ForceEffects ==
    ASSUME TypeInv, NEW a \in Windows, UNCHANGED branchVars,
           \/ ForceStop(a) \/ ForceLast(a) \/ (\E s \in Sessions : ForceOne(a, s))
           \/ (\E old \in SUBSET Sessions : Clean(a, old))
    PROVE  Effects(a)
<1>. USE DEF Effects
<1>0. /\ live \in [Sessions -> Folders] /\ trash \in [Sessions -> Folders]
      /\ cmd \in [Windows -> Commands] /\ known \subseteq Sessions
      /\ cmd[a] \in Commands /\ Shape(cmd[a])
  BY DEF TypeInv, TypeOK, Shapes
<1>1. Idle.sid = Nobody /\ Idle.op = "none" /\ Idle.at = "idle" /\ Nobody \notin Sessions
  BY Values DEF Idle
<1>2. CASE ForceStop(a)
  <2>. DEFINE c == [Idle EXCEPT !.at = "force", !.op = "force",
                                !.ids = {s \in Sessions : live[s].file.there}]
  <2>1. c.sid = Nobody /\ c.op = "force" /\ c.at = "force"
    BY DEF Idle
  <2>2. cmd' = [cmd EXCEPT ![a] = c] /\ UNCHANGED <<live, trash, known>>
    BY <1>2 DEF ForceStop
  <2>. HIDE DEF c
  <2>. QED  BY <1>0, <1>1, <2>1, <2>2, Kept DEF Blank
<1>3. CASE ForceLast(a)
  BY <1>0, <1>1, <1>3, Kept DEF ForceLast, Leave, Blank
<1>4. ASSUME NEW s \in Sessions, ForceOne(a, s) PROVE Effects(a)
  <2>1. cmd[a].op = "force" /\ cmd[a].at = "force" /\ known' = known
    BY <1>0, <1>4 DEF ForceOne, Shape
  <2>2. CASE cmd' = [cmd EXCEPT ![a] = Idle] /\ UNCHANGED <<live, trash>>
    BY <1>0, <1>1, <2>1, <2>2, Kept DEF Blank
  <2>3. CASE /\ cmd' = [cmd EXCEPT ![a].ids = @ \ {s}]
             /\ live' = [live EXCEPT ![s] = NoFolder] /\ trash' = [trash EXCEPT ![s] = Trashed(s)]
    <3>1. \A u \in Sessions : Old(u, live'[u].file) /\ Old(u, trash'[u].file)
      BY <1>0, <2>3, FormsOf, Kept
    <3>2. \A u \in Sessions : Blank(u) => live'[u] = NoFolder /\ trash'[u] = NoFolder
      BY <1>0, <2>3, FormsOf DEF Blank
    <3>3. /\ \A b \in Windows \ {a} : cmd'[b] = cmd[b]
          /\ cmd'[a].op = cmd[a].op /\ cmd'[a].at = cmd[a].at /\ cmd'[a].sid = cmd[a].sid
          /\ cmd'[a].copy = cmd[a].copy
      BY <1>0, <2>3 DEF Commands
    <3>. QED  BY <2>1, <3>1, <3>2, <3>3, Kept DEF Blank
  <2>. QED  BY <1>4, <2>2, <2>3 DEF ForceOne, Leave
<1>5. ASSUME NEW old \in SUBSET Sessions, Clean(a, old) PROVE Effects(a)
  <2>1. cmd' = cmd /\ cmd[a].at = "idle" /\ known' = known /\ trash' = trash
    BY <1>5 DEF Clean
  <2>2. \A u \in Sessions : /\ live'[u].file = Missing \/ live'[u] = live[u]
                            /\ Blank(u) => live'[u] = live[u]
    BY <1>0, <1>5, FormsOf DEF Clean, Folders
  <2>. QED  BY <2>1, <2>2, Kept DEF Blank
<1>. QED  BY <1>2, <1>3, <1>4, <1>5

LEMMA FileStepEffects ==
    ASSUME TypeInv, NEW a \in Windows, UNCHANGED branchVars,
           \/ Identify(a) \/ Stamp(a) \/ Write(a) \/ Remove(a)
           \/ Context(a) \/ Resync(a) \/ RecordWrite(a)
    PROVE  Effects(a)
<1>. USE DEF Effects
<1>. DEFINE s == cmd[a].sid
<1>0. /\ live \in [Sessions -> Folders] /\ trash \in [Sessions -> Folders]
      /\ cmd \in [Windows -> Commands] /\ known' = known /\ trash' = trash
      /\ cmd[a] \in Commands /\ Shape(cmd[a])
  BY DEF TypeInv, TypeOK, Shapes, Identify, Stamp, Write, Remove, Context, Resync, RecordWrite
<1>1. s \in Sessions
  BY <1>0 DEF Shape, Identify, Stamp, Write, Remove, Context, Resync, RecordWrite
<1>2. Idle.sid = Nobody /\ Idle.op = "none" /\ Idle.at = "idle" /\ Nobody \notin Sessions
  BY Values DEF Idle
<1>3. /\ \A u \in Sessions : Old(u, live'[u].file)
      /\ \A u \in Sessions \ {s} : live'[u] = live[u]
  <2>1. \/ live' = live
        \/ live' = [live EXCEPT ![s].file = cmd[a].copy] 
        \/ live' = [live EXCEPT ![s].file = Missing]
        \/ \E x : live' = [live EXCEPT ![s].ctx = x]
    BY DEF Identify, Stamp, Write, Remove, Context, Resync, RecordWrite
  <2>2. Old(s, cmd[a].copy) /\ Old(s, Missing) /\ Old(s, live[s].file)
    BY <1>1, Kept
  <2>. HIDE DEF s
  <2>3. CASE live' = live
    BY <2>3, Kept
  <2>4. ASSUME NEW f, live' = [live EXCEPT ![s].file = f], Old(s, f)
        PROVE  <1>3
    <3>1. live'[s].file = f /\ \A u \in Sessions \ {s} : live'[u] = live[u]
      BY <1>1, <2>4, AfterWrite
    <3>2. ASSUME NEW u \in Sessions PROVE Old(u, live'[u].file)
      <4>1. CASE u = s
        BY <2>4, <3>1, <4>1
      <4>2. CASE u # s
        BY <3>1, <4>2, Kept
      <4>. QED  BY <4>1, <4>2
    <3>. QED  BY <3>1, <3>2
  <2>5. ASSUME NEW x, live' = [live EXCEPT ![s].ctx = x]
        PROVE  <1>3
    <3>1. live'[s].file = live[s].file /\ \A u \in Sessions \ {s} : live'[u] = live[u]
      BY <1>1, <2>5, AfterWrite
    <3>2. ASSUME NEW u \in Sessions PROVE Old(u, live'[u].file)
      <4>1. live'[u].file = live[u].file
        BY <3>1
      <4>. QED  BY <4>1, Kept
    <3>. QED  BY <3>1, <3>2
  <2>. QED  BY <2>1, <2>2, <2>3, <2>4, <2>5
<1>4. /\ \A b \in Windows \ {a} : cmd'[b] = cmd[b]
      /\ \/ cmd'[a] = Idle
         \/ /\ cmd'[a].sid = s /\ cmd'[a].op = cmd[a].op
            /\ Old(s, cmd'[a].copy)
            /\ \/ cmd[a].op \in {"start", "refresh"}
               \/ cmd[a].at = "remove" /\ cmd[a].op = "restart"
               \/ cmd[a].at = "write" /\ cmd[a].op = "cleanup"
            /\ cmd'[a].at \in {"write", "context", "resync", "scan", "tree", "restart"}
  <2>0. Old(s, cmd[a].copy) /\ Old(s, live[s].file)
    BY <1>1, Kept
  <2>1. CASE Leave(a)
    BY <1>0, <2>1 DEF Leave
  <2>2. ASSUME NEW f, NEW p, WriteBack(a, f, p), Identify(a) \/ Stamp(a), Same(f, live[s].file)
        PROVE  <1>4!1 /\ <1>4!2!2
    <3>1. Old(s, f)
      BY <1>1, <2>0, <2>2, SameIsOld
    <3>2. cmd[a].op \in {"start", "refresh"}
      BY <1>0, <2>2 DEF Identify, Stamp, Shape, Refreshing
    <3>. QED  BY <1>0, <2>2, <3>1, <3>2 DEF WriteBack, Commands
  <2>3. CASE Identify(a)
    <3>1. Same([live[s].file EXCEPT !.target = TRUE], live[s].file)
      <4>1. live[s].file \in Files
        BY <1>1, FilesOf DEF TypeInv
      <4>. QED  BY <4>1 DEF Same, Files
    <3>. QED  BY <2>1, <2>2, <2>3, <3>1 DEF Identify
  <2>4. CASE Stamp(a)
    BY <2>1, <2>2, <2>4 DEF Stamp, Same
  <2>5. CASE Write(a)
    <3>1. \/ Leave(a)
          \/ /\ Goto(a, cmd[a].then) /\ cmd[a].op \in {"start", "refresh", "cleanup"}
             /\ cmd[a].then \in {"context", "tree"}
      BY <1>0, <2>5 DEF Write, GotoOrLeave, Shape
    <3>. QED  BY <1>0, <2>0, <2>1, <2>5, <3>1 DEF Goto, Commands, Write
  <2>6. CASE Remove(a)
    BY <1>0, <2>0, <2>1, <2>6 DEF Remove, GotoOrLeave, Goto, Commands
  <2>7. CASE Context(a) \/ Resync(a)
    <3>1. cmd[a].op \in {"start", "refresh"}
      BY <1>0, <2>7 DEF Context, Resync, Shape, Refreshing
    <3>. QED  BY <1>0, <2>0, <2>1, <2>7, <3>1 DEF Context, Resync, Goto, Commands
  <2>8. CASE RecordWrite(a)
    BY <2>1, <2>8 DEF RecordWrite
  <2>. QED  BY <2>3, <2>4, <2>5, <2>6, <2>7, <2>8
<1>. HIDE DEF s
<1>5. cmd[a].sid = s
  BY DEF s
<1>. QED  BY <1>0, <1>1, <1>2, <1>3, <1>4, <1>5, Kept DEF Blank

LEMMA SweepEffects ==
    ASSUME TypeInv, NEW a \in Windows, UNCHANGED branchVars,
           \/ Scan(a) \/ Sweep(a)
           \/ \E old, gone \in SUBSET Sessions : SweepBare(a, old, gone)
    PROVE  Effects(a)
<1>. USE DEF Effects
<1>0. /\ live \in [Sessions -> Folders] /\ trash \in [Sessions -> Folders]
      /\ cmd \in [Windows -> Commands] /\ known' = known
      /\ cmd[a] \in Commands /\ Shape(cmd[a])
  BY DEF TypeInv, TypeOK, Shapes, Scan, Sweep, SweepBare
<1>1. cmd[a].op \in {"start", "refresh"} /\ cmd[a].sid \in Sessions
  BY <1>0 DEF Shape, Refreshing, Scan, Sweep, SweepBare
<1>2. Idle.sid = Nobody /\ Idle.op = "none" /\ Idle.at = "idle" /\ Nobody \notin Sessions
  BY Values DEF Idle
<1>3. /\ \A b \in Windows \ {a} : cmd'[b] = cmd[b]
      /\ \/ cmd'[a] = Idle
         \/ /\ cmd'[a].sid = cmd[a].sid /\ cmd'[a].op = cmd[a].op /\ cmd'[a].copy = cmd[a].copy
            /\ cmd'[a].at \in {"sweep", "bare", "stamp"}
  BY <1>0 DEF Scan, Sweep, SweepBare, GotoOrLeave, Goto, Leave, Commands
<1>4. \A u \in Sessions : /\ live'[u] \in {live[u], NoFolder}
                          /\ trash'[u].file \in {live[u].file, trash[u].file, Missing}
                          /\ Blank(u) => trash'[u] = NoFolder
  BY <1>0, FormsOf DEF Scan, Sweep, SweepBare, Blank
<1>. QED  BY <1>0, <1>1, <1>2, <1>3, <1>4, FormsOf, Kept DEF Blank

LEMMA SessionEffects ==
    ASSUME TypeInv, NEW a \in Windows, SessionStep(a), UNCHANGED branchVars
    PROVE  Effects(a)
BY CallEffects, ForceEffects, FileStepEffects, SweepEffects DEF SessionStep, Detach, DetachStale

-----------------------------------------------------------------------------
(* The invariant: a session not minted yet, and one whose branches are      *)
(* being made, is in nobody else's hands; one command at most makes a       *)
(* session; a branch is removed by a command that has made it, or has seen  *)
(* it merged and its context carried over.                                  *)
Touches(c, s) == c.sid = s \/ (c.op = "collapse" /\ c.copy.parent = s)
Untouched(s) ==
    /\ Blank(s)
    /\ past[s].opened = {}
    /\ \A r \in Repos : tree[s][r] = NoTree
    /\ \A a \in Windows : ~Touches(cmd[a], s)
Fresh == \A s \in Sessions \ known : Untouched(s)
Grows(a, s) ==
    /\ s \in known
    /\ Blank(s)
    /\ cmd[a].copy.cleaned = {}
    /\ \A r \in cmd[a].repos : tree[s][r] = NoTree
    /\ \A b \in Windows \ {a} : ~Touches(cmd[b], s)
Growing == \A a \in Windows : cmd[a].at = "grow" => Grows(a, cmd[a].sid)
Making == Creating \union {"tree", "ref"}
Makers ==
    \A a \in Windows : cmd[a].op = "create" =>
        /\ cmd[a].at \in Making => past[cmd[a].sid].opened = {}
        /\ \A b \in Windows \ {a} : cmd[b].op = "create" => cmd[b].sid # cmd[a].sid
Carried == \A a \in Windows : cmd[a].at = "child" => past[cmd[a].sid].carried
LooseIn == \A s \in Sessions, r \in Repos : ~tree[s][r].there => tree[s][r].loose = {}

Inv ==
    /\ TypeInv
    /\ ClaimsHold /\ GoneOnlyAfter /\ WorkIsKept
    /\ Fresh /\ Growing /\ Makers /\ Carried /\ LooseIn

(* What every step of a command does for the parts that are about commands. *)
HonestThen(s, f) ==
    /\ f.merged \subseteq past'[s].landed
    /\ f.into # Nobody => past'[s].carried
    /\ \A r \in f.cleaned : ~tree'[s][r].there /\ ~tree'[s][r].ref
Onward ==
    \A s \in Sessions :
        /\ past[s].landed \subseteq past'[s].landed
        /\ past[s].carried => past'[s].carried
        /\ \A r \in Repos : ~tree[s][r].there /\ ~tree[s][r].ref =>
              \/ ~tree'[s][r].there /\ ~tree'[s][r].ref
              \/ \A f : Old(s, f) => r \notin f.cleaned
Spares(a) ==
    \A s \in Sessions :
        Blank(s) /\ ~Touches(cmd[a], s) /\ (s \in known \/ s \notin known') =>
          /\ Blank(s)' /\ ~Touches(cmd'[a], s)
          /\ tree'[s] = tree[s] /\ past'[s].opened = past[s].opened
Proceeds(a) ==
    /\ cmd'[a].sid \in Sessions =>
          Old(cmd'[a].sid, cmd'[a].copy) \/ HonestThen(cmd'[a].sid, cmd'[a].copy)
    /\ cmd'[a].at = "grow" => Grows(a, cmd[a].sid)'
    /\ cmd'[a].op = "create" =>
          /\ cmd'[a].at \in Making => past'[cmd'[a].sid].opened = {}
          /\ \A b \in Windows \ {a} : cmd[b].op = "create" => cmd[b].sid # cmd'[a].sid
    /\ cmd'[a].at = "child" => past'[cmd'[a].sid].carried
Careful(a) ==
    /\ \A b \in Windows \ {a} : cmd'[b] = cmd[b]
    /\ known \subseteq known'
    /\ \A s \in Sessions : Old(s, live'[s].file) \/ HonestThen(s, live'[s].file)
    /\ \A s \in Sessions : Old(s, trash'[s].file)
    /\ \A s \in Sessions : past'[s].opened # past[s].opened =>
                           cmd[a].op = "create" /\ cmd[a].sid = s
    /\ Spares(a) /\ Proceeds(a)

LEMMA HonestStays ==
    ASSUME TypeInv, ClaimsHold, Onward, NEW s \in Sessions, NEW f, Old(s, f)
    PROVE  HonestThen(s, f)
<1>1. PICK g : Same(f, g) /\ Honest(s, g) /\ g \in Files
  <2>1. Missing \in Files /\ live[s].file \in Files /\ trash[s].file \in Files
    BY FilesOf, Values DEF TypeInv
  <2>3. \A b \in Windows : cmd[b].copy \in Files
    BY DEF TypeInv, TypeOK, Commands
  <2>2. Honest(s, Missing)
    BY DEF Honest, Missing
  <2>. QED  BY <2>1, <2>2, <2>3 DEF Old, ClaimsHold
<1>2. g.cleaned \subseteq Repos
  BY <1>1 DEF Files
<1>. QED  BY <1>1, <1>2 DEF Same, Honest, HonestThen, Onward

LEMMA CarefulKeeps ==
    ASSUME Inv, NEW a \in Windows, Careful(a), Onward
    PROVE  ClaimsHold' /\ Fresh' /\ Growing' /\ Makers' /\ Carried'
<1>. USE DEF Inv, Careful
<1>0. \A b \in Windows : cmd[b].at # "idle" /\ cmd[b].at # "force" => cmd[b].sid \in Sessions
  BY DEF TypeInv, Shapes, Shape
<1>1. ClaimsHold'
  <2>1. \A s \in Sessions : HonestThen(s, live'[s].file) /\ HonestThen(s, trash'[s].file)
    BY HonestStays
  <2>2. ASSUME NEW s \in Sessions, NEW b \in Windows, cmd'[b].sid = s
        PROVE  HonestThen(s, cmd'[b].copy)
    <3>1. CASE b = a
      BY <2>2, <3>1, HonestStays DEF Proceeds
    <3>2. CASE b # a
      <4>1. Old(s, cmd'[b].copy)
        BY <2>2, <3>2, Kept
      <4>. QED  BY <4>1, HonestStays
    <3>. QED  BY <3>1, <3>2
  <2>. QED  BY <2>1, <2>2 DEF ClaimsHold, Honest, HonestThen
<1>2. Fresh'
  BY DEF Fresh, Untouched, Spares
<1>3. ASSUME NEW b \in Windows, cmd'[b].at = "grow" PROVE Grows(b, cmd[b].sid)'
  <2>1. CASE b = a
    BY <1>3, <2>1 DEF Proceeds
  <2>2. CASE b # a
    <3>. DEFINE s == cmd[b].sid
    <3>1. cmd'[b] = cmd[b] /\ Grows(b, s) /\ s \in Sessions
      BY <1>0, <1>3, <2>2 DEF Growing
    <3>2. Blank(s)' /\ ~Touches(cmd'[a], s) /\ tree'[s] = tree[s] /\ s \in known'
      BY <2>2, <3>1 DEF Grows, Spares
    <3>. QED  BY <2>2, <3>1, <3>2 DEF Grows
  <2>. QED  BY <2>1, <2>2
<1>4. Makers'
  <2>1. ASSUME NEW b \in Windows, cmd'[b].op = "create", cmd'[b].at \in Making
        PROVE  past'[cmd'[b].sid].opened = {}
    <3>1. CASE b = a
      BY <2>1, <3>1 DEF Proceeds
    <3>2. CASE b # a
      <4>1. cmd[b].sid \in Sessions /\ past[cmd[b].sid].opened = {} /\ cmd'[b] = cmd[b]
        BY <1>0, <2>1, <3>2 DEF Makers, Making, Creating
      <4>2. ~(cmd[a].op = "create" /\ cmd[a].sid = cmd[b].sid)
        BY <2>1, <3>2, <4>1 DEF Makers
      <4>. QED  BY <4>1, <4>2
    <3>. QED  BY <3>1, <3>2
  <2>2. ASSUME NEW b \in Windows, NEW d \in Windows \ {b}, cmd'[b].op = "create",
               cmd'[d].op = "create"
        PROVE  cmd'[d].sid # cmd'[b].sid
    BY <2>2 DEF Proceeds, Makers
  <2>. QED  BY <2>1, <2>2 DEF Makers
<1>5. Carried'
  <2>1. ASSUME NEW b \in Windows, cmd'[b].at = "child" PROVE past'[cmd'[b].sid].carried
    <3>1. CASE b = a
      BY <2>1, <3>1 DEF Proceeds
    <3>2. CASE b # a
      BY <1>0, <2>1, <3>2 DEF Carried, Onward
    <3>. QED  BY <3>1, <3>2
  <2>. QED  BY <2>1 DEF Carried
<1>. QED  BY <1>1, <1>2, <1>3, <1>4, <1>5 DEF Growing

(* When only commands and files change.                                     *)
LEMMA TreesKept ==
    ASSUME Inv, UNCHANGED <<tree, past, base, other, made>>
    PROVE  Onward /\ GoneOnlyAfter' /\ WorkIsKept' /\ LooseIn'
BY DEF Inv, Onward, GoneOnlyAfter, WorkIsKept, LooseIn

LEMMA SessionKeeps ==
    ASSUME Inv, TypeInv', NEW a \in Windows, SessionStep(a), UNCHANGED branchVars
    PROVE  Inv'
<1>1. Effects(a) /\ UNCHANGED <<tree, past, base, other, made>>
  BY SessionEffects DEF Inv, branchVars
<1>2. \A b \in Windows : cmd[b].at = "grow" => cmd[b].op = "create"
  BY DEF Inv, TypeInv, Shapes, Shape, Creating
<1>3. Spares(a)
  BY <1>1 DEF Effects, Spares, Touches
<1>4. Proceeds(a)
  <2>1. CASE cmd'[a] = cmd[a] /\ cmd[a].at = "idle"
    BY <1>1, <2>1, Kept DEF Proceeds, Inv, Makers, Making, Creating
  <2>2. CASE cmd'[a].op \notin {"create", "collapse"} /\ cmd'[a].at \notin {"grow", "child"}
    BY <1>1, <2>2, Kept DEF Proceeds, Effects, Inv
  <2>. QED  BY <1>1, <2>1, <2>2 DEF Effects
<1>5. Careful(a)
  BY <1>1, <1>3, <1>4 DEF Careful, Effects
<1>. QED  BY <1>1, <1>5, CarefulKeeps, TreesKept DEF Inv

-----------------------------------------------------------------------------
(* The steps that change no file, worktree or history.                      *)
LEMMA CommandKeeps ==
    ASSUME Inv, TypeInv', NEW a \in Windows, NEW c \in Commands,
           cmd' = [cmd EXCEPT ![a] = c],
           UNCHANGED <<live, trash, known, tree, past, base, other, made>>,
           c.sid \in Sessions => Old(c.sid, c.copy),
           \A s \in Sessions : Blank(s) /\ ~Touches(cmd[a], s) => ~Touches(c, s),
           c.at \notin {"grow", "child"},
           c.op = "create" => /\ cmd[a].op = "create" /\ c.sid = cmd[a].sid
                              /\ c.at \in Making => cmd[a].at \in Making
    PROVE  Inv'
<1>1. cmd'[a] = c /\ \A b \in Windows \ {a} : cmd'[b] = cmd[b]
  BY DEF Inv, TypeInv, TypeOK
<1>2. Spares(a)
  BY <1>1 DEF Spares, Blank
<1>3. Proceeds(a)
  BY <1>1 DEF Proceeds, Inv, Makers
<1>4. Careful(a)
  BY <1>1, <1>2, <1>3, Kept DEF Careful, Inv
<1>. QED  BY <1>4, CarefulKeeps, TreesKept DEF Inv

LEMMA LeavingKeeps ==
    ASSUME Inv, TypeInv', NEW a \in Windows, Leave(a),
           UNCHANGED <<live, trash, known, tree, past, base, other, made>>
    PROVE  Inv'
<1>1. /\ Idle \in Commands /\ Idle.sid = Nobody /\ Idle.op = "none" /\ Idle.at = "idle"
      /\ Nobody \notin Sessions
  BY Values DEF Idle
<1>2. \A s \in Sessions : ~Touches(Idle, s)
  BY <1>1 DEF Touches
<1>3. cmd' = [cmd EXCEPT ![a] = Idle]
  BY DEF Leave
<1>. QED  BY <1>1, <1>2, <1>3, CommandKeeps

(* The workflow commands that begin on a session there is.                  *)
LEMMA BeginKeeps ==
    ASSUME Inv, TypeInv', NEW a \in Windows, NEW env \in Sessions \union {Nobody},
           NEW s \in Sessions,
           (\E r \in Repos : Merge(a, env, s, r)) \/ Collapse(a, env, s) \/ Cleanup(a, env, s)
    PROVE  Inv'
<1>. DEFINE f == live[s].file
<1>1. Exists(s) /\ ~Blank(s) /\ Old(s, f)
  BY Kept, FormsOf DEF Inv, Merge, Collapse, Cleanup
<1>2. UNCHANGED <<live, trash, known, tree, past, base, other, made>>
  BY DEF Merge, Collapse, Cleanup, folders, branchVars
<1>3. ASSUME NEW r \in Repos, Merge(a, env, s, r) PROVE Inv'
  <2>. DEFINE c == [Idle EXCEPT !.at = "merge", !.op = "merge", !.sid = s, !.repos = {r},
                                !.copy = f]
  <2>1. c.at = "merge" /\ c.op = "merge" /\ c.sid = s /\ c.copy = f
    BY DEF Idle
  <2>2. cmd' = [cmd EXCEPT ![a] = c]
    BY <1>3 DEF Merge
  <2>3. c \in Commands
    BY <2>2 DEF Inv, TypeInv, TypeOK
  <2>. HIDE DEF c, f
  <2>. QED  BY <1>1, <1>2, <2>1, <2>2, <2>3, CommandKeeps DEF Touches
<1>4. ASSUME Collapse(a, env, s) PROVE Inv'
  <2>. DEFINE c == [Idle EXCEPT !.at = "lock", !.op = "collapse", !.sid = s, !.copy = f,
                                !.new = Text(live[s].ctx)]
  <2>1. c.at = "lock" /\ c.op = "collapse" /\ c.sid = s /\ c.copy = f
    BY DEF Idle
  <2>2. cmd' = [cmd EXCEPT ![a] = c] /\ Exists(f.parent)
    BY <1>4 DEF Collapse
  <2>3. c \in Commands
    BY <2>2 DEF Inv, TypeInv, TypeOK
  <2>4. \A u \in Sessions : Blank(u) => u # f.parent
    BY <2>2, FormsOf DEF Inv
  <2>. HIDE DEF c, f
  <2>. QED  BY <1>1, <1>2, <2>1, <2>2, <2>3, <2>4, CommandKeeps DEF Touches
<1>5. ASSUME Cleanup(a, env, s) PROVE Inv'
  <2>. DEFINE c == [Idle EXCEPT !.at = "tree", !.op = "cleanup", !.sid = s, !.copy = f,
                                !.repos = Repos \ f.cleaned]
  <2>1. c.at = "tree" /\ c.op = "cleanup" /\ c.sid = s /\ c.copy = f
    BY DEF Idle
  <2>2. cmd' = [cmd EXCEPT ![a] = c]
    BY <1>5 DEF Cleanup
  <2>3. c \in Commands
    BY <2>2 DEF Inv, TypeInv, TypeOK
  <2>. HIDE DEF c, f
  <2>. QED  BY <1>1, <1>2, <2>1, <2>2, <2>3, CommandKeeps DEF Touches
<1>. QED  BY <1>3, <1>4, <1>5

LEMMA FailKeeps ==
    ASSUME Inv, TypeInv', NEW a \in Windows,
           (\E r \in Repos : GitMergeFails(a, r)) \/ DropFails(a) \/ Kill(a) \/ CollapseLock(a)
    PROVE  Inv'
<1>1. UNCHANGED <<live, trash, known, tree, past, base, other, made>>
  BY DEF GitMergeFails, DropFails, Kill, CollapseLock, folders, gitVars, branchVars
<1>2. CASE Leave(a)
  BY <1>1, <1>2, LeavingKeeps
<1>3. CASE CollapseLock(a)
  <2>. DEFINE c == [cmd[a] EXCEPT !.text = Text(live[cmd[a].copy.parent].ctx), !.at = "parent"]
  <2>1. cmd[a] \in Commands /\ Shape(cmd[a]) /\ cmd \in [Windows -> Commands]
    BY DEF Inv, TypeInv, TypeOK, Shapes
  <2>2. /\ c.at = "parent" /\ c.op = cmd[a].op /\ c.sid = cmd[a].sid /\ c.copy = cmd[a].copy
        /\ cmd[a].op = "collapse"
    BY <1>3, <2>1 DEF Commands, CollapseLock, Shape, Collapsing
  <2>3. cmd' = [cmd EXCEPT ![a] = c]
    BY <1>3, <2>1 DEF CollapseLock
  <2>4. c \in Commands
    BY <2>1, <2>3 DEF Inv, TypeInv, TypeOK
  <2>. HIDE DEF c
  <2>. QED  BY <1>1, <2>2, <2>3, <2>4, CommandKeeps, Kept DEF Touches, Inv
<1>. QED  BY <1>2, <1>3 DEF GitMergeFails, DropFails, Kill

LEMMA CreateKeeps ==
    ASSUME Inv, TypeInv', NEW a \in Windows, NEW env \in Sessions \union {Nobody},
           NEW n \in Sessions, NEW mode \in {"spawn", "branch", "temp"}, Create(a, env, n, mode)
    PROVE  Inv'
<1>. DEFINE c == cmd'[a]
<1>1. /\ c.op = "create" /\ c.sid = n /\ c.at \in {"grow", "found"}
      /\ Same(c.copy, Missing) /\ n \notin known /\ known' = known \union {n}
      /\ \A b \in Windows \ {a} : cmd'[b] = cmd[b]
      /\ UNCHANGED <<live, trash, tree, past, base, other, made>>
  <2>1. cmd \in [Windows -> Commands]
    BY DEF Inv, TypeInv, TypeOK
  <2>. QED  BY <2>1 DEF Create, Idle, Missing, Same, folders, branchVars
<1>2. Untouched(n) /\ c.repos \subseteq Repos
  <2>1. c \in Commands
    BY DEF TypeInv, TypeOK
  <2>. QED  BY <1>1, <2>1 DEF Inv, Fresh, Commands
<1>3. Spares(a)
  BY <1>1, <1>2 DEF Spares, Untouched, Touches, Blank
<1>4. Proceeds(a)
  <2>1. Old(n, c.copy)
    BY <1>1 DEF Old
  <2>2. Grows(a, cmd[a].sid)'
    BY <1>1, <1>2 DEF Grows, Untouched, Blank, Same, Missing
  <2>3. \A b \in Windows \ {a} : cmd[b].sid # n
    BY <1>2 DEF Untouched, Touches
  <2>. QED  BY <1>1, <1>2, <2>1, <2>2, <2>3 DEF Proceeds, Untouched
<1>5. Careful(a)
  BY <1>1, <1>3, <1>4, Kept DEF Careful, Inv
<1>. QED  BY <1>1, <1>5, CarefulKeeps, TreesKept DEF Inv

-----------------------------------------------------------------------------
(* The steps that write session files or contexts.                          *)
LEMMA Working ==
    ASSUME Inv, NEW a \in Windows, cmd[a].at \notin {"idle", "force"}
    PROVE  /\ cmd[a].sid \in Sessions /\ Old(cmd[a].sid, cmd[a].copy)
           /\ cmd[a] \in Commands /\ Shape(cmd[a])
           /\ Idle.sid = Nobody /\ Idle.op = "none" /\ Idle.at = "idle"
           /\ Nobody \notin Sessions
           /\ live \in [Sessions -> Folders] /\ trash \in [Sessions -> Folders]
           /\ cmd \in [Windows -> Commands]
<1>1. cmd[a] \in Commands /\ Shape(cmd[a])
  BY DEF Inv, TypeInv, TypeOK, Shapes
<1>2. cmd[a].sid \in Sessions
  BY <1>1 DEF Shape
<1>. QED  BY <1>1, <1>2, Kept, Values DEF Inv, TypeInv, TypeOK, Idle

LEMMA FoundKeeps ==
    ASSUME Inv, TypeInv', NEW a \in Windows, Found(a) \/ Skeleton(a) \/ CreateFails(a)
    PROVE  Inv'
<1>. DEFINE s == cmd[a].sid
<1>0. /\ cmd[a].at \in Creating /\ cmd[a].op = "create"
      /\ UNCHANGED <<trash, known, tree, past, base, other, made>>
  <2>1. Shape(cmd[a])
    BY DEF Inv, TypeInv, Shapes
  <2>. QED  BY <2>1 DEF Found, Skeleton, CreateFails, Creating, Shape, branchVars
<1>1. /\ s \in Sessions /\ Old(s, cmd[a].copy) /\ cmd[a] \in Commands
      /\ Idle.sid = Nobody /\ Idle.op = "none" /\ Idle.at = "idle" /\ Nobody \notin Sessions
      /\ live \in [Sessions -> Folders] /\ cmd \in [Windows -> Commands]
  BY <1>0, Working DEF Creating
<1>2. /\ \A b \in Windows \ {a} : cmd'[b] = cmd[b]
      /\ \/ cmd'[a] = Idle
         \/ /\ cmd'[a].sid = s /\ cmd'[a].op = "create" /\ cmd'[a].copy = cmd[a].copy
            /\ cmd'[a].at \in {"skeleton", "anchor", "tree"}
  BY <1>0, <1>1 DEF Found, Skeleton, CreateFails, Goto, Leave, Commands
<1>3. /\ \A u \in Sessions \ {s} : live'[u] = live[u]
      /\ live'[s].file \in {live[s].file, cmd[a].copy, Missing}
  BY <1>1 DEF Found, Skeleton, CreateFails, Folders
<1>. HIDE DEF s
<1>4. \A u \in Sessions : Old(u, live'[u].file)
  BY <1>1, <1>3, Kept DEF Inv
<1>5. cmd[a].sid = s
  BY DEF s
<1>6. Spares(a)
  BY <1>0, <1>1, <1>2, <1>3, <1>5 DEF Spares, Touches, Blank
<1>7. Proceeds(a)
  BY <1>0, <1>1, <1>2, <1>5 DEF Proceeds, Inv, Makers, Making
<1>8. Careful(a)
  BY <1>0, <1>2, <1>4, <1>6, <1>7, Kept DEF Careful, Inv
<1>. QED  BY <1>0, <1>8, CarefulKeeps, TreesKept DEF Inv

LEMMA AnchorKeeps ==
    ASSUME Inv, TypeInv', NEW a \in Windows, Anchor(a)
    PROVE  Inv'
<1>. DEFINE s == cmd[a].sid
            g == AttachedFile(a, s)
<1>0. /\ cmd[a].at = "anchor" /\ cmd[a].op = "create"
      /\ UNCHANGED <<trash, known, tree, base, other, made>>
      /\ past' = [past EXCEPT ![s].opened = Built(s)] /\ live' = Released(a, s)
  <2>1. Shape(cmd[a])
    BY DEF Inv, TypeInv, Shapes
  <2>. QED  BY <2>1 DEF Anchor, Creating, Shape
<1>1. /\ s \in Sessions /\ cmd[a] \in Commands /\ cmd \in [Windows -> Commands]
  BY <1>0, Working
<1>2. /\ \A b \in Windows \ {a} : cmd'[b] = cmd[b]
      /\ cmd'[a].sid = s /\ cmd'[a].op = "create" /\ cmd'[a].copy = g /\ cmd'[a].at = "write"
  <2>. HIDE DEF g
  <2>1. WriteBack(a, g, "idle")
    BY DEF Anchor, g
  <2>. QED  BY <1>0, <1>1, <2>1 DEF WriteBack, Commands
<1>3. Old(s, g)
  BY <1>1, FormsOf, Kept, SameIsOld DEF Inv
<1>. HIDE DEF s, g
<1>4. cmd[a].sid = s
  BY DEF s
<1>5. \A u \in Sessions : Old(u, live'[u].file) /\ (Blank(u) => live'[u] = NoFolder)
  BY <1>0, <1>1, AfterRelease, Kept, SameIsOld DEF Inv
<1>6. past \in [Sessions -> Pasts]
  BY DEF Inv, TypeInv, TypeOK
<1>7. /\ \A u \in Sessions : past'[u].landed = past[u].landed /\ past'[u].carried = past[u].carried
      /\ \A u \in Sessions \ {s} : past'[u] = past[u]
      /\ past'[s].opened = Built(s)
  BY <1>0, <1>1, <1>6 DEF Pasts
<1>8. Spares(a)
  BY <1>0, <1>1, <1>2, <1>4, <1>5, <1>7 DEF Spares, Touches, Blank
<1>9. Proceeds(a)
  BY <1>0, <1>1, <1>2, <1>3, <1>4 DEF Proceeds, Inv, Makers, Making, Creating
<1>10. Careful(a)
  BY <1>0, <1>2, <1>4, <1>5, <1>7, <1>8, <1>9, Kept DEF Careful, Inv
<1>11. Onward
  BY <1>0, <1>7 DEF Onward
<1>12. GoneOnlyAfter'
  <2>1. ASSUME NEW u \in Sessions, NEW r \in past'[u].opened
        PROVE  tree'[u][r].ref \/ (past'[u].landed = Repos /\ past'[u].carried)
    <3>1. CASE u = s
      BY <1>0, <1>7, <2>1, <3>1 DEF Built
    <3>2. CASE u # s
      BY <1>0, <1>7, <2>1, <3>2 DEF Inv, GoneOnlyAfter
    <3>. QED  BY <3>1, <3>2
  <2>. QED  BY <2>1 DEF GoneOnlyAfter
<1>13. WorkIsKept' /\ LooseIn'
  BY <1>0 DEF Inv, WorkIsKept, LooseIn
<1>. QED  BY <1>10, <1>11, <1>12, <1>13, CarefulKeeps DEF Inv

LEMMA CollapseParentKeeps ==
    ASSUME Inv, TypeInv', NEW a \in Windows, CollapseParent(a)
    PROVE  Inv'
<1>. DEFINE s == cmd[a].sid
            p == cmd[a].copy.parent
<1>0. /\ cmd[a].at = "parent" /\ cmd[a].op = "collapse" /\ p \in Sessions
      /\ UNCHANGED <<trash, known, tree, base, other, made>>
      /\ past' = [past EXCEPT ![s].carried = TRUE, ![s].entries = cmd[a].new]
      /\ live' = [live EXCEPT ![p].ctx = cmd[a].text \union cmd[a].new]
  <2>1. Shape(cmd[a])
    BY DEF Inv, TypeInv, Shapes
  <2>. QED  BY <2>1 DEF CollapseParent, Collapsing, Shape, gitVars
<1>1. /\ s \in Sessions /\ Old(s, cmd[a].copy) /\ cmd[a] \in Commands
      /\ cmd \in [Windows -> Commands]
  BY <1>0, Working
<1>2. /\ \A b \in Windows \ {a} : cmd'[b] = cmd[b]
      /\ cmd'[a].sid = s /\ cmd'[a].op = "collapse" /\ cmd'[a].copy = cmd[a].copy
      /\ cmd'[a].at = "child"
  BY <1>0, <1>1 DEF CollapseParent, Goto, Commands
<1>3. \A u \in Sessions : live'[u].file = live[u].file /\ (u # p => live'[u] = live[u])
  <2>. HIDE DEF p
  <2>. QED  BY <1>0, AfterWrite DEF Inv
<1>. HIDE DEF s, p
<1>4. cmd[a].sid = s /\ cmd[a].copy.parent = p
  BY DEF s, p
<1>5. \A u \in Sessions : Old(u, live'[u].file)
  BY <1>3, Kept DEF Inv
<1>6. past \in [Sessions -> Pasts]
  BY DEF Inv, TypeInv, TypeOK
<1>7. /\ \A u \in Sessions : past'[u].landed = past[u].landed /\ past'[u].opened = past[u].opened
      /\ \A u \in Sessions : past[u].carried => past'[u].carried
      /\ past'[s].carried
  BY <1>0, <1>1, <1>6 DEF Pasts
<1>8. Spares(a)
  BY <1>0, <1>1, <1>2, <1>3, <1>4, <1>7 DEF Spares, Touches, Blank
<1>9. Proceeds(a)
  BY <1>1, <1>2, <1>7 DEF Proceeds
<1>10. Careful(a)
  BY <1>0, <1>2, <1>5, <1>7, <1>8, <1>9, Kept DEF Careful, Inv
<1>11. Onward
  BY <1>0, <1>7 DEF Onward
<1>12. GoneOnlyAfter'
  BY <1>0, <1>7 DEF Inv, GoneOnlyAfter
<1>13. WorkIsKept' /\ LooseIn'
  BY <1>0 DEF Inv, WorkIsKept, LooseIn
<1>. QED  BY <1>10, <1>11, <1>12, <1>13, CarefulKeeps DEF Inv

LEMMA CollapseChildKeeps ==
    ASSUME Inv, TypeInv', NEW a \in Windows, CollapseChild(a)
    PROVE  Inv'
<1>. DEFINE s == cmd[a].sid
            g == [cmd[a].copy EXCEPT !.into = cmd[a].copy.parent]
<1>0. /\ cmd[a].at = "child"
      /\ UNCHANGED <<trash, known, tree, past, base, other, made>>
      /\ live' = [live EXCEPT ![s].file = g] /\ cmd' = [cmd EXCEPT ![a] = Idle]
  BY DEF CollapseChild, Leave, gitVars
<1>1. /\ s \in Sessions /\ Old(s, cmd[a].copy) /\ cmd[a] \in Commands
      /\ Idle.sid = Nobody /\ Idle.op = "none" /\ Idle.at = "idle" /\ Nobody \notin Sessions
      /\ cmd \in [Windows -> Commands]
  BY <1>0, Working
<1>2. Onward /\ GoneOnlyAfter' /\ WorkIsKept' /\ LooseIn'
  BY <1>0, TreesKept
<1>3. HonestThen(s, g)
  <2>1. HonestThen(s, cmd[a].copy) /\ past'[s].carried
    BY <1>0, <1>1, <1>2, HonestStays DEF Inv, Carried
  <2>2. g.merged = cmd[a].copy.merged /\ g.cleaned = cmd[a].copy.cleaned
    BY <1>1 DEF Commands, Files
  <2>. QED  BY <2>1, <2>2 DEF HonestThen
<1>4. live'[s].file = g /\ \A u \in Sessions \ {s} : live'[u] = live[u]
  <2>. HIDE DEF g, s
  <2>. QED  BY <1>0, <1>1, AfterWrite DEF Inv
<1>5. cmd'[a] = Idle /\ \A b \in Windows \ {a} : cmd'[b] = cmd[b]
  BY <1>0, <1>1
<1>. HIDE DEF s, g
<1>6. cmd[a].sid = s
  BY DEF s
<1>7. \A u \in Sessions : Old(u, live'[u].file) \/ HonestThen(u, live'[u].file)
  BY <1>3, <1>4, Kept DEF Inv
<1>8. Spares(a)
  BY <1>0, <1>1, <1>4, <1>5, <1>6 DEF Spares, Touches, Blank
<1>9. Proceeds(a)
  BY <1>1, <1>5 DEF Proceeds
<1>10. Careful(a)
  BY <1>0, <1>5, <1>7, <1>8, <1>9, Kept DEF Careful, Inv
<1>. QED  BY <1>2, <1>10, CarefulKeeps DEF Inv

-----------------------------------------------------------------------------
(* The steps that work on branches and worktrees.                           *)
LEMMA TreeChanged ==
    ASSUME TypeInv, NEW s \in Sessions, NEW r \in Repos, NEW t,
           tree' = [tree EXCEPT ![s][r] = t]
    PROVE  /\ tree'[s][r] = t
           /\ \A q \in Repos \ {r} : tree'[s][q] = tree[s][q]
           /\ \A u \in Sessions \ {s} : tree'[u] = tree[u]
           /\ \A u \in Sessions, q \in Repos : tree[u][q] \in Trees
BY DEF TypeInv, TypeOK

(* Work stays when what a tree loses is on a branch of the repository.      *)
LEMMA WorkStays ==
    ASSUME TypeInv, WorkIsKept, made' = made,
           \A r \in Repos : base[r] \union other[r] \subseteq base'[r] \union other'[r],
           \A s \in Sessions, r \in Repos :
              tree[s][r].loose \union tree[s][r].work
                \subseteq tree'[s][r].loose \union tree'[s][r].work \union base'[r] \union other'[r]
    PROVE  WorkIsKept'
<1>1. ASSUME NEW x \in made
      PROVE  \E r \in Repos : \/ x \in base'[r] \union other'[r]
                              \/ \E s \in Sessions : x \in tree'[s][r].loose \union tree'[s][r].work
  <2>1. PICK r \in Repos : \/ x \in base[r] \union other[r]
                           \/ \E s \in Sessions : x \in tree[s][r].loose \union tree[s][r].work
    BY <1>1 DEF WorkIsKept
  <2>2. CASE x \in base[r] \union other[r]
    BY <2>2
  <2>3. ASSUME NEW s \in Sessions, x \in tree[s][r].loose \union tree[s][r].work
        PROVE  \E q \in Repos : \/ x \in base'[q] \union other'[q]
                                \/ \E u \in Sessions : x \in tree'[u][q].loose \union tree'[u][q].work
    <3>1. \/ x \in base'[r] \union other'[r]
          \/ x \in tree'[s][r].loose \union tree'[s][r].work
      BY <2>3
    <3>. QED  BY <3>1
  <2>. QED  BY <2>1, <2>2, <2>3
<1>. QED  BY <1>1 DEF WorkIsKept

LEMMA AddTreeKeeps ==
    ASSUME Inv, TypeInv', NEW a \in Windows, NEW r \in Repos, AddTree(a, r)
    PROVE  Inv'
<1>. DEFINE s == cmd[a].sid
<1>0. /\ cmd[a].at = "grow" /\ cmd[a].op = "create" /\ r \in cmd[a].repos
      /\ UNCHANGED <<live, trash, known, past, base, other, made>>
      /\ tree' = [tree EXCEPT ![s][r] = NewTree]
  <2>1. Shape(cmd[a])
    BY DEF Inv, TypeInv, Shapes
  <2>. QED  BY <2>1 DEF AddTree, Creating, Shape, folders
<1>1. /\ s \in Sessions /\ Old(s, cmd[a].copy) /\ cmd[a] \in Commands
      /\ cmd \in [Windows -> Commands]
  BY <1>0, Working
<1>2. /\ \A b \in Windows \ {a} : cmd'[b] = cmd[b]
      /\ cmd'[a].sid = s /\ cmd'[a].op = "create" /\ cmd'[a].copy = cmd[a].copy
      /\ cmd'[a].at \in {"grow", "found"} /\ cmd'[a].repos = cmd[a].repos \ {r}
      /\ cmd[a].repos \subseteq Repos
  BY <1>0, <1>1 DEF AddTree, Commands
<1>3. Grows(a, s)
  BY <1>0 DEF Inv, Growing
<1>. HIDE DEF s
<1>4. cmd[a].sid = s
  BY DEF s
<1>5. /\ tree'[s][r] = NewTree /\ tree[s][r] = NoTree
      /\ \A q \in Repos \ {r} : tree'[s][q] = tree[s][q]
      /\ \A u \in Sessions \ {s} : tree'[u] = tree[u]
  <2>. DEFINE t == NewTree
  <2>1. tree' = [tree EXCEPT ![s][r] = t]
    BY <1>0
  <2>. HIDE DEF t
  <2>2. /\ tree'[s][r] = t
        /\ \A q \in Repos \ {r} : tree'[s][q] = tree[s][q]
        /\ \A u \in Sessions \ {s} : tree'[u] = tree[u]
    <3>1. tree \in [Sessions -> [Repos -> Trees]]
      BY DEF Inv, TypeInv, TypeOK
    <3>. QED  BY <1>1, <2>1, <3>1
  <2>. QED  BY <1>0, <1>3, <2>2 DEF Grows, t
<1>6. \A f : Old(s, f) => f.cleaned = {}
  BY <1>3, <1>4 DEF Old, Same, Grows, Blank, NoFolder, Missing, Touches
<1>7. Onward
  BY <1>0, <1>1, <1>5, <1>6 DEF Onward
<1>8. Spares(a)
  BY <1>0, <1>2, <1>4, <1>5 DEF Spares, Touches, Blank
<1>9. Grows(a, cmd[a].sid)'
  BY <1>0, <1>2, <1>3, <1>5 DEF Grows, Blank
<1>10. Proceeds(a)
  BY <1>0, <1>1, <1>2, <1>4, <1>9 DEF Proceeds, Inv, Makers, Making, Creating
<1>11. Careful(a)
  BY <1>0, <1>2, <1>8, <1>10, Kept DEF Careful, Inv
<1>12. NewTree.ref /\ NewTree.there /\ NoTree.loose = {} /\ NoTree.work = {}
  BY DEF NewTree, NoTree
<1>13. GoneOnlyAfter'
  <2>1. ASSUME NEW u \in Sessions, NEW q \in past[u].opened
        PROVE  tree'[u][q].ref \/ (past[u].landed = Repos /\ past[u].carried)
    <3>1. q \in Repos
      BY <2>1 DEF Inv, TypeInv, TypeOK, Pasts
    <3>. QED  BY <1>5, <1>12, <2>1, <3>1 DEF Inv, GoneOnlyAfter
  <2>. QED  BY <1>0, <2>1 DEF GoneOnlyAfter
<1>14. LooseIn'
  BY <1>5, <1>12 DEF Inv, LooseIn
<1>15. WorkIsKept'
  <2>1. \A u \in Sessions, q \in Repos :
           tree[u][q].loose \union tree[u][q].work \subseteq tree'[u][q].loose \union tree'[u][q].work
    BY <1>5, <1>12
  <2>. QED  BY <1>0, <2>1, WorkStays DEF Inv
<1>. QED  BY <1>7, <1>11, <1>13, <1>14, <1>15, CarefulKeeps DEF Inv

LEMMA DropTreeKeeps ==
    ASSUME Inv, TypeInv', NEW a \in Windows, NEW r \in Repos, DropTree(a, r)
    PROVE  Inv'
<1>. DEFINE s == cmd[a].sid
            t == [tree[s][r] EXCEPT !.there = FALSE, !.loose = {}]
<1>0. /\ cmd[a].at = "tree" /\ tree[s][r].there /\ tree[s][r].loose = {}
      /\ UNCHANGED <<live, trash, known, past, base, other, made>>
      /\ tree' = [tree EXCEPT ![s][r].there = FALSE, ![s][r].loose = {}]
  BY DEF DropTree, folders, Removable
<1>1. /\ s \in Sessions /\ Old(s, cmd[a].copy) /\ cmd[a] \in Commands
      /\ cmd \in [Windows -> Commands] /\ tree \in [Sessions -> [Repos -> Trees]]
  BY <1>0, Working DEF Inv, TypeInv, TypeOK
<1>2. /\ \A b \in Windows \ {a} : cmd'[b] = cmd[b]
      /\ cmd'[a].sid = s /\ cmd'[a].op = cmd[a].op /\ cmd'[a].copy = cmd[a].copy
      /\ cmd'[a].at = "ref"
  BY <1>0, <1>1 DEF DropTree, Commands
<1>3. t.there = FALSE /\ t.loose = {} /\ t.ref = tree[s][r].ref /\ t.work = tree[s][r].work
  BY <1>1 DEF Trees
<1>4. tree' = [tree EXCEPT ![s][r] = t]
  BY <1>0, <1>1
<1>. HIDE DEF s, t
<1>5. cmd[a].sid = s
  BY DEF s
<1>6. /\ tree'[s][r] = t
      /\ \A q \in Repos \ {r} : tree'[s][q] = tree[s][q]
      /\ \A u \in Sessions \ {s} : tree'[u] = tree[u]
  BY <1>1, <1>4, TreeChanged DEF Inv
<1>7. Onward
  BY <1>0, <1>3, <1>6 DEF Onward
<1>8. Spares(a)
  BY <1>0, <1>2, <1>5, <1>6 DEF Spares, Touches, Blank
<1>9. Proceeds(a)
  BY <1>0, <1>1, <1>2, <1>5 DEF Proceeds, Inv, Makers, Making
<1>10. Careful(a)
  BY <1>0, <1>2, <1>8, <1>9, Kept DEF Careful, Inv
<1>11. GoneOnlyAfter'
  <2>1. ASSUME NEW u \in Sessions, NEW q \in past[u].opened
        PROVE  tree'[u][q].ref \/ (past[u].landed = Repos /\ past[u].carried)
    <3>1. q \in Repos
      BY <2>1 DEF Inv, TypeInv, TypeOK, Pasts
    <3>. QED  BY <1>3, <1>6, <2>1, <3>1 DEF Inv, GoneOnlyAfter
  <2>. QED  BY <1>0, <2>1 DEF GoneOnlyAfter
<1>12. LooseIn'
  BY <1>3, <1>6 DEF Inv, LooseIn
<1>13. WorkIsKept'
  <2>1. \A u \in Sessions, q \in Repos :
           tree[u][q].loose \union tree[u][q].work \subseteq tree'[u][q].loose \union tree'[u][q].work
    BY <1>0, <1>3, <1>6
  <2>. QED  BY <1>0, <2>1, WorkStays DEF Inv
<1>. QED  BY <1>7, <1>10, <1>11, <1>12, <1>13, CarefulKeeps DEF Inv

LEMMA DropRefKeeps ==
    ASSUME Inv, TypeInv', NEW a \in Windows, NEW r \in Repos, DropRef(a, r)
    PROVE  Inv'
<1>. DEFINE s == cmd[a].sid
<1>0. /\ cmd[a].at = "ref" /\ Deletable(s, r)
      /\ UNCHANGED <<live, trash, known, past, base, other, made>>
      /\ tree' = [tree EXCEPT ![s][r] = NoTree]
  BY DEF DropRef, folders
<1>1. /\ s \in Sessions /\ Old(s, cmd[a].copy) /\ cmd[a] \in Commands
      /\ cmd \in [Windows -> Commands] /\ Shape(cmd[a])
      /\ Idle.sid = Nobody /\ Idle.op = "none" /\ Idle.at = "idle" /\ Nobody \notin Sessions
  BY <1>0, Working
<1>2. \A b \in Windows \ {a} : cmd'[b] = cmd[b]
  BY <1>1 DEF DropRef
<1>3. \/ cmd'[a] = Idle
      \/ /\ cmd'[a].sid = s /\ cmd'[a].op = cmd[a].op
         /\ \/ cmd'[a].copy = cmd[a].copy /\ cmd'[a].at = "tree"
            \/ /\ cmd'[a].copy = [cmd[a].copy EXCEPT !.cleaned = @ \union {r}]
               /\ cmd'[a].at = "write" /\ cmd[a].op = "cleanup"
  BY <1>1 DEF DropRef, Commands
<1>. HIDE DEF s
<1>4. cmd[a].sid = s
  BY DEF s
<1>5. /\ tree'[s][r] = NoTree
      /\ \A q \in Repos \ {r} : tree'[s][q] = tree[s][q]
      /\ \A u \in Sessions \ {s} : tree'[u] = tree[u]
  <2>. DEFINE t == NoTree
  <2>1. tree' = [tree EXCEPT ![s][r] = t]
    BY <1>0
  <2>. HIDE DEF t
  <2>2. /\ tree'[s][r] = t
        /\ \A q \in Repos \ {r} : tree'[s][q] = tree[s][q]
        /\ \A u \in Sessions \ {s} : tree'[u] = tree[u]
    <3>1. tree \in [Sessions -> [Repos -> Trees]]
      BY DEF Inv, TypeInv, TypeOK
    <3>. QED  BY <1>1, <2>1, <3>1
  <2>. QED  BY <2>2 DEF t
<1>6. /\ NoTree.there = FALSE /\ NoTree.ref = FALSE /\ NoTree.loose = {}
  BY DEF NoTree
<1>7. Onward
  BY <1>0, <1>5, <1>6 DEF Onward
<1>8. HonestThen(s, cmd[a].copy)
  BY <1>1, <1>7, HonestStays DEF Inv
<1>9. HonestThen(s, [cmd[a].copy EXCEPT !.cleaned = @ \union {r}])
  <2>. DEFINE g == [cmd[a].copy EXCEPT !.cleaned = @ \union {r}]
  <2>1. /\ g.merged = cmd[a].copy.merged /\ g.into = cmd[a].copy.into
        /\ g.cleaned = cmd[a].copy.cleaned \union {r}
    BY <1>1 DEF Commands, Files
  <2>. HIDE DEF g
  <2>2. HonestThen(s, g)
    BY <1>5, <1>6, <1>8, <2>1 DEF HonestThen
  <2>. QED  BY <2>2 DEF g
<1>10. Spares(a)
  BY <1>0, <1>1, <1>2, <1>3, <1>4, <1>5 DEF Spares, Touches, Blank
<1>11. Proceeds(a)
  BY <1>0, <1>1, <1>3, <1>4, <1>9 DEF Proceeds, Inv, Makers, Making, Creating
<1>12. Careful(a)
  BY <1>0, <1>2, <1>10, <1>11, Kept DEF Careful, Inv
<1>13. r \in past[s].opened => past[s].landed = Repos /\ past[s].carried
  <2>1. CASE cmd[a].op = "create"
    BY <1>0, <1>4, <2>1 DEF Inv, Makers, Making
  <2>2. CASE cmd[a].op = "cleanup"
    <3>1. cmd[a].copy.merged = Repos /\ cmd[a].copy.into # Nobody
      BY <1>0, <1>1, <2>2 DEF Shape, Dropping, IsMerged, IsCollapsed
    <3>2. past[s].landed \subseteq Repos
      BY <1>1 DEF Inv, TypeInv, TypeOK, Pasts
    <3>3. Honest(s, cmd[a].copy)
      BY <1>1, <1>4 DEF Inv, ClaimsHold
    <3>. QED  BY <3>1, <3>2, <3>3 DEF Honest
  <2>. QED  BY <1>0, <1>1, <2>1, <2>2 DEF Shape, Dropping
<1>14. GoneOnlyAfter'
  <2>1. ASSUME NEW u \in Sessions, NEW q \in past[u].opened
        PROVE  tree'[u][q].ref \/ (past[u].landed = Repos /\ past[u].carried)
    <3>1. q \in Repos
      BY <2>1 DEF Inv, TypeInv, TypeOK, Pasts
    <3>. QED  BY <1>5, <1>13, <2>1, <3>1 DEF Inv, GoneOnlyAfter
  <2>. QED  BY <1>0, <2>1 DEF GoneOnlyAfter
<1>15. LooseIn'
  BY <1>5, <1>6 DEF Inv, LooseIn
<1>16. WorkIsKept'
  <2>1. tree[s][r].loose = {} /\ tree[s][r].work \subseteq base[r] \union other[r]
    BY <1>0, <1>1 DEF Deletable, HeadHas, Inv, LooseIn
  <2>2. \A u \in Sessions, q \in Repos :
           tree[u][q].loose \union tree[u][q].work
             \subseteq tree'[u][q].loose \union tree'[u][q].work \union base'[q] \union other'[q]
    BY <1>0, <1>5, <2>1
  <2>. QED  BY <1>0, <2>2, WorkStays DEF Inv
<1>. QED  BY <1>7, <1>12, <1>14, <1>15, <1>16, CarefulKeeps DEF Inv

LEMMA GitMergeKeeps ==
    ASSUME Inv, TypeInv', NEW a \in Windows, NEW r \in Repos, GitMerge(a, r)
    PROVE  Inv'
<1>. DEFINE s == cmd[a].sid
            g == [cmd[a].copy EXCEPT !.merged = @ \union {r}]
<1>0. /\ cmd[a].at = "merge" /\ UNCHANGED <<live, trash, known, tree, made>>
      /\ past' = [past EXCEPT ![s].landed = @ \union {r}]
      /\ WriteBack(a, g, "idle")
  BY DEF GitMerge, folders
<1>1. /\ s \in Sessions /\ Old(s, cmd[a].copy) /\ cmd[a] \in Commands
      /\ cmd \in [Windows -> Commands]
  BY <1>0, Working
<1>2. /\ \A b \in Windows \ {a} : cmd'[b] = cmd[b]
      /\ cmd'[a].sid = s /\ cmd'[a].op = cmd[a].op /\ cmd'[a].copy = g /\ cmd'[a].at = "write"
  <2>. HIDE DEF g
  <2>. QED  BY <1>0, <1>1 DEF WriteBack, Commands
<1>3. /\ g.merged = cmd[a].copy.merged \union {r} /\ g.into = cmd[a].copy.into
      /\ g.cleaned = cmd[a].copy.cleaned /\ g.parent = cmd[a].copy.parent
  BY <1>1 DEF Commands, Files
<1>. HIDE DEF s, g
<1>4. cmd[a].sid = s
  BY DEF s
<1>5. past \in [Sessions -> Pasts]
  BY DEF Inv, TypeInv, TypeOK
<1>6. /\ \A u \in Sessions : past[u].landed \subseteq past'[u].landed
                             /\ past'[u].carried = past[u].carried /\ past'[u].opened = past[u].opened
      /\ \A u \in Sessions : past'[u].landed = past[u].landed \/ past'[u].landed = past[u].landed \union {r}
      /\ past'[s].landed = past[s].landed \union {r}
  BY <1>0, <1>1, <1>5 DEF Pasts
<1>7. Onward
  BY <1>0, <1>6 DEF Onward
<1>8. HonestThen(s, g)
  <2>1. HonestThen(s, cmd[a].copy)
    BY <1>1, <1>7, HonestStays DEF Inv
  <2>. QED  BY <1>3, <1>6, <2>1 DEF HonestThen
<1>9. Spares(a)
  BY <1>0, <1>2, <1>3, <1>4, <1>6 DEF Spares, Touches, Blank
<1>10. Proceeds(a)
  BY <1>0, <1>1, <1>2, <1>4, <1>8 DEF Proceeds, Inv, Makers, Making, Creating
<1>11. Careful(a)
  BY <1>0, <1>2, <1>6, <1>9, <1>10, Kept DEF Careful, Inv
<1>12. GoneOnlyAfter'
  <2>1. \A u \in Sessions : past'[u].landed \subseteq Repos
    BY DEF TypeInv, TypeOK, Pasts
  <2>2. \A u \in Sessions : past[u].landed = Repos => past'[u].landed = Repos
    BY <1>6, <2>1
  <2>. QED  BY <1>0, <1>6, <2>2 DEF Inv, GoneOnlyAfter
<1>13. LooseIn'
  BY <1>0 DEF Inv, LooseIn
<1>14. WorkIsKept'
  <2>1. base \in [Repos -> SUBSET Work] /\ other \in [Repos -> SUBSET Work]
    BY DEF Inv, TypeInv, TypeOK
  <2>2. \A q \in Repos : base[q] \union other[q] \subseteq base'[q] \union other'[q]
    BY <2>1 DEF GitMerge
  <2>. QED  BY <1>0, <2>2, WorkStays DEF Inv
<1>. QED  BY <1>7, <1>11, <1>12, <1>13, <1>14, CarefulKeeps DEF Inv

LEMMA UserKeeps ==
    ASSUME Inv, TypeInv', UserStep
    PROVE  Inv'
<1>. USE DEF Inv
<1>0. UNCHANGED <<live, trash, known, cmd, past, base, other>>
  BY DEF UserStep, Commit, Edit, UserChanges, UserSwitches, folders
<1>1. CASE UNCHANGED <<tree, made>>
  <2>1. ClaimsHold' /\ GoneOnlyAfter' /\ WorkIsKept' /\ LooseIn'
    BY <1>0, <1>1 DEF ClaimsHold, Honest, GoneOnlyAfter, WorkIsKept, LooseIn
  <2>2. Fresh' /\ Growing'
    BY <1>0, <1>1 DEF Fresh, Untouched, Blank, Growing, Grows
  <2>3. Makers' /\ Carried'
    BY <1>0, <1>1 DEF Makers, Carried
  <2>. QED  BY <2>1, <2>2, <2>3
<1>2. ASSUME NEW s \in Sessions, NEW r \in Repos, NEW t, NEW new,
             tree' = [tree EXCEPT ![s][r] = t], made' = made \union new,
             tree[s][r].there, t.there, t.ref = tree[s][r].ref,
             t.loose \union t.work = tree[s][r].loose \union tree[s][r].work \union new
      PROVE  Inv'
  <2>1. /\ tree'[s][r] = t
        /\ \A q \in Repos \ {r} : tree'[s][q] = tree[s][q]
        /\ \A u \in Sessions \ {s} : tree'[u] = tree[u]
    <3>1. tree \in [Sessions -> [Repos -> Trees]]
      BY DEF TypeInv, TypeOK
    <3>. QED  BY <1>2, <3>1
  <2>2. ClaimsHold'
    <3>1. ASSUME NEW u \in Sessions, NEW f \in Files, Honest(u, f) PROVE HonestThen(u, f)
      <4>1. f.cleaned \subseteq Repos
        BY <3>1 DEF Files
      <4>. QED  BY <1>0, <1>2, <2>1, <3>1, <4>1 DEF Honest, HonestThen
    <3>2. \A u \in Sessions : live[u].file \in Files /\ trash[u].file \in Files
      BY FilesOf DEF TypeInv
    <3>3. \A b \in Windows : cmd[b].copy \in Files
      BY DEF TypeInv, TypeOK, Commands
    <3>. QED  BY <1>0, <3>1, <3>2, <3>3 DEF ClaimsHold, Honest, HonestThen
  <2>3. \A u \in Sessions, q \in Repos : tree[u][q] = NoTree => tree'[u][q] = NoTree
    BY <1>2, <2>1 DEF NoTree
  <2>4. Fresh'
    BY <1>0, <2>3 DEF Fresh, Untouched, Blank
  <2>5. Growing'
    <3>1. ASSUME NEW b \in Windows, cmd[b].at = "grow" PROVE Grows(b, cmd[b].sid)'
      <4>1. cmd[b].sid \in Sessions /\ cmd[b].repos \subseteq Repos
        BY <3>1 DEF TypeInv, TypeOK, Commands, Shapes, Shape
      <4>. QED  BY <1>0, <2>3, <3>1, <4>1 DEF Growing, Grows, Blank
    <3>. QED  BY <1>0, <3>1 DEF Growing
  <2>6. Makers' /\ Carried'
    BY <1>0 DEF Makers, Carried
  <2>7. LooseIn'
    BY <1>2, <2>1 DEF LooseIn
  <2>8. GoneOnlyAfter'
    <3>1. \A u \in Sessions : past[u].opened \subseteq Repos
      BY DEF TypeInv, TypeOK, Pasts
    <3>. QED  BY <1>0, <1>2, <2>1, <3>1 DEF GoneOnlyAfter
  <2>9. WorkIsKept'
    <3>1. \A u \in Sessions, q \in Repos :
             tree[u][q].loose \union tree[u][q].work \subseteq tree'[u][q].loose \union tree'[u][q].work
      BY <1>2, <2>1
    <3>2. \A x \in new : x \in tree'[s][r].loose \union tree'[s][r].work
      BY <1>2, <2>1
    <3>3. ASSUME NEW x \in made
          PROVE  \E q \in Repos : \/ x \in base[q] \union other[q]
                                  \/ \E u \in Sessions : x \in tree'[u][q].loose \union tree'[u][q].work
      <4>1. PICK q \in Repos : \/ x \in base[q] \union other[q]
                               \/ \E u \in Sessions : x \in tree[u][q].loose \union tree[u][q].work
        BY <3>3 DEF WorkIsKept
      <4>2. (\E u \in Sessions : x \in tree[u][q].loose \union tree[u][q].work)
            => \E u \in Sessions : x \in tree'[u][q].loose \union tree'[u][q].work
        BY <3>1
      <4>. QED  BY <4>1, <4>2
    <3>. QED  BY <1>0, <1>2, <3>2, <3>3 DEF WorkIsKept
  <2>. QED  BY <2>2, <2>4, <2>5, <2>6, <2>7, <2>8, <2>9
<1>3. ASSUME NEW s \in Sessions, NEW r \in Repos, Commit(s, r) PROVE Inv'
  <2>. DEFINE t == Committed(tree[s][r])
  <2>0. tree \in [Sessions -> [Repos -> Trees]]
    BY DEF TypeInv, TypeOK
  <2>1. tree[s][r].there /\ made' = made \union {} /\ tree' = [tree EXCEPT ![s][r] = t]
    BY <1>3, <2>0 DEF Commit
  <2>2. /\ t.there = tree[s][r].there /\ t.ref = tree[s][r].ref
        /\ t.loose \union t.work = tree[s][r].loose \union tree[s][r].work \union {}
    BY <2>0 DEF Committed, Trees
  <2>. HIDE DEF t
  <2>. QED  BY <1>2, <2>1, <2>2
<1>4. ASSUME NEW s \in Sessions, NEW r \in Repos, NEW x \in Work, NEW commits \in BOOLEAN,
             Edit(s, r, x, commits)
      PROVE  Inv'
  <2>. DEFINE e == [tree[s][r] EXCEPT !.loose = @ \union {x}]
              t == IF commits THEN Committed(e) ELSE e
  <2>0. tree[s][r] \in Trees
    BY DEF TypeInv, TypeOK
  <2>1. tree[s][r].there /\ made' = made \union {x} /\ tree' = [tree EXCEPT ![s][r] = t]
    BY <1>4 DEF Edit
  <2>2. /\ e.there = tree[s][r].there /\ e.ref = tree[s][r].ref /\ e \in Trees
        /\ e.loose = tree[s][r].loose \union {x} /\ e.work = tree[s][r].work
    BY <2>0 DEF Trees
  <2>3. /\ t.there = tree[s][r].there /\ t.ref = tree[s][r].ref
        /\ t.loose \union t.work = tree[s][r].loose \union tree[s][r].work \union {x}
    <3>. HIDE DEF e
    <3>. QED  BY <2>2 DEF Committed, Trees
  <2>. HIDE DEF t
  <2>. QED  BY <1>2, <2>1, <2>3
<1>. QED  BY <1>1, <1>3, <1>4 DEF UserStep, UserChanges, UserSwitches

LEMMA InvKept == Inv /\ [Next]_vars => Inv'
<1>. SUFFICES ASSUME Inv, [Next]_vars PROVE Inv'
  OBVIOUS
<1>0. TypeInv'
  BY NextTypes DEF Inv
<1>1. CASE UNCHANGED vars
  <2>1. UNCHANGED <<live, trash, known, cmd, tree, past, base, other, made>>
    BY <1>1 DEF vars, sessionVars, branchVars
  <2>2. ClaimsHold' /\ GoneOnlyAfter' /\ WorkIsKept' /\ LooseIn'
    BY <2>1 DEF Inv, ClaimsHold, Honest, GoneOnlyAfter, WorkIsKept, LooseIn
  <2>3. Fresh' /\ Growing'
    BY <2>1 DEF Inv, Fresh, Untouched, Blank, Growing, Grows
  <2>4. Makers' /\ Carried'
    BY <2>1 DEF Inv, Makers, Carried
  <2>. QED  BY <1>0, <2>2, <2>3, <2>4 DEF Inv
<1>2. ASSUME NEW a \in Windows, WorkflowStep(a) PROVE Inv'
  BY <1>0, <1>2, CreateKeeps, BeginKeeps, AddTreeKeeps, GitMergeKeeps, DropTreeKeeps, DropRefKeeps,
     FailKeeps, FoundKeeps, AnchorKeeps, CollapseParentKeeps, CollapseChildKeeps DEF WorkflowStep
<1>3. ASSUME NEW a \in Windows, SessionStep(a), UNCHANGED branchVars PROVE Inv'
  BY <1>0, <1>3, SessionKeeps
<1>4. CASE UserStep
  BY <1>0, <1>4, UserKeeps
<1>. QED  BY <1>1, <1>2, <1>3, <1>4 DEF Next

LEMMA InvHolds == Init => Inv
<1>. SUFFICES ASSUME Init PROVE Inv
  OBVIOUS
<1>0. TypeInv
  BY InitTypes
<1>1. PICK done \in SUBSET Branches, loose \in Loose :
         /\ \A s \in done, r \in Repos : loose[<<s, r>>] = {}
         /\ SessionInit(done)
         /\ base = [r \in Repos |-> {}]
         /\ other = [r \in Repos |-> {}]
         /\ tree = [s \in Sessions |-> [r \in Repos |->
                      IF s \in Branches THEN [NewTree EXCEPT !.loose = loose[<<s, r>>]] ELSE NoTree]]
         /\ made = UNION {loose[i] : i \in Branches \X Repos}
         /\ past = [s \in Sessions |->
                      [opened |-> IF s \in Branches THEN Repos ELSE {},
                       landed |-> IF s \in done THEN Repos ELSE {},
                       carried |-> FALSE, entries |-> {}]]
  BY DEF Init
<1>2. Branches \subseteq Begun /\ Begun \subseteq Sessions /\ Root \in Sessions
  BY BegunAssumption
<1>3. known = {Root} \union Begun /\ cmd = [a \in Windows |-> Idle]
  BY <1>1 DEF SessionInit
<1>4. /\ Idle.sid = Nobody /\ Idle.op = "none" /\ Idle.at = "idle" /\ Idle.copy = Missing
      /\ Missing.merged = {} /\ Missing.into = Nobody /\ Missing.cleaned = {}
      /\ NoFolder.file = Missing /\ Nobody \notin Sessions
  BY Values DEF Idle, Missing, NoFolder
<1>5. \A s \in Sessions :
         /\ trash[s].file.merged = {} /\ trash[s].file.into = Nobody /\ trash[s].file.cleaned = {}
         /\ live[s].file.merged = IF s \in done THEN Repos ELSE {}
         /\ live[s].file.into = Nobody /\ live[s].file.cleaned = {}
         /\ s \notin known => live[s] = NoFolder /\ trash[s] = NoFolder
  <2>1. PICK e \in Entries, kept \in [Begun -> Entries], last \in Windows, again \in BOOLEAN :
          LET file == [Created(last) EXCEPT !.target = TRUE]
              stopped == [NoFolder EXCEPT !.file = file, !.ctx = {e}]
          IN  /\ \A w \in Windows : KindOf[w] = "claude" => KindOf[last] = "claude"
              /\ again => done = {}
              /\ live = [s \in Sessions |->
                    IF s = Root THEN IF again THEN [NoFolder EXCEPT !.file = file] ELSE stopped
                    ELSE IF s \in Begun
                    THEN [NoFolder EXCEPT !.ctx = {kept[s]}, !.file = Child(s, done)]
                    ELSE NoFolder]
              /\ trash = [s \in Sessions |-> IF again /\ s = Root THEN stopped ELSE NoFolder]
    <3>1. SessionInit(done)
      BY <1>1
    <3>. QED  BY <3>1, ZenonT(60) DEF SessionInit
  <2>. DEFINE file == [Created(last) EXCEPT !.target = TRUE]
              stopped == [NoFolder EXCEPT !.file = file, !.ctx = {e}]
              bare == [NoFolder EXCEPT !.file = file]
              child(s) == [NoFolder EXCEPT !.ctx = {kept[s]}, !.file = Child(s, done)]
  <2>2. file.merged = {} /\ file.into = Nobody /\ file.cleaned = {}
    BY DEF Created, Missing
  <2>3. \A s : /\ Child(s, done).merged = IF s \in done THEN Repos ELSE {}
               /\ Child(s, done).into = Nobody /\ Child(s, done).cleaned = {}
    BY DEF Child, Missing
  <2>4. stopped.file = file /\ bare.file = file /\ \A s : child(s).file = Child(s, done)
    BY DEF NoFolder
  <2>5. /\ live = [s \in Sessions |-> IF s = Root THEN IF again THEN bare ELSE stopped
                                      ELSE IF s \in Begun THEN child(s) ELSE NoFolder]
        /\ trash = [s \in Sessions |-> IF again /\ s = Root THEN stopped ELSE NoFolder]
    BY <2>1
  <2>. HIDE DEF file, stopped, bare, child
  <2>6. Root \notin done /\ done \subseteq Begun
    BY <1>1, BegunAssumption
  <2>. QED  BY <1>2, <1>3, <1>4, <2>2, <2>3, <2>4, <2>5, <2>6
<1>6. \A s \in Sessions, r \in Repos :
         /\ tree[s][r] = IF s \in Branches THEN [NewTree EXCEPT !.loose = loose[<<s, r>>]] ELSE NoTree
         /\ s \in Branches => /\ tree[s][r].there /\ tree[s][r].ref /\ tree[s][r].work = {}
                              /\ tree[s][r].loose = loose[<<s, r>>]
  BY <1>1 DEF NewTree, NoTree
<1>7. ClaimsHold
  BY <1>1, <1>3, <1>4, <1>5 DEF ClaimsHold, Honest
<1>8. GoneOnlyAfter
  BY <1>1, <1>6 DEF GoneOnlyAfter
<1>9. LooseIn
  BY <1>1, <1>6 DEF LooseIn, NewTree, NoTree
<1>10. Fresh
  <2>1. ASSUME NEW s \in Sessions \ known PROVE Untouched(s)
    <3>1. s \notin Branches
      BY <1>2, <1>3
    <3>. QED  BY <1>1, <1>3, <1>4, <1>5, <3>1 DEF Untouched, Blank, Touches
  <2>. QED  BY <2>1 DEF Fresh
<1>11. Growing /\ Makers /\ Carried
  BY <1>3, <1>4 DEF Growing, Makers, Carried
<1>12. WorkIsKept
  <2>1. ASSUME NEW x \in made
        PROVE  \E r \in Repos, s \in Sessions : x \in tree[s][r].loose
    <3>1. PICK i \in Branches \X Repos : x \in loose[i]
      BY <1>1
    <3>2. PICK s \in Branches, r \in Repos : i = <<s, r>>
      BY <3>1
    <3>3. s \in Sessions /\ x \in tree[s][r].loose
      BY <1>2, <1>6, <3>1, <3>2
    <3>. QED  BY <3>3
  <2>. QED  BY <2>1 DEF WorkIsKept
<1>. QED  BY <1>0, <1>7, <1>8, <1>9, <1>10, <1>11, <1>12 DEF Inv

LEMMA Invariant == Spec => []Inv
BY InvHolds, InvKept, PTL DEF Spec

(* No work is ever lost: what a user made in a worktree, or committed there,*)
(* is in it, on its branch, or on a branch of the repository it was merged  *)
(* into, whatever commands interleave, fail or are killed between checking  *)
(* a worktree and removing it (workflow.py:318-338, 150-156).               *)
THEOREM NoWorkIsLost == Spec => []WorkIsKept
BY Invariant, PTL DEF Inv

(* No copy of a session file, live, in the trash or in the hands of a       *)
(* command, ever claims a merge, a collapse or a removal that has not       *)
(* happened, though stale copies are written back (workflow.py:283-291,     *)
(* 333-337).                                                                *)
THEOREM NoFalseClaims == Spec => []ClaimsHold
BY Invariant, PTL DEF Inv

(* A branch of a session that was created whole goes only after the code of *)
(* all its repositories was merged and its context carried over             *)
(* (workflow.py:304-305).                                                   *)
THEOREM BranchesGoLast == Spec => []GoneOnlyAfter
BY Invariant, PTL DEF Inv

-----------------------------------------------------------------------------
(* What the trash is for.                                                   *)

(* move_to_trash keeps what the directory and the trash hold.               *)
LEMMA TrashedHolds ==
    ASSUME TypeInv, NEW s \in Sessions, CanMove(s)
    PROVE  Held(s) \subseteq Inside(Trashed(s))
<1>1. /\ trash[s] \in Folders /\ Inside(live[s]) \in SUBSET Entries
      /\ Nobody \notin Entries
  BY FilesOf, Values DEF TypeInv
<1>2. Inside(NoFolder) = {}
  BY DEF Inside, NoFolder, Text
<1>3. CASE trash[s] = NoFolder
  BY <1>2, <1>3 DEF Held, Trashed
<1>4. CASE trash[s] # NoFolder /\ live[s] = NoFolder
  <2>1. Trashed(s) = [trash[s] EXCEPT !.deep = @]
    BY <1>4 DEF Trashed
  <2>2. Trashed(s) = trash[s]
    BY <1>1, <2>1 DEF Folders
  <2>. QED  BY <1>2, <1>4, <2>2 DEF Held
<1>5. CASE trash[s] # NoFolder /\ live[s] # NoFolder
  <2>1. Trashed(s) = [trash[s] EXCEPT !.deep = Inside(live[s])]
    BY <1>5 DEF Trashed
  <2>2. Trashed(s).ctx = trash[s].ctx /\ Trashed(s).deep = Inside(live[s])
    BY <1>1, <2>1 DEF Folders
  <2>3. Text(Inside(live[s])) = Inside(live[s])
    BY <1>1 DEF Text, NoContext
  <2>4. Text(trash[s].deep) = {}
    BY <1>5 DEF CanMove, Text
  <2>5. Inside(Trashed(s)) = Text(trash[s].ctx) \union Inside(live[s])
    BY <2>2, <2>3 DEF Inside
  <2>6. Inside(trash[s]) = Text(trash[s].ctx)
    BY <2>4 DEF Inside
  <2>. QED  BY <2>5, <2>6 DEF Held
<1>. QED  BY <1>3, <1>4, <1>5

(* restore keeps it too, unless it overwrites a context.md.                 *)
LEMMA RestoredHolds ==
    ASSUME TypeInv, NEW s \in Sessions, live[s].ctx = NoContext
    PROVE  Held(s) \subseteq Inside(Restored(s))
<1>. DEFINE deep == Text(trash[s].deep) \union Text(live[s].deep)
<1>1. /\ trash[s].deep \in Texts /\ live[s].deep \in Texts
      /\ Text(NoContext) = {} /\ Nobody \notin Entries
  BY FilesOf, Values DEF TypeInv, Text
<1>2. deep \in SUBSET Entries
  BY <1>1, Values
<1>3. Text(Restored(s).ctx) = Text(trash[s].ctx)
  BY DEF Restored
<1>4. Text(Restored(s).deep) = deep
  <2>1. Text(deep) = deep
    BY <1>1, <1>2 DEF Text, NoContext
  <2>2. Restored(s).deep = IF trash[s].deep = NoContext /\ live[s].deep = NoContext
                           THEN NoContext ELSE deep
    BY DEF Restored
  <2>. QED  BY <1>1, <2>1, <2>2
<1>. HIDE DEF deep
<1>5. Inside(Restored(s)) = Text(trash[s].ctx) \union deep
  BY <1>3, <1>4 DEF Inside
<1>6. Held(s) \subseteq Text(trash[s].ctx) \union deep
  BY <1>1 DEF Held, Inside, deep
<1>. QED  BY <1>5, <1>6

LEMMA TrashStep ==
    ASSUME TypeInv, NEW a \in Windows, SessionStep(a), NEW s \in Sessions,
           trash'[s] # trash[s], live'[s] # live[s],
           live[s].ctx = NoContext \/ trash'[s] # NoFolder
    PROVE  Held(s) \subseteq Held(s)'
<1>0. live \in [Sessions -> Folders] /\ trash \in [Sessions -> Folders]
  BY DEF TypeInv, TypeOK
<1>1. CASE CanMove(s) /\ trash'[s] = Trashed(s)
  BY <1>1, TrashedHolds DEF Held
<1>2. ASSUME NEW env, NEW u \in Sessions, NEW op, Stop(a, op, env, u)
      PROVE  CanMove(s) /\ trash'[s] = Trashed(s)
  BY <1>0, <1>2 DEF Stop
<1>3. ASSUME NEW u \in Sessions, ForceOne(a, u)
      PROVE  CanMove(s) /\ trash'[s] = Trashed(s)
  BY <1>0, <1>3 DEF ForceOne
<1>4. ASSUME NEW old \in SUBSET Sessions, NEW gone \in SUBSET Sessions, SweepBare(a, old, gone)
      PROVE  CanMove(s) /\ trash'[s] = Trashed(s)
  BY <1>0, <1>4 DEF SweepBare
<1>5. ASSUME NEW u \in Sessions, Restore(a, u)
      PROVE  Held(s) \subseteq Held(s)'
  <2>1. live' = [live EXCEPT ![u] = Restored(u)] /\ trash' = [trash EXCEPT ![u] = NoFolder]
    BY <1>5 DEF Restore
  <2>2. s = u /\ live'[s] = Restored(s) /\ trash'[s] = NoFolder
    BY <1>0, <2>1
  <2>. QED  BY <2>2, RestoredHolds DEF Held
<1>6. ASSUME NEW env, NEW named, Start(a, env, named) \/ Refresh(a, env, named)
      PROVE  FALSE
  BY <1>6 DEF Start, Refresh
<1>7. ASSUME NEW u, NEW e, NEW w, NEW old,
             \/ Attach(a, u) \/ Record(a, u, e) \/ Unanchor(a, w) \/ ForceStop(a)
             \/ Clean(a, old) \/ ForceLast(a)
      PROVE  FALSE
  BY <1>7 DEF Attach, Record, Unanchor, ForceStop, Clean, ForceLast
<1>8. ASSUME \/ Identify(a) \/ Write(a) \/ Context(a) \/ Resync(a) \/ Scan(a) \/ Sweep(a)
             \/ Stamp(a) \/ Remove(a) \/ RecordWrite(a)
      PROVE  FALSE
  BY <1>8 DEF Identify, Write, Context, Resync, Scan, Sweep, Stamp, Remove, RecordWrite
<1>. QED
  BY <1>1, <1>2, <1>3, <1>4, <1>5, <1>6, <1>7, <1>8 DEF SessionStep, Detach, DetachStale

LEMMA WorkflowLeavesTrash ==
    ASSUME NEW a \in Windows, WorkflowStep(a)
    PROVE  trash' = trash
<1>1. ASSUME NEW env, NEW s, NEW mode, NEW r,
             \/ Create(a, env, s, mode) \/ Merge(a, env, s, r)
             \/ Collapse(a, env, s) \/ Cleanup(a, env, s)
      PROVE  trash' = trash
  BY <1>1 DEF Create, Merge, Collapse, Cleanup, folders
<1>2. ASSUME NEW r, \/ AddTree(a, r) \/ GitMerge(a, r) \/ GitMergeFails(a, r)
                    \/ DropTree(a, r) \/ DropRef(a, r)
      PROVE  trash' = trash
  BY <1>2 DEF AddTree, GitMerge, GitMergeFails, DropTree, DropRef, folders
<1>3. ASSUME \/ DropFails(a) \/ CreateFails(a) \/ Found(a) \/ Skeleton(a) \/ Anchor(a)
             \/ CollapseLock(a) \/ CollapseParent(a) \/ CollapseChild(a) \/ Kill(a)
      PROVE  trash' = trash
  BY <1>3 DEF DropFails, CreateFails, Found, Skeleton, Anchor, CollapseLock, CollapseParent,
              CollapseChild, Kill, folders
<1>. QED  BY <1>1, <1>2, <1>3 DEF WorkflowStep

(* Moving a directory to the trash, or back, loses none of its entries, for *)
(* every interleaving of the commands: a second directory of a session goes *)
(* into the first, and a third is not moved (trash.py:13-38).               *)
THEOREM MovesLoseNothing == Spec => MovesKeep
<1>1. ASSUME TypeInv, Next, NEW s \in Sessions, trash'[s] # trash[s], live'[s] # live[s],
             live[s].ctx = NoContext \/ trash'[s] # NoFolder
      PROVE  Held(s) \subseteq Held(s)'
  <2>1. ASSUME UserStep PROVE FALSE
    BY <1>1, <2>1 DEF UserStep, Commit, Edit, UserChanges, UserSwitches, folders
  <2>. QED  BY <1>1, <2>1, TrashStep, WorkflowLeavesTrash DEF Next
<1>. DEFINE A == \A s \in Sessions :
                   trash'[s] # trash[s] /\ live'[s] # live[s]
                     /\ (live[s].ctx = NoContext \/ trash'[s] # NoFolder)
                     => Held(s) \subseteq Held(s)'
<1>2. TypeInv /\ [Next]_vars => [A]_vars
  BY <1>1
<1>. QED  BY <1>2, TypeInvariant, PTL DEF Spec, MovesKeep

-----------------------------------------------------------------------------
(* Who moves a window's anchor.  Anchors only move for a window that runs   *)
(* the command, which notes that it went on, or as TakenBy says.            *)
LEMMA AnchorsOf ==
    ASSUME TypeInv, NEW a \in Windows, NEW v \in Windows \ {a}
    PROVE  /\ \A env : Rebound(a, env)[v] = ptr[v]
           /\ \A s : \A p \in [Windows -> Sessions \union {Nobody}] : Anchored(p, a, s)[v] = p[v]
           /\ \A s \in Sessions : AttachedPtr(a, s)[v] # ptr[v] =>
                 ptr[v] = s /\ AttachedPtr(a, s)[v] = Nobody /\ KindOf[a] # KindOf[v]
<1>1. ptr \in [Windows -> Sessions \union {Nobody}]
  BY DEF TypeInv, TypeOK
<1>2. \A env : Rebound(a, env)[v] = ptr[v]
  BY <1>1 DEF Rebound
<1>3. \A s : \A p \in [Windows -> Sessions \union {Nobody}] : Anchored(p, a, s)[v] = p[v]
  BY DEF Anchored
<1>4. ASSUME NEW s \in Sessions, AttachedPtr(a, s)[v] # ptr[v]
      PROVE  ptr[v] = s /\ AttachedPtr(a, s)[v] = Nobody /\ KindOf[a] # KindOf[v]
  <2>. DEFINE p == Cleared(ptr, s, Harnesses \ {KindOf[a]})
  <2>1. p \in [Windows -> Sessions \union {Nobody}]
    BY <1>1, AnchorsMade
  <2>2. p[v] = AttachedPtr(a, s)[v]
    <3>. HIDE DEF p
    <3>1. AttachedPtr(a, s) = Anchored(p, a, s)
      BY DEF AttachedPtr, p
    <3>. QED  BY <1>3, <2>1, <3>1
  <2>. QED  BY <1>4, <2>2 DEF Cleared
<1>. QED  BY <1>2, <1>3, <1>4

(* The start of another project's session takes its session's windows only. *)
LEMMA StartTakes ==
    ASSUME TypeInv, NEW a \in Windows, NEW env \in Sessions \union {Nobody}, NEW named,
           Start(a, env, named), NEW v \in Windows \ {a}, ptr'[v] # ptr[v]
    PROVE  ptr'[v] = Nobody /\ TakenBy(a, v)
<1>0. /\ cmd \in [Windows -> Commands] /\ ptr \in [Windows -> Sessions \union {Nobody}]
      /\ Rebound(a, env) \in [Windows -> Sessions \union {Nobody}]
      /\ \A w \in Windows \ {a} : Rebound(a, env)[w] = ptr[w]
  BY Rebinds, AnchorsOf DEF TypeInv, TypeOK
<1>. DEFINE s == Resolved(a, env)
            p == Cleared(Rebound(a, env), s, Harnesses)
<1>1. PICK n \in Sessions \ known :
        /\ s = Nobody \/ (named /\ HasTarget(s))
        /\ ptr' = Anchored(IF s = Nobody THEN ptr ELSE p, a, n)
        /\ known' = known \union {n}
        /\ cmd' = [cmd EXCEPT ![a] = [Idle EXCEPT !.op = "start", !.sid = n,
                                          !.at = IF named THEN "identify" ELSE "context"]]
  <2>1. ptr' # Rebound(a, env)
    BY <1>0
  <2>. QED  BY <2>1 DEF Start
<1>2. p \in [Windows -> Sessions \union {Nobody}]
  BY <1>0, AnchorsMade, Rebinds DEF TypeInv
<1>3. \A w \in Windows \ {a} : p[w] = IF ptr[w] = s /\ KindOf[w] \in Harnesses THEN Nobody ELSE ptr[w]
  BY <1>0 DEF Cleared
<1>4. s # Nobody
  BY <1>0, <1>1, AnchorsOf
<1>5. \A w \in Windows \ {a} : ptr'[w] = p[w]
  <2>. HIDE DEF p
  <2>1. ptr' = Anchored(p, a, n)
    BY <1>1, <1>4
  <2>. QED  BY <1>2, <2>1, AnchorsOf
<1>6. ptr[v] = s /\ ptr'[v] = Nobody
  BY <1>3, <1>5
<1>7. \A w \in Windows \ {a} : ptr'[w] # ptr[w] => ptr[w] = ptr[v]
  BY <1>3, <1>5, <1>6
<1>8. cmd'[a].op = "start" /\ cmd'[a].sid = n /\ n \in known' \ known
  BY <1>0, <1>1 DEF Idle
<1>9. HasTarget(ptr[v])
  BY <1>1, <1>4, <1>6
<1>. QED  BY <1>6, <1>7, <1>8, <1>9 DEF TakenBy

LEMMA SessionAnchors ==
    ASSUME TypeInv, NEW a \in Windows, SessionStep(a), NEW v \in Windows,
           ptr'[v] # ptr[v], cmd'[v] = cmd[v], Exists(ptr[v])
    PROVE  a # v /\ ptr'[v] = Nobody /\ TakenBy(a, v)
<1>0. /\ cmd \in [Windows -> Commands] /\ ptr \in [Windows -> Sessions \union {Nobody}]
      /\ cmd[a] \in Commands /\ Shape(cmd[a]) /\ ptr[v] \in Sessions
  BY DEF TypeInv, TypeOK, Shapes, Exists
<1>1. ASSUME NEW c, cmd' = [cmd EXCEPT ![a] = c] PROVE cmd'[a] = c
  BY <1>0, <1>1
<1>2. ASSUME cmd'[a] # cmd[a] PROVE a # v
  BY <1>2
<1>3. ASSUME NEW env \in Sessions \union {Nobody}, NEW named, Start(a, env, named)
      PROVE  a # v /\ ptr'[v] = Nobody /\ TakenBy(a, v)
  <2>1. cmd[a].at \in {"idle", "restart"}
    BY <1>3 DEF Start
  <2>2. PICK n : cmd' = [cmd EXCEPT ![a] = [Idle EXCEPT !.op = "start", !.sid = n,
                                              !.at = IF named THEN "identify" ELSE "context"]]
    BY <1>3 DEF Start
  <2>3. cmd'[a].at \in {"identify", "context"}
    BY <1>0, <2>2 DEF Idle
  <2>4. a # v
    BY <1>2, <2>1, <2>3
  <2>. QED  BY <1>3, <2>4, StartTakes
<1>4. ASSUME NEW env, NEW named, Refresh(a, env, named)
      PROVE  FALSE
  <2>1. cmd[a].at = "idle" /\ ptr' = Rebound(a, env)
    BY <1>4 DEF Refresh, Call
  <2>2. PICK n : cmd' = [cmd EXCEPT ![a] = [Idle EXCEPT !.op = "refresh", !.sid = n,
                                              !.at = IF named THEN "identify" ELSE "context"]]
    BY <1>4 DEF Refresh, Call
  <2>3. cmd'[a].at \in {"identify", "context"}
    BY <1>1, <2>2 DEF Idle
  <2>4. a # v
    BY <1>2, <2>1, <2>3
  <2>. QED  BY <2>1, <2>4, AnchorsOf
<1>5. ASSUME NEW env, NEW s, NEW op \in {"stop", "restart"}, Stop(a, op, env, s)
      PROVE  FALSE
  <2>1. cmd[a].at = "idle" /\ (ptr' = ptr \/ ptr' = Rebound(a, env))
    BY <1>5 DEF Stop, Call
  <2>2. cmd' = [cmd EXCEPT ![a] = [Idle EXCEPT !.at = "remove", !.op = op, !.sid = s]]
    BY <1>5 DEF Stop, Call
  <2>3. cmd'[a].at = "remove"
    BY <1>1, <2>2 DEF Idle
  <2>4. a # v
    BY <1>2, <2>1, <2>3
  <2>. QED  BY <2>1, <2>4, AnchorsOf
<1>6. ASSUME NEW s \in Sessions, Attach(a, s)
      PROVE  a # v /\ ptr'[v] = Nobody /\ TakenBy(a, v)
  <2>1. cmd[a].at = "idle" /\ ptr' = AttachedPtr(a, s)
    BY <1>6 DEF Attach, CallWriting
  <2>2. cmd' = [cmd EXCEPT ![a] = [Idle EXCEPT !.at = "write", !.op = "attach", !.sid = s,
                                                !.copy = AttachedFile(a, s)]]
    BY <1>6 DEF Attach, CallWriting
  <2>3. cmd'[a].op = "attach" /\ cmd'[a].at = "write" /\ cmd'[a].sid = s
    BY <1>1, <2>2 DEF Idle
  <2>4. a # v
    BY <1>2, <2>1, <2>3
  <2>5. ptr[v] = s /\ ptr'[v] = Nobody /\ KindOf[a] # KindOf[v]
    BY <2>1, <2>4, AnchorsOf
  <2>. QED  BY <2>3, <2>4, <2>5 DEF TakenBy
<1>7. ASSUME NEW w \in Windows, (Detach(a) /\ w = a) \/ DetachStale(a, w)
      PROVE  a # v /\ ptr'[v] = Nobody /\ TakenBy(a, v)
  <2>0. Unanchor(a, w)
    BY <1>7 DEF Detach, DetachStale
  <2>1. w = v /\ ptr'[v] = Nobody
    BY <1>0, <2>0 DEF Unanchor
  <2>2. PICK f : CallWriting(a, "detach", ptr[w], f)
    BY <2>0, <2>1 DEF Unanchor
  <2>3. /\ cmd[a].at = "idle"
        /\ cmd' = [cmd EXCEPT ![a] = [Idle EXCEPT !.at = "write", !.op = "detach",
                                                  !.sid = ptr[w], !.copy = f]]
    BY <2>2 DEF CallWriting
  <2>4. cmd'[a].op = "detach" /\ cmd'[a].at = "write" /\ cmd'[a].sid = ptr[v]
    BY <1>1, <2>1, <2>3 DEF Idle
  <2>5. a # v
    BY <1>2, <2>3, <2>4
  <2>6. KindOf[v] \in {"claude", "codex"}
    BY <1>7, <2>1, <2>5 DEF DetachStale
  <2>. QED  BY <2>1, <2>4, <2>5, <2>6 DEF TakenBy
<1>8. ASSUME cmd[a].at = "bare", NEW old, NEW gone, SweepBare(a, old, gone)
      PROVE  a # v /\ ptr'[v] = Nobody /\ TakenBy(a, v)
  <2>1. cmd'[a].at \in {"stamp", "idle"}
    BY <1>0, <1>8 DEF SweepBare, GotoOrLeave, Goto, Leave, Idle, Commands
  <2>2. a # v
    BY <1>2, <1>8, <2>1
  <2>3. ptr[v] \in old /\ KindOf[v] # "codex" /\ ptr'[v] = Nobody
    BY <1>0, <1>8 DEF SweepBare
  <2>4. ~HasTarget(ptr[v])
    BY <1>8, <2>3 DEF SweepBare, HasTarget
  <2>. QED  BY <1>8, <2>2, <2>3, <2>4 DEF TakenBy
<1>9. ASSUME Remove(a)
      PROVE  a # v /\ ptr'[v] = Nobody /\ TakenBy(a, v)
  <2>1. cmd[a].at = "remove" /\ ptr' = Cleared(ptr, cmd[a].sid, Harnesses)
    BY <1>9 DEF Remove
  <2>2. cmd'[a].at \in {"restart", "idle"}
    BY <1>0, <1>9 DEF Remove, GotoOrLeave, Goto, Leave, Idle, Commands
  <2>3. ptr[v] = cmd[a].sid /\ ptr'[v] = Nobody
    BY <1>0, <2>1 DEF Cleared
  <2>4. a # v
    BY <1>2, <2>1, <2>2
  <2>. QED  BY <2>1, <2>3, <2>4 DEF TakenBy
<1>10. ASSUME NEW s, ForceOne(a, s)
       PROVE  a # v /\ ptr'[v] = Nobody /\ TakenBy(a, v)
  <2>1. /\ cmd[a].at = "force" /\ s \in cmd[a].ids
        /\ ptr' = Cleared(ptr, s, Harnesses)
    BY <1>10 DEF ForceOne
  <2>2. cmd' = [cmd EXCEPT ![a].ids = @ \ {s}]
    BY <1>10 DEF ForceOne
  <2>3. cmd'[a].ids = cmd[a].ids \ {s}
    BY <1>0, <2>2 DEF Commands
  <2>4. ptr[v] = s /\ ptr'[v] = Nobody
    BY <1>0, <2>1 DEF Cleared
  <2>5. a # v
    BY <1>2, <2>1, <2>3
  <2>. QED  BY <2>1, <2>4, <2>5 DEF TakenBy
<1>11. ASSUME ForceLast(a)
       PROVE  a # v /\ ptr'[v] = Nobody /\ TakenBy(a, v)
  <2>1. cmd[a].at = "force" /\ cmd'[a].at = "idle"
    BY <1>0, <1>11 DEF ForceLast, Leave, Idle
  <2>2. KindOf[v] = "claude" /\ ptr'[v] = Nobody
    BY <1>0, <1>11 DEF ForceLast
  <2>3. a # v
    BY <1>2, <2>1
  <2>. QED  BY <2>1, <2>2, <2>3 DEF TakenBy
<1>12. ASSUME NEW s, NEW e, NEW old,
              Restore(a, s) \/ Record(a, s, e) \/ ForceStop(a) \/ Clean(a, old)
       PROVE  FALSE
  BY <1>12 DEF Restore, Record, ForceStop, Clean
<1>13. ASSUME \/ Identify(a) \/ Write(a) \/ Context(a) \/ Resync(a) \/ Scan(a) \/ Sweep(a)
              \/ Stamp(a) \/ RecordWrite(a)
       PROVE  FALSE
  BY <1>13 DEF Identify, Write, Context, Resync, Scan, Sweep, Stamp, RecordWrite
<1>14. CASE \E env \in Sessions \union {Nobody}, named \in BOOLEAN : Start(a, env, named)
  BY <1>3, <1>14
<1>. QED
  BY <1>4, <1>5, <1>6, <1>7, <1>8, <1>9, <1>10, <1>11, <1>12, <1>13, <1>14
     DEF SessionStep

LEMMA WorkflowAnchors ==
    ASSUME TypeInv, NEW a \in Windows, WorkflowStep(a), NEW v \in Windows,
           ptr'[v] # ptr[v], cmd'[v] = cmd[v], Exists(ptr[v])
    PROVE  a # v /\ ptr'[v] = Nobody /\ TakenBy(a, v)
<1>0. /\ cmd \in [Windows -> Commands] /\ ptr \in [Windows -> Sessions \union {Nobody}]
      /\ cmd[a] \in Commands /\ Shape(cmd[a])
  BY DEF TypeInv, TypeOK, Shapes
<1>1. ASSUME NEW env, cmd[a].at = "idle", cmd'[a].at # "idle",
             ptr' = ptr \/ ptr' = Rebound(a, env)
      PROVE  FALSE
  <2>1. a # v
    BY <1>1
  <2>. QED  BY <1>1, <2>1, AnchorsOf
<1>2. ASSUME NEW env, NEW s, NEW mode, Create(a, env, s, mode) PROVE FALSE
  <2>1. /\ cmd[a].at = "idle"
        /\ ptr' = IF mode = "temp" THEN ptr ELSE Rebound(a, env)
    BY <1>2 DEF Create
  <2>2. PICK f : cmd' = [cmd EXCEPT ![a] =
                   [Idle EXCEPT !.op = "create", !.sid = s, !.copy = f,
                                !.repos = IF mode = "branch" THEN Repos ELSE {},
                                !.at = IF mode = "branch" THEN "grow" ELSE "found"]]
    BY <1>2 DEF Create
  <2>3. cmd'[a].at \in {"grow", "found"}
    BY <1>0, <2>2 DEF Idle
  <2>. QED  BY <1>1, <2>1, <2>3
<1>3. ASSUME NEW env, NEW s, NEW r, Merge(a, env, s, r) PROVE FALSE
  <2>1. cmd[a].at = "idle" /\ (ptr' = ptr \/ ptr' = Rebound(a, env))
    BY <1>3 DEF Merge
  <2>2. cmd'[a].at = "merge"
    BY <1>0, <1>3 DEF Merge, Idle
  <2>. QED  BY <1>1, <2>1, <2>2
<1>4. ASSUME NEW env, NEW s, Collapse(a, env, s) PROVE FALSE
  <2>1. cmd[a].at = "idle" /\ (ptr' = ptr \/ ptr' = Rebound(a, env))
    BY <1>4 DEF Collapse
  <2>2. cmd'[a].at = "lock"
    BY <1>0, <1>4 DEF Collapse, Idle
  <2>. QED  BY <1>1, <2>1, <2>2
<1>5. ASSUME NEW env, NEW s, Cleanup(a, env, s) PROVE FALSE
  <2>1. cmd[a].at = "idle" /\ (ptr' = ptr \/ ptr' = Rebound(a, env))
    BY <1>5 DEF Cleanup
  <2>2. cmd'[a].at = "tree"
    BY <1>0, <1>5 DEF Cleanup, Idle
  <2>. QED  BY <1>1, <2>1, <2>2
<1>6. ASSUME Anchor(a) PROVE a # v /\ ptr'[v] = Nobody /\ TakenBy(a, v)
  <2>1. /\ cmd[a].at = "anchor" /\ cmd[a].op = "create" /\ cmd[a].sid \in Sessions
        /\ ptr' = AttachedPtr(a, cmd[a].sid)
    BY <1>0, <1>6 DEF Anchor, Shape, Creating
  <2>2. PICK f : cmd' = [cmd EXCEPT ![a].copy = f, ![a].at = "write", ![a].then = "idle"]
    BY <1>6 DEF Anchor, WriteBack
  <2>3. cmd'[a].at = "write" /\ cmd'[a].op = cmd[a].op /\ cmd'[a].sid = cmd[a].sid
    BY <1>0, <2>2 DEF Commands
  <2>4. a # v
    BY <2>1, <2>3
  <2>5. ptr[v] = cmd[a].sid /\ ptr'[v] = Nobody /\ KindOf[a] # KindOf[v]
    BY <2>1, <2>4, AnchorsOf
  <2>. QED  BY <2>1, <2>3, <2>4, <2>5 DEF TakenBy
<1>7. ASSUME NEW r, \/ AddTree(a, r) \/ GitMerge(a, r) \/ GitMergeFails(a, r)
                    \/ DropTree(a, r) \/ DropRef(a, r)
      PROVE  FALSE
  BY <1>7 DEF AddTree, GitMerge, GitMergeFails, DropTree, DropRef
<1>8. ASSUME \/ DropFails(a) \/ CreateFails(a) \/ Found(a) \/ Skeleton(a)
             \/ CollapseLock(a) \/ CollapseParent(a) \/ CollapseChild(a) \/ Kill(a)
      PROVE  FALSE
  BY <1>8 DEF DropFails, CreateFails, Found, Skeleton, CollapseLock, CollapseParent,
              CollapseChild, Kill
<1>. QED  BY <1>2, <1>3, <1>4, <1>5, <1>6, <1>7, <1>8 DEF WorkflowStep

(* For every interleaving of the commands, a window that runs none of its   *)
(* own is only taken from a session that exists, and then anchored to none, *)
(* by a command that concerns that session: the attach of another harness   *)
(* to it, its stop or restart or a forced stop, its housekeeping while it   *)
(* has no target, the start of another project from it, or the daemon that  *)
(* finds the window stale (resolver.py:218-220, 448-503).                   *)
THEOREM WindowsStayAttached == Spec => WindowsKeepTheirSession
<1>. DEFINE Reason(v) == ptr'[v] = Nobody /\ \E a \in Windows \ {v} : TakenBy(a, v)
            A == \A v \in Windows :
                   ptr'[v] # ptr[v] /\ cmd'[v] = cmd[v] /\ Exists(ptr[v]) => Reason(v)
<1>1. ASSUME TypeInv, Next, NEW v \in Windows,
             ptr'[v] # ptr[v], cmd'[v] = cmd[v], Exists(ptr[v])
      PROVE  Reason(v)
  <2>1. ASSUME UserStep PROVE FALSE
    BY <1>1, <2>1 DEF UserStep, Commit, Edit, UserChanges, UserSwitches
  <2>2. PICK a \in Windows : WorkflowStep(a) \/ SessionStep(a)
    BY <1>1, <2>1 DEF Next
  <2>3. a # v /\ ptr'[v] = Nobody /\ TakenBy(a, v)
    BY <1>1, <2>2, SessionAnchors, WorkflowAnchors
  <2>. QED  BY <2>3
<1>. HIDE DEF Reason
<1>2. TypeInv /\ [Next]_vars => [A]_vars
  BY <1>1
<1>3. [][A]_vars => WindowsKeepTheirSession
  BY PTL DEF WindowsKeepTheirSession, Reason
<1>. QED  BY <1>2, <1>3, TypeInvariant, PTL DEF Spec
=============================================================================
