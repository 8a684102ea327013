------------------------ MODULE ProjectRecord_proofs ------------------------
(* A project record under any number of commands, names, repositories and   *)
(* sessions: it stays well formed, and a circle of commands that wait for   *)
(* each other is one that waits for itself.                                 *)
EXTENDS ProjectRecord, TLAPS

Acts(p) == CallRecord(p) \/ CallRepository(p) \/ CallEntry(p) \/ Step(p) \/ Kill(p)

(* What a command was asked and has found, by its kind.                     *)
Shape(c) ==
    /\ c.op \in {"merge", "rename", "remove"} /\ c.at \notin {"idle", "go"} =>
          c.name \in Names /\ c.seen.subs[c.name] \in Entries
    /\ c.op \in {"add", "branch", "rename"} => c.name \in Names
    /\ c.op = "rename" => c.to \in Names
    /\ c.op \in {"link", "unlink", "found", "catalog", "drop", "relink"} => c.repo \in Repos
    /\ c.op = "relink" => c.new \in Repos
    /\ c.op = "goal" => c.goal \in Goals
Shapes == \A p \in Procs : Shape(cmd[p])
TypeInv == TypeOK /\ Shapes

-----------------------------------------------------------------------------
(* The values the actions build with are of the right kind.                 *)
LEMMA Values ==
    /\ Main \in Targets /\ \A n \in Names : n \in Targets
    /\ \A n \in Targets : Md(n) \in Files /\ Archive(n) \in Files
    /\ Stub \in Docs /\ Blank \in Docs
    /\ NoRecord \in Records /\ Founded \in Records
    /\ Idle \in Commands /\ Shape(Idle)
    /\ \A n \in Targets : Regular(n) \in Entries
    /\ \A n \in Targets, m \in Targets, r \in Repos : Branch(n, m, r) \in Entries
<1>1. Main \in Targets /\ \A n \in Names : n \in Targets
  BY DEF Targets
<1>2. \A n \in Targets : Md(n) \in Files /\ Archive(n) \in Files
  BY DEF Md, Archive, Files
<1>3. Stub \in Docs /\ Blank \in Docs
  BY DEF Stub, Blank, Docs
<1>4. NoRecord \in Records
  BY DEF NoRecord, Records
<1>5. Founded \in Records
  BY <1>4 DEF Founded, Records
<1>6. Idle \in Commands
  BY <1>1, <1>2, <1>3, <1>4 DEF Idle, Commands, Ops, Steps, Edits
<1>7. Shape(Idle)
  BY DEF Idle, Shape
<1>8. \A n \in Targets : Regular(n) \in Entries
  BY <1>1, <1>2 DEF Regular, Entries
<1>9. \A n \in Targets, m \in Targets, r \in Repos : Branch(n, m, r) \in Entries
  BY <1>2 DEF Branch, Entries
<1>. QED  BY <1>1, <1>2, <1>3, <1>4, <1>5, <1>6, <1>7, <1>8, <1>9

(* A record with one entry put in or taken out.                             *)
LEMMA WithTyped ==
    ASSUME NEW y \in Records, NEW n, NEW e \in Entries \union {NoEntry}
    PROVE  With(y, n, e) \in Records /\ (n \in Names => With(y, n, e).subs[n] = e)
<1>1. y.subs \in [Names -> Entries \union {NoEntry}]
  BY DEF Records
<1>2. [y.subs EXCEPT ![n] = e] \in [Names -> Entries \union {NoEntry}]
  BY <1>1
<1>. QED  BY <1>1, <1>2 DEF With, Records

(* A target that resolves has a document's name.                            *)
LEMMA FileTyped ==
    ASSUME NEW y \in Records, NEW n, Resolves(y, n)
    PROVE  n \in Targets /\ FileOf(y, n) \in Files
<1>1. CASE n = Main
  BY <1>1, Values DEF FileOf
<1>2. CASE n # Main
  <2>1. n \in Names /\ y.subs[n] # NoEntry
    BY <1>2 DEF Resolves, Live, Has
  <2>2. y.subs[n] \in Entries
    BY <2>1 DEF Records
  <2>. QED  BY <1>2, <2>1, <2>2, Values DEF FileOf, Entries
<1>. QED  BY <1>1, <1>2

(* A command that begins, goes on or ends.                                  *)
LEMMA CommandMoves ==
    ASSUME TypeInv, NEW p \in Procs, NEW c \in Commands, Shape(c),
           cmd' = [cmd EXCEPT ![p] = c]
    PROVE  cmd' \in [Procs -> Commands] /\ Shapes'
<1>1. cmd \in [Procs -> Commands]
  BY DEF TypeInv, TypeOK
<1>2. cmd' \in [Procs -> Commands] /\ \A q \in Procs : cmd'[q] = IF q = p THEN c ELSE cmd[q]
  BY <1>1
<1>. QED  BY <1>2 DEF Shapes, TypeInv

(* A command that ends, or is killed, leaves the rest typed.                *)
LEMMA LeaveTyped ==
    ASSUME TypeInv, NEW p \in Procs, Leave(p)
    PROVE  /\ cmd' \in [Procs -> Commands] /\ Shapes' /\ left' \in 0 .. MaxCommands
           /\ ylock' \in Procs \union {Nobody} /\ mlock' \in [Files -> Procs \union {Nobody}]
           /\ overlap' \in BOOLEAN
<1>1. cmd' \in [Procs -> Commands] /\ Shapes'
  BY CommandMoves, Values DEF Leave
<1>. QED  BY <1>1 DEF Leave, TypeInv, TypeOK

(* A command that goes on with something else in hand does.                 *)
LEMMA GotoTyped ==
    ASSUME TypeInv, NEW p \in Procs, NEW c \in Commands, Shape(c), Goto(p, c)
    PROVE  cmd' \in [Procs -> Commands] /\ Shapes'
BY CommandMoves DEF Goto

(* So does one that begins.                                                 *)
LEMMA CallTyped ==
    ASSUME TypeInv, NEW p \in Procs, NEW c \in Commands, Shape(c), c.at = "idle",
           c.op \notin {"merge", "rename", "remove"} \/ (c.name \in Names /\ c.to \in Names \union {Main}),
           Call(p, c)
    PROVE  /\ cmd' \in [Procs -> Commands] /\ Shapes' /\ left' \in 0 .. MaxCommands
           /\ overlap' \in BOOLEAN
<1>1. [c EXCEPT !.at = "go"] \in Commands /\ Shape([c EXCEPT !.at = "go"])
  BY DEF Commands, Steps, Shape
<1>2. overlap' \in BOOLEAN
  BY Zenon DEF Call, TypeInv, TypeOK
<1>3. left' \in 0 .. MaxCommands
  BY BudgetAssumption DEF Call, TypeInv, TypeOK
<1>. QED  BY <1>1, <1>2, <1>3, CommandMoves DEF Call

(* What the type invariant says of one command.                             *)
LEMMA Here == ASSUME TypeInv, NEW p \in Procs PROVE cmd[p] \in Commands /\ Shape(cmd[p])
BY DEF TypeInv, TypeOK, Shapes

(* A record in which a repository was renamed.                              *)
LEMMA RelinkedTyped ==
    ASSUME NEW y \in Records, NEW r \in Repos, NEW q \in Repos
    PROVE  Relinked(y, r, q) \in Records
<1>1. y.subs \in [Names -> Entries \union {NoEntry}] /\ y.repos \in SUBSET Repos
  BY DEF Records
<1>2. ASSUME NEW n \in Names
      PROVE  (IF Has(y, n) /\ y.subs[n].repo = r THEN [y.subs[n] EXCEPT !.repo = q]
              ELSE y.subs[n]) \in Entries \union {NoEntry}
  BY <1>1 DEF Has, Entries
<1>3. Swapped(y.repos, r, q) \in SUBSET Repos
  BY <1>1 DEF Swapped
<1>4. [n \in Names |-> IF Has(y, n) /\ y.subs[n].repo = r
                       THEN [y.subs[n] EXCEPT !.repo = q] ELSE y.subs[n]]
         \in [Names -> Entries \union {NoEntry}]
  BY <1>2
<1>. QED  BY <1>3, <1>4 DEF Relinked, Records

(* A record in which a subproject was renamed.                              *)
LEMMA RenamedTyped ==
    ASSUME NEW y \in Records, NEW n \in Names, NEW m \in Names
    PROVE  Renamed(y, n, m) \in Records
<1>. DEFINE moved == [y.subs EXCEPT ![n] = NoEntry, ![m] = y.subs[n]]
<1>1. y.subs \in [Names -> Entries \union {NoEntry}]
  BY DEF Records
<1>2. moved \in [Names -> Entries \union {NoEntry}]
  BY <1>1
<1>. HIDE DEF moved
<1>3. [k \in Names |-> IF moved[k] # NoEntry /\ moved[k].parent = n
                       THEN [moved[k] EXCEPT !.parent = m] ELSE moved[k]]
         \in [Names -> Entries \union {NoEntry}]
  <2>1. ASSUME NEW k \in Names
        PROVE  (IF moved[k] # NoEntry /\ moved[k].parent = n
                THEN [moved[k] EXCEPT !.parent = m] ELSE moved[k]) \in Entries \union {NoEntry}
    BY <1>2, Values DEF Entries
  <2>. QED  BY <2>1
<1>. QED  BY <1>3 DEF Renamed, Records, moved

(* A command that only goes on keeps what its kind needs.                   *)
LEMMA OnwardTyped ==
    ASSUME TypeInv, NEW p \in Procs, NEW at \in Steps, Onward(p, at),
           cmd[p].at \notin {"idle", "go"} \/ cmd[p].op \notin {"merge", "rename", "remove"}
    PROVE  /\ cmd' \in [Procs -> Commands] /\ Shapes' /\ left' \in 0 .. MaxCommands
           /\ overlap' \in BOOLEAN /\ killed' = killed
<1>1. cmd[p] \in Commands /\ Shape(cmd[p])
  BY DEF TypeInv, TypeOK, Shapes
<1>2. [cmd[p] EXCEPT !.at = at] \in Commands
  BY <1>1 DEF Commands
<1>3. Shape([cmd[p] EXCEPT !.at = at])
  BY <1>1 DEF Shape, Commands
<1>. QED  BY <1>2, <1>3, CommandMoves DEF Onward, Goto, TypeInv, TypeOK

(* What a command is asked is legal.                                        *)
LEMMA Asked ==
    ASSUME NEW p \in Procs, CallRecord(p) \/ CallRepository(p) \/ CallEntry(p)
    PROVE  \E c \in Commands :
              /\ Call(p, c) /\ Shape(c) /\ c.at = "idle" /\ c.op # "none"
              /\ c.op \notin {"merge", "rename", "remove"}
                 \/ (c.name \in Names /\ c.to \in Names \union {Main})
<1>1. CASE CallRecord(p)
  <2>1. CASE \E n \in Targets : Call(p, [Idle EXCEPT !.op = "ensure", !.name = n])
    <3>1. PICK n \in Targets : Call(p, [Idle EXCEPT !.op = "ensure", !.name = n])
      BY <2>1
    <3>. DEFINE c == [Idle EXCEPT !.op = "ensure", !.name = n]
    <3>2. c \in Commands /\ c.at = "idle" /\ Shape(c) /\ c.op # "none"
      BY Values DEF Idle, Commands, Ops, Edits, Shape
    <3>3. c.op \notin {"merge", "rename", "remove"}
           \/ (c.name \in Names /\ c.to \in Names \union {Main})
      BY DEF Idle
    <3>4. Call(p, c)
      BY <3>1
    <3>. HIDE DEF c
    <3>. QED  BY <3>2, <3>3, <3>4
  <2>2. CASE \E n \in Names, s \in Sessions : Call(p, [Idle EXCEPT !.op = "add", !.name = n, !.on = s])
    <3>1. PICK n \in Names, s \in Sessions : Call(p, [Idle EXCEPT !.op = "add", !.name = n, !.on = s])
      BY <2>2
    <3>. DEFINE c == [Idle EXCEPT !.op = "add", !.name = n, !.on = s]
    <3>2. c \in Commands /\ c.at = "idle" /\ Shape(c) /\ c.op # "none"
      BY Values DEF Idle, Commands, Ops, Edits, Shape
    <3>3. c.op \notin {"merge", "rename", "remove"}
           \/ (c.name \in Names /\ c.to \in Names \union {Main})
      BY DEF Idle
    <3>4. Call(p, c)
      BY <3>1
    <3>. HIDE DEF c
    <3>. QED  BY <3>2, <3>3, <3>4
  <2>3. CASE \E n \in Targets, s \in Sessions : Call(p, [Idle EXCEPT !.op = "set", !.name = n, !.on = s])
    <3>1. PICK n \in Targets, s \in Sessions : Call(p, [Idle EXCEPT !.op = "set", !.name = n, !.on = s])
      BY <2>3
    <3>. DEFINE c == [Idle EXCEPT !.op = "set", !.name = n, !.on = s]
    <3>2. c \in Commands /\ c.at = "idle" /\ Shape(c) /\ c.op # "none"
      BY Values DEF Idle, Commands, Ops, Edits, Shape
    <3>3. c.op \notin {"merge", "rename", "remove"}
           \/ (c.name \in Names /\ c.to \in Names \union {Main})
      BY DEF Idle
    <3>4. Call(p, c)
      BY <3>1
    <3>. HIDE DEF c
    <3>. QED  BY <3>2, <3>3, <3>4
  <2>4. CASE \E n \in Names, m \in Targets, r \in Repos : Call(p, [Idle EXCEPT !.op = "branch", !.name = n, !.to = m, !.repo = r])
    <3>1. PICK n \in Names, m \in Targets, r \in Repos : Call(p, [Idle EXCEPT !.op = "branch", !.name = n, !.to = m, !.repo = r])
      BY <2>4
    <3>. DEFINE c == [Idle EXCEPT !.op = "branch", !.name = n, !.to = m, !.repo = r]
    <3>2. c \in Commands /\ c.at = "idle" /\ Shape(c) /\ c.op # "none"
      BY Values DEF Idle, Commands, Ops, Edits, Shape
    <3>3. c.op \notin {"merge", "rename", "remove"}
           \/ (c.name \in Names /\ c.to \in Names \union {Main})
      BY DEF Idle
    <3>4. Call(p, c)
      BY <3>1
    <3>. HIDE DEF c
    <3>. QED  BY <3>2, <3>3, <3>4
  <2>5. CASE \E n \in Names, o \in {"merge", "remove"} : Call(p, [Idle EXCEPT !.op = o, !.name = n])
    <3>1. PICK n \in Names, o \in {"merge", "remove"} : Call(p, [Idle EXCEPT !.op = o, !.name = n])
      BY <2>5
    <3>. DEFINE c == [Idle EXCEPT !.op = o, !.name = n]
    <3>2. c \in Commands /\ c.at = "idle" /\ Shape(c) /\ c.op # "none"
      BY Values DEF Idle, Commands, Ops, Edits, Shape
    <3>3. c.op \notin {"merge", "rename", "remove"}
           \/ (c.name \in Names /\ c.to \in Names \union {Main})
      BY DEF Idle
    <3>4. Call(p, c)
      BY <3>1
    <3>. HIDE DEF c
    <3>. QED  BY <3>2, <3>3, <3>4
  <2>6. CASE \E n \in Names : \E m \in Names \ {n} : Call(p, [Idle EXCEPT !.op = "rename", !.name = n, !.to = m])
    <3>1. PICK n \in Names : \E m \in Names \ {n} : Call(p, [Idle EXCEPT !.op = "rename", !.name = n, !.to = m])
      BY <2>6
    <3>2. PICK m \in Names \ {n} : Call(p, [Idle EXCEPT !.op = "rename", !.name = n, !.to = m])
      BY <3>1
    <3>. DEFINE c == [Idle EXCEPT !.op = "rename", !.name = n, !.to = m]
    <3>3. c \in Commands /\ c.at = "idle" /\ Shape(c) /\ c.op # "none"
      BY Values DEF Idle, Commands, Ops, Edits, Shape
    <3>4. c.op \notin {"merge", "rename", "remove"}
           \/ (c.name \in Names /\ c.to \in Names \union {Main})
      BY DEF Idle
    <3>5. Call(p, c)
      BY <3>2
    <3>. HIDE DEF c
    <3>. QED  BY <3>3, <3>4, <3>5
  <2>. QED  BY <1>1, <2>1, <2>2, <2>3, <2>4, <2>5, <2>6 DEF CallRecord
<1>2. CASE CallRepository(p)
  <2>1. CASE \E r \in Repos, o \in {"link", "unlink", "found", "catalog", "drop"} : Call(p, [Idle EXCEPT !.op = o, !.repo = r])
    <3>1. PICK r \in Repos, o \in {"link", "unlink", "found", "catalog", "drop"} : Call(p, [Idle EXCEPT !.op = o, !.repo = r])
      BY <2>1
    <3>. DEFINE c == [Idle EXCEPT !.op = o, !.repo = r]
    <3>2. c \in Commands /\ c.at = "idle" /\ Shape(c) /\ c.op # "none"
      BY Values DEF Idle, Commands, Ops, Edits, Shape
    <3>3. c.op \notin {"merge", "rename", "remove"}
           \/ (c.name \in Names /\ c.to \in Names \union {Main})
      BY DEF Idle
    <3>4. Call(p, c)
      BY <3>1
    <3>. HIDE DEF c
    <3>. QED  BY <3>2, <3>3, <3>4
  <2>2. CASE \E r \in Repos : \E q \in Repos \ {r} : Call(p, [Idle EXCEPT !.op = "relink", !.repo = r, !.new = q])
    <3>1. PICK r \in Repos : \E q \in Repos \ {r} : Call(p, [Idle EXCEPT !.op = "relink", !.repo = r, !.new = q])
      BY <2>2
    <3>2. PICK q \in Repos \ {r} : Call(p, [Idle EXCEPT !.op = "relink", !.repo = r, !.new = q])
      BY <3>1
    <3>. DEFINE c == [Idle EXCEPT !.op = "relink", !.repo = r, !.new = q]
    <3>3. c \in Commands /\ c.at = "idle" /\ Shape(c) /\ c.op # "none"
      BY Values DEF Idle, Commands, Ops, Edits, Shape
    <3>4. c.op \notin {"merge", "rename", "remove"}
           \/ (c.name \in Names /\ c.to \in Names \union {Main})
      BY DEF Idle
    <3>5. Call(p, c)
      BY <3>2
    <3>. HIDE DEF c
    <3>. QED  BY <3>3, <3>4, <3>5
  <2>. QED  BY <1>2, <2>1, <2>2 DEF CallRepository
<1>3. CASE CallEntry(p)
  <2>1. CASE \E n \in Targets, g \in Goals, k \in Edits \ {"none"} : Call(p, [Idle EXCEPT !.op = "goal", !.name = n, !.edit = k, !.goal = g])
    <3>1. PICK n \in Targets, g \in Goals, k \in Edits \ {"none"} : Call(p, [Idle EXCEPT !.op = "goal", !.name = n, !.edit = k, !.goal = g])
      BY <2>1
    <3>. DEFINE c == [Idle EXCEPT !.op = "goal", !.name = n, !.edit = k, !.goal = g]
    <3>2. c \in Commands /\ c.at = "idle" /\ Shape(c) /\ c.op # "none"
      BY Values DEF Idle, Commands, Ops, Edits, Shape
    <3>3. c.op \notin {"merge", "rename", "remove"}
           \/ (c.name \in Names /\ c.to \in Names \union {Main})
      BY DEF Idle
    <3>4. Call(p, c)
      BY <3>1
    <3>. HIDE DEF c
    <3>. QED  BY <3>2, <3>3, <3>4
  <2>2. CASE \E s \in Sessions, o \in {"decision", "report", "risk"} : Call(p, [Idle EXCEPT !.op = o, !.on = s])
    <3>1. PICK s \in Sessions, o \in {"decision", "report", "risk"} : Call(p, [Idle EXCEPT !.op = o, !.on = s])
      BY <2>2
    <3>. DEFINE c == [Idle EXCEPT !.op = o, !.on = s]
    <3>2. c \in Commands /\ c.at = "idle" /\ Shape(c) /\ c.op # "none"
      BY Values DEF Idle, Commands, Ops, Edits, Shape
    <3>3. c.op \notin {"merge", "rename", "remove"}
           \/ (c.name \in Names /\ c.to \in Names \union {Main})
      BY DEF Idle
    <3>4. Call(p, c)
      BY <3>1
    <3>. HIDE DEF c
    <3>. QED  BY <3>2, <3>3, <3>4
  <2>. QED  BY <1>3, <2>1, <2>2 DEF CallEntry
<1>. QED  BY <1>1, <1>2, <1>3

(* Every step leaves every command with what its kind needs.                *)
LEMMA CommandsTyped ==
    ASSUME TypeInv,
           NEW p \in Procs, Acts(p)
    PROVE  cmd' \in [Procs -> Commands] /\ Shapes'
<1>1. CASE CallRecord(p)
  BY <1>1, Asked, CallTyped
<1>2. CASE CallRepository(p)
  BY <1>2, Asked, CallTyped
<1>3. CASE CallEntry(p)
  BY <1>3, Asked, CallTyped
<1>4. CASE Kill(p)
  BY <1>4, LeaveTyped, OnwardTyped, CommandMoves DEF Kill, Leave, Steps
<1>5. CASE EnsureLock(p)
  <2>1. /\ Goto(p, [cmd[p] EXCEPT !.at = IF yaml.made THEN "sub" ELSE "main",
           !.seen = yaml'])
        /\ cmd[p].op = "ensure"
    BY <1>5 DEF EnsureLock, At, LockRecord
  <2>2. yaml' \in Records
    BY <1>5, <2>1, Values DEF TypeInv, TypeOK, EnsureLock
  <2>3. cmd[p] \in Commands /\ Shape(cmd[p])
    BY Here
  <2>4. [cmd[p] EXCEPT !.at = IF yaml.made THEN "sub" ELSE "main", !.seen =
        yaml'] \in Commands
    BY <2>1, <2>2, <2>3 DEF Commands, Steps
  <2>5. Shape([cmd[p] EXCEPT !.at = IF yaml.made THEN "sub" ELSE "main",
        !.seen = yaml'])
    BY <2>1, <2>2, <2>3 DEF Shape, Commands
  <2>. QED  BY <2>1, <2>4, <2>5, GotoTyped
<1>6. CASE EnsureMain(p)
  BY <1>6, LeaveTyped, OnwardTyped, CommandMoves DEF EnsureMain, At, Onward, Goto, Steps
<1>7. CASE EnsureSub(p)
  <2>1. CASE Fail(p)
    BY <2>1, LeaveTyped DEF Fail, Return
  <2>2. CASE ~Fail(p)
    <3>1. /\ Goto(p, [cmd[p] EXCEPT !.at = "yaml", !.seen = With(@, cmd[p].name,
             Regular(cmd[p].name))])
          /\ cmd[p].op = "ensure"
      BY <1>7, <2>2 DEF EnsureSub, At
    <3>2. With(cmd[p].seen, cmd[p].name, Regular(cmd[p].name)) \in Records
      BY <3>1, Values, WithTyped, Here DEF TypeInv, TypeOK, Commands
    <3>3. cmd[p] \in Commands /\ Shape(cmd[p])
      BY Here
    <3>4. [cmd[p] EXCEPT !.at = "yaml", !.seen = With(@, cmd[p].name,
          Regular(cmd[p].name))] \in Commands
      BY <3>1, <3>2, <3>3 DEF Commands, Steps
    <3>5. Shape([cmd[p] EXCEPT !.at = "yaml", !.seen = With(@, cmd[p].name,
          Regular(cmd[p].name))])
      BY <3>1, <3>2, <3>3 DEF Shape, Commands
    <3>. QED  BY <3>1, <3>4, <3>5, GotoTyped
  <2>. QED  BY <2>1, <2>2
<1>8. CASE AddLook(p)
  <2>1. CASE Fail(p)
    BY <2>1, LeaveTyped DEF Fail, Return
  <2>2. CASE Onward(p, "select")
    BY <1>8, <2>2, OnwardTyped DEF AddLook, At, Steps
  <2>3. CASE ~Fail(p) /\ ~Onward(p, "select")
    <3>. DEFINE y == With(yaml, cmd[p].name, Regular(cmd[p].name))
    <3>1. /\ Goto(p, [cmd[p] EXCEPT !.at = "md", !.was = yaml, !.seen = y])
          /\ cmd[p].op = "add"
      BY <1>8, <2>3 DEF AddLook, At
    <3>2. cmd[p] \in Commands /\ Shape(cmd[p])
      BY Here
    <3>3. yaml \in Records /\ y \in Records
      BY <3>2, Values, WithTyped DEF TypeInv, TypeOK, Commands
    <3>. HIDE DEF y
    <3>4. [cmd[p] EXCEPT !.at = "md", !.was = yaml, !.seen = y] \in Commands
      BY <3>2, <3>3 DEF Commands, Steps
    <3>5. Shape([cmd[p] EXCEPT !.at = "md", !.was = yaml, !.seen = y])
      BY <3>1, <3>2, <3>3 DEF Shape, Commands
    <3>. QED  BY <3>1, <3>4, <3>5, GotoTyped
  <2>. QED  BY <2>1, <2>2, <2>3
<1>9. CASE BranchLook(p)
  <2>1. CASE Fail(p)
    BY <2>1, LeaveTyped DEF Fail, Return
  <2>2. CASE ~Fail(p)
    <3>1. /\ Goto(p, [cmd[p] EXCEPT !.at = "md", !.was = yaml, !.seen = With(yaml,
             cmd[p].name, Branch(cmd[p].name, cmd[p].to, cmd[p].repo))])
          /\ cmd[p].op = "branch"
          /\ cmd[p].repo \in yaml.repos
      BY <1>9, <2>2 DEF BranchLook, At, LockRecord, Resolves
    <3>2. /\ yaml \in Records
          /\ Branch(cmd[p].name, cmd[p].to, cmd[p].repo) \in Entries
          /\ With(yaml, cmd[p].name, Branch(cmd[p].name, cmd[p].to, cmd[p].repo)) \in Records
      BY <3>1, Values, WithTyped, Here DEF TypeInv, TypeOK, Commands, Records
    <3>3. cmd[p] \in Commands /\ Shape(cmd[p])
      BY Here
    <3>4. [cmd[p] EXCEPT !.at = "md", !.was = yaml, !.seen = With(yaml,
          cmd[p].name, Branch(cmd[p].name, cmd[p].to, cmd[p].repo))] \in Commands
      BY <3>1, <3>2, <3>3 DEF Commands, Steps
    <3>5. Shape([cmd[p] EXCEPT !.at = "md", !.was = yaml, !.seen = With(yaml,
          cmd[p].name, Branch(cmd[p].name, cmd[p].to, cmd[p].repo))])
      BY <3>1, <3>2, <3>3 DEF Shape, Commands
    <3>. QED  BY <3>1, <3>4, <3>5, GotoTyped
  <2>. QED  BY <2>1, <2>2
<1>10. CASE CreateMd(p)
  BY <1>10, LeaveTyped, OnwardTyped, CommandMoves DEF CreateMd, Fail, Return, Leave,
     Onward, Goto, Steps
<1>11. CASE CreateYaml(p)
  <2>1. CASE Return(p)
    BY <2>1, LeaveTyped DEF Return
  <2>2. CASE ~Return(p)
    <3>. DEFINE c == [cmd[p] EXCEPT !.at = "select", !.seen = NoRecord, !.was = NoRecord]
    <3>1. cmd[p].op = "add" /\ Goto(p, c)
      BY <1>11, <2>2 DEF CreateYaml
    <3>2. cmd[p] \in Commands /\ Shape(cmd[p])
      BY Here
    <3>3. c \in Commands
      BY <3>2, Values DEF Commands, Steps
    <3>4. Shape(c)
      BY <3>1, <3>2 DEF Shape, Commands
    <3>. HIDE DEF c
    <3>. QED  BY <3>1, <3>3, <3>4, GotoTyped
  <2>. QED  BY <2>1, <2>2
<1>12. CASE CreateFail(p)
  BY <1>12, LeaveTyped, OnwardTyped, CommandMoves DEF CreateFail, Return, Leave, Steps
<1>13. CASE SelectLook(p)
  <2>1. CASE Fail(p)
    BY <2>1, LeaveTyped DEF Fail, Return
  <2>2. CASE ~Fail(p)
    <3>1. /\ Goto(p, [cmd[p] EXCEPT !.at = "point", !.seen = yaml])
          /\ cmd[p].op \in {"add", "set"}
      BY <1>13, <2>2 DEF SelectLook, At
    <3>2. yaml \in Records
      BY <3>1 DEF TypeInv, TypeOK
    <3>3. cmd[p] \in Commands /\ Shape(cmd[p])
      BY Here
    <3>4. [cmd[p] EXCEPT !.at = "point", !.seen = yaml] \in Commands
      BY <3>1, <3>2, <3>3 DEF Commands, Steps
    <3>5. Shape([cmd[p] EXCEPT !.at = "point", !.seen = yaml])
      BY <3>1, <3>2, <3>3 DEF Shape, Commands
    <3>. QED  BY <3>1, <3>4, <3>5, GotoTyped
  <2>. QED  BY <2>1, <2>2
<1>14. CASE SelectPoint(p)
  BY <1>14, LeaveTyped, OnwardTyped, CommandMoves DEF SelectPoint, Return, Leave, Steps
<1>15. CASE MergeLook(p)
  <2>1. CASE Fail(p)
    BY <2>1, LeaveTyped DEF Fail, Return
  <2>2. CASE ~Fail(p)
    <3>1. /\ Goto(p, [cmd[p] EXCEPT !.at = "lock", !.seen = yaml, !.file =
             FileOf(yaml, yaml.subs[cmd[p].name].parent)])
          /\ cmd[p].op = "merge"
          /\ cmd[p].name \in Names
          /\ yaml.subs[cmd[p].name] # NoEntry
          /\ Resolves(yaml, yaml.subs[cmd[p].name].parent)
      BY <1>15, <2>2 DEF MergeLook, At, LockRecord, Live, Has
    <3>2. /\ yaml \in Records
          /\ FileOf(yaml, yaml.subs[cmd[p].name].parent) \in Files
          /\ yaml.subs[cmd[p].name] \in Entries
      BY <3>1, FileTyped DEF TypeInv, TypeOK, Records
    <3>3. cmd[p] \in Commands /\ Shape(cmd[p])
      BY Here
    <3>4. [cmd[p] EXCEPT !.at = "lock", !.seen = yaml, !.file = FileOf(yaml,
          yaml.subs[cmd[p].name].parent)] \in Commands
      BY <3>1, <3>2, <3>3 DEF Commands, Steps
    <3>5. Shape([cmd[p] EXCEPT !.at = "lock", !.seen = yaml, !.file =
          FileOf(yaml, yaml.subs[cmd[p].name].parent)])
      BY <3>1, <3>2, <3>3 DEF Shape, Commands
    <3>. QED  BY <3>1, <3>4, <3>5, GotoTyped
  <2>. QED  BY <2>1, <2>2
<1>16. CASE MergeLock(p)
  BY <1>16, LeaveTyped, OnwardTyped, CommandMoves DEF MergeLock, At, LockDoc, Onward,
     Goto, Steps
<1>17. CASE MergeRead(p)
  <2>1. CASE Fail(p)
    BY <2>1, LeaveTyped DEF Fail, Return
  <2>2. CASE ~Fail(p)
    <3>1. /\ Goto(p, [cmd[p] EXCEPT !.at = "archive", !.was = yaml, !.text =
             doc[Merged(p).file], !.other = doc[cmd[p].file]])
          /\ cmd[p].op = "merge"
          /\ cmd[p].at = "read"
          /\ doc[Merged(p).file] # NoDoc
          /\ doc[cmd[p].file] # NoDoc
      BY <1>17, <2>2 DEF MergeRead, At
    <3>2. /\ yaml \in Records
          /\ Merged(p) \in Entries
          /\ doc[Merged(p).file] \in Docs
          /\ doc[cmd[p].file] \in Docs
      BY <3>1, Here DEF TypeInv, TypeOK, Merged, Shape, Commands, Entries
    <3>3. cmd[p] \in Commands /\ Shape(cmd[p])
      BY Here
    <3>4. [cmd[p] EXCEPT !.at = "archive", !.was = yaml, !.text =
          doc[Merged(p).file], !.other = doc[cmd[p].file]] \in Commands
      BY <3>1, <3>2, <3>3 DEF Commands, Steps
    <3>5. Shape([cmd[p] EXCEPT !.at = "archive", !.was = yaml, !.text =
          doc[Merged(p).file], !.other = doc[cmd[p].file]])
      BY <3>1, <3>2, <3>3 DEF Shape, Commands
    <3>. QED  BY <3>1, <3>4, <3>5, GotoTyped
  <2>. QED  BY <2>1, <2>2
<1>18. CASE MergeArchive(p)
  BY <1>18, LeaveTyped, OnwardTyped, CommandMoves DEF MergeArchive, At, Onward, Goto, Steps
<1>19. CASE MergeParent(p)
  BY <1>19, LeaveTyped, OnwardTyped, CommandMoves DEF MergeParent, At, Onward, Goto, Steps
<1>20. CASE MergeYaml(p)
  BY <1>20, LeaveTyped, OnwardTyped, CommandMoves DEF MergeYaml, At, Onward, Goto, Steps
<1>21. CASE MergeUnlink(p)
  BY <1>21, LeaveTyped, OnwardTyped, CommandMoves DEF MergeUnlink, At, Return, Leave, Steps
<1>22. CASE MergeFail(p)
  BY <1>22, LeaveTyped, OnwardTyped, CommandMoves DEF MergeFail, Onward, Goto, Steps
<1>22a. CASE MergeRestore(p)
  BY <1>22a, LeaveTyped, OnwardTyped, CommandMoves DEF MergeRestore, At, Onward, Goto, Steps
<1>22b. CASE MergeRevert(p)
  BY <1>22b, LeaveTyped, OnwardTyped, CommandMoves DEF MergeRevert, At, Onward, Goto, Steps
<1>22c. CASE MergeDiscard(p)
  BY <1>22c, LeaveTyped, OnwardTyped, CommandMoves DEF MergeDiscard, At, Return, Leave, Steps
<1>23. CASE RenameLook(p)
  <2>1. CASE Fail(p)
    BY <2>1, LeaveTyped DEF Fail, Return
  <2>2. CASE ~Fail(p)
    <3>1. /\ Goto(p, [cmd[p] EXCEPT !.at = "md", !.seen = yaml])
          /\ cmd[p].op = "rename"
          /\ cmd[p].name \in Names
          /\ yaml.subs[cmd[p].name] # NoEntry
      BY <1>23, <2>2 DEF RenameLook, At, Has
    <3>2. /\ yaml \in Records
          /\ yaml.subs[cmd[p].name] \in Entries
      BY <3>1, Here DEF TypeInv, TypeOK, Records
    <3>3. cmd[p] \in Commands /\ Shape(cmd[p])
      BY Here
    <3>4. [cmd[p] EXCEPT !.at = "md", !.seen = yaml] \in Commands
      BY <3>1, <3>2, <3>3 DEF Commands, Steps
    <3>5. Shape([cmd[p] EXCEPT !.at = "md", !.seen = yaml])
      BY <3>1, <3>2, <3>3 DEF Shape, Commands
    <3>. QED  BY <3>1, <3>4, <3>5, GotoTyped
  <2>. QED  BY <2>1, <2>2
<1>24. CASE RenameMd(p)
  <2>1. CASE Fail(p)
    BY <2>1, LeaveTyped DEF Fail, Return
  <2>2. CASE Onward(p, "yaml")
    BY <1>24, <2>2, OnwardTyped DEF RenameMd, At, Steps
  <2>3. CASE ~Fail(p) /\ ~Onward(p, "yaml")
    <3>. DEFINE n == cmd[p].name
                e == [cmd[p].seen.subs[n] EXCEPT !.file = Md(cmd[p].to)]
                y == [cmd[p].seen EXCEPT !.subs = [@ EXCEPT ![n] = e]]
    <3>1. /\ cmd[p].op = "rename" /\ cmd[p].at = "md"
          /\ Goto(p, [cmd[p] EXCEPT !.at = "yaml", !.seen.subs[n].file = Md(cmd[p].to)])
      BY <1>24, <2>3 DEF RenameMd, At
    <3>2. cmd[p] \in Commands /\ Shape(cmd[p])
      BY Here
    <3>3. n \in Names /\ cmd[p].seen.subs[n] \in Entries /\ Md(cmd[p].to) \in Files
      BY <3>1, <3>2, Values DEF Shape
    <3>4. e \in Entries
      BY <3>3 DEF Entries
    <3>5. [cmd[p] EXCEPT !.at = "yaml", !.seen.subs[n].file = Md(cmd[p].to)]
             = [cmd[p] EXCEPT !.at = "yaml", !.seen = y]
      BY <3>2 DEF Commands, Records
    <3>. HIDE DEF e
    <3>6. y \in Records /\ y.subs[n] = e
      BY <3>2, <3>3, <3>4 DEF Commands, Records
    <3>. HIDE DEF y, n
    <3>7. [cmd[p] EXCEPT !.at = "yaml", !.seen = y] \in Commands
      BY <3>2, <3>6 DEF Commands, Steps
    <3>8. Shape([cmd[p] EXCEPT !.at = "yaml", !.seen = y])
      BY <3>1, <3>2, <3>3, <3>4, <3>6 DEF Shape, Commands, n
    <3>. QED  BY <3>1, <3>5, <3>7, <3>8, GotoTyped
  <2>. QED  BY <2>1, <2>2, <2>3
<1>25. CASE RenameYaml(p)
  BY <1>25, LeaveTyped, OnwardTyped, CommandMoves DEF RenameYaml, At, Onward, Goto, Steps
<1>26. CASE RenameSessions(p)
  BY <1>26, LeaveTyped, OnwardTyped, CommandMoves DEF RenameSessions, At, Return, Leave,
     Steps
<1>27. CASE RemoveLook(p)
  <2>1. CASE Fail(p)
    BY <2>1, LeaveTyped DEF Fail, Return
  <2>2. CASE ~Fail(p)
    <3>1. /\ Goto(p, [cmd[p] EXCEPT !.at = "md", !.seen = yaml])
          /\ cmd[p].op = "remove"
          /\ cmd[p].name \in Names
          /\ yaml.subs[cmd[p].name] # NoEntry
      BY <1>27, <2>2 DEF RemoveLook, At, Has
    <3>2. /\ yaml \in Records
          /\ yaml.subs[cmd[p].name] \in Entries
      BY <3>1, Here DEF TypeInv, TypeOK, Records
    <3>3. cmd[p] \in Commands /\ Shape(cmd[p])
      BY Here
    <3>4. [cmd[p] EXCEPT !.at = "md", !.seen = yaml] \in Commands
      BY <3>1, <3>2, <3>3 DEF Commands, Steps
    <3>5. Shape([cmd[p] EXCEPT !.at = "md", !.seen = yaml])
      BY <3>1, <3>2, <3>3 DEF Shape, Commands
    <3>. QED  BY <3>1, <3>4, <3>5, GotoTyped
  <2>. QED  BY <2>1, <2>2
<1>28. CASE RemoveMd(p)
  BY <1>28, LeaveTyped, OnwardTyped, CommandMoves DEF RemoveMd, At, Onward, Goto, Steps
<1>29. CASE RemoveYaml(p)
  BY <1>29, LeaveTyped, OnwardTyped, CommandMoves DEF RemoveYaml, At, Return, Leave, Steps
<1>30. CASE AddRepository(p)
  BY <1>30, LeaveTyped, OnwardTyped, CommandMoves DEF AddRepository, At, Return, Leave,
     Steps
<1>31. CASE FoundRegister(p)
  BY <1>31, LeaveTyped, OnwardTyped, CommandMoves DEF FoundRegister, At, Fail, Return,
     Leave, Onward, Goto, Steps
<1>32. CASE FoundRead(p)
  <2>1. /\ Goto(p, [cmd[p] EXCEPT !.at = "yaml", !.seen = yaml])
        /\ cmd[p].op = "found"
    BY <1>32 DEF FoundRead, At, LockRecord
  <2>2. yaml \in Records
    BY <2>1 DEF TypeInv, TypeOK
  <2>3. cmd[p] \in Commands /\ Shape(cmd[p])
    BY Here
  <2>4. [cmd[p] EXCEPT !.at = "yaml", !.seen = yaml] \in Commands
    BY <2>1, <2>2, <2>3 DEF Commands, Steps
  <2>5. Shape([cmd[p] EXCEPT !.at = "yaml", !.seen = yaml])
    BY <2>1, <2>2, <2>3 DEF Shape, Commands
  <2>. QED  BY <2>1, <2>4, <2>5, GotoTyped
<1>33. CASE LinkRead(p)
  <2>1. CASE Fail(p)
    BY <2>1, LeaveTyped DEF Fail, Return
  <2>2. CASE ~Fail(p)
    <3>1. /\ Goto(p, [cmd[p] EXCEPT !.at = "yaml", !.seen = yaml])
          /\ cmd[p].op \in {"link", "unlink"}
      BY <1>33, <2>2 DEF LinkRead
    <3>2. yaml \in Records
      BY <3>1 DEF TypeInv, TypeOK
    <3>3. cmd[p] \in Commands /\ Shape(cmd[p])
      BY Here
    <3>4. [cmd[p] EXCEPT !.at = "yaml", !.seen = yaml] \in Commands
      BY <3>1, <3>2, <3>3 DEF Commands, Steps
    <3>5. Shape([cmd[p] EXCEPT !.at = "yaml", !.seen = yaml])
      BY <3>1, <3>2, <3>3 DEF Shape, Commands
    <3>. QED  BY <3>1, <3>4, <3>5, GotoTyped
  <2>. QED  BY <2>1, <2>2
<1>34. CASE LinkWrite(p)
  BY <1>34, LeaveTyped, OnwardTyped, CommandMoves DEF LinkWrite, Return, Leave, Steps
<1>35. CASE DropLook(p)
  BY <1>35, LeaveTyped, OnwardTyped, CommandMoves DEF DropLook, At, Fail, Return, Leave,
     Onward, Goto, Steps
<1>36. CASE DropRemove(p)
  BY <1>36, LeaveTyped, OnwardTyped, CommandMoves DEF DropRemove, At, Return, Leave, Steps
<1>37. CASE RelinkMove(p)
  BY <1>37, LeaveTyped, OnwardTyped, CommandMoves DEF RelinkMove, At, Fail, Return,
     Leave, Onward, Goto, Steps
<1>38. CASE RelinkFile(p)
  BY <1>38, LeaveTyped, OnwardTyped, CommandMoves DEF RelinkFile, At, Onward, Goto, Steps
<1>39. CASE RelinkRead(p)
  <2>1. /\ Goto(p, [cmd[p] EXCEPT !.at = IF Relinked(yaml, cmd[p].repo,
           cmd[p].new) = yaml THEN "sessions" ELSE "yaml", !.seen =
           Relinked(yaml, cmd[p].repo, cmd[p].new)])
        /\ cmd[p].op = "relink"
    BY <1>39 DEF RelinkRead, At
  <2>2. Relinked(yaml, cmd[p].repo, cmd[p].new) \in Records
    BY <2>1, RelinkedTyped, Here DEF TypeInv, TypeOK, Shape
  <2>3. cmd[p] \in Commands /\ Shape(cmd[p])
    BY Here
  <2>4. [cmd[p] EXCEPT !.at = IF Relinked(yaml, cmd[p].repo, cmd[p].new) =
        yaml THEN "sessions" ELSE "yaml", !.seen = Relinked(yaml, cmd[p].repo,
        cmd[p].new)] \in Commands
    BY <2>1, <2>2, <2>3 DEF Commands, Steps
  <2>5. Shape([cmd[p] EXCEPT !.at = IF Relinked(yaml, cmd[p].repo, cmd[p].new)
        = yaml THEN "sessions" ELSE "yaml", !.seen = Relinked(yaml,
        cmd[p].repo, cmd[p].new)])
    BY <2>1, <2>2, <2>3 DEF Shape, Commands
  <2>. QED  BY <2>1, <2>4, <2>5, GotoTyped
<1>40. CASE RelinkYaml(p)
  BY <1>40, LeaveTyped, OnwardTyped, CommandMoves DEF RelinkYaml, At, Onward, Goto, Steps
<1>41. CASE RelinkSessions(p)
  BY <1>41, LeaveTyped, OnwardTyped, CommandMoves DEF RelinkSessions, At, Return, Leave,
     Steps
<1>42. CASE Target(p)
  <2>1. CASE Fail(p)
    BY <2>1, LeaveTyped DEF Fail, Return
  <2>2. CASE ~Fail(p)
    <3>1. PICK f \in Files : /\ Goto(p, [cmd[p] EXCEPT !.at = "read", !.file = f])
                             /\ cmd[p].op \in Writers
      BY <1>42, <2>2, FileTyped DEF Target, TypeInv, TypeOK
    <3>2. cmd[p] \in Commands /\ Shape(cmd[p])
      BY Here
    <3>3. [cmd[p] EXCEPT !.at = "read", !.file = f] \in Commands
      BY <3>2 DEF Commands, Steps
    <3>4. Shape([cmd[p] EXCEPT !.at = "read", !.file = f])
      BY <3>1, <3>2 DEF Shape, Commands, Writers
    <3>. QED  BY <3>1, <3>3, <3>4, GotoTyped
  <2>. QED  BY <2>1, <2>2
<1>43. CASE Read(p)
  <2>1. CASE Fail(p)
    BY <2>1, LeaveTyped DEF Fail, Return
  <2>2. CASE ~Fail(p)
    <3>1. /\ Goto(p, [cmd[p] EXCEPT !.at = "write", !.text = IF doc[cmd[p].file] =
             NoDoc THEN Blank ELSE doc[cmd[p].file]])
          /\ cmd[p].op \in Writers
      BY <1>43, <2>2 DEF Read, LockDoc
    <3>2. (IF doc[cmd[p].file] = NoDoc THEN Blank ELSE doc[cmd[p].file]) \in Docs
      BY <3>1, Values, Here DEF TypeInv, TypeOK, Commands
    <3>3. cmd[p] \in Commands /\ Shape(cmd[p])
      BY Here
    <3>4. [cmd[p] EXCEPT !.at = "write", !.text = IF doc[cmd[p].file] = NoDoc
          THEN Blank ELSE doc[cmd[p].file]] \in Commands
      BY <3>1, <3>2, <3>3 DEF Commands, Steps
    <3>5. Shape([cmd[p] EXCEPT !.at = "write", !.text = IF doc[cmd[p].file] =
          NoDoc THEN Blank ELSE doc[cmd[p].file]])
      BY <3>1, <3>2, <3>3 DEF Shape, Commands, Writers
    <3>. QED  BY <3>1, <3>4, <3>5, GotoTyped
  <2>. QED  BY <2>1, <2>2
<1>44. CASE GoalWrite(p)
  <2>1. CASE Fail(p)
    BY <2>1, LeaveTyped DEF Fail, Return
  <2>2. CASE ~Fail(p)
    <3>1. /\ Goto(p, [cmd[p] EXCEPT !.at = "touch", !.file = Md(Main), !.text =
             Blank])
          /\ cmd[p].op = "goal"
      BY <1>44, <2>2 DEF GoalWrite, At, Stamping
    <3>2. /\ Md(Main) \in Files
          /\ Blank \in Docs
      BY <3>1, Values DEF TypeInv, TypeOK
    <3>3. cmd[p] \in Commands /\ Shape(cmd[p])
      BY Here
    <3>4. [cmd[p] EXCEPT !.at = "touch", !.file = Md(Main), !.text = Blank] \in Commands
      BY <3>1, <3>2, <3>3 DEF Commands, Steps
    <3>5. Shape([cmd[p] EXCEPT !.at = "touch", !.file = Md(Main), !.text =
          Blank])
      BY <3>1, <3>2, <3>3 DEF Shape, Commands
    <3>. QED  BY <3>1, <3>4, <3>5, GotoTyped
  <2>. QED  BY <2>1, <2>2
<1>45. CASE DecisionWrite(p)
  <2>1. /\ Goto(p, [cmd[p] EXCEPT !.at = "touch", !.file = Md(Main), !.text =
           Blank])
        /\ cmd[p].op = "decision"
    BY <1>45 DEF DecisionWrite, At, Stamping
  <2>2. /\ Md(Main) \in Files
        /\ Blank \in Docs
    BY <2>1, Values DEF TypeInv, TypeOK
  <2>3. cmd[p] \in Commands /\ Shape(cmd[p])
    BY Here
  <2>4. [cmd[p] EXCEPT !.at = "touch", !.file = Md(Main), !.text = Blank] \in Commands
    BY <2>1, <2>2, <2>3 DEF Commands, Steps
  <2>5. Shape([cmd[p] EXCEPT !.at = "touch", !.file = Md(Main), !.text =
        Blank])
    BY <2>1, <2>2, <2>3 DEF Shape, Commands
  <2>. QED  BY <2>1, <2>4, <2>5, GotoTyped
<1>46. CASE ReportTruncate(p)
  BY <1>46, LeaveTyped, OnwardTyped, CommandMoves DEF ReportTruncate, At, Onward, Goto,
     Steps
<1>47. CASE ReportFill(p)
  <2>1. /\ Goto(p, [cmd[p] EXCEPT !.at = "touch", !.file = Md(Main), !.text =
           Blank])
        /\ cmd[p].op = "report"
    BY <1>47 DEF ReportFill, At, Stamping
  <2>2. /\ Md(Main) \in Files
        /\ Blank \in Docs
    BY <2>1, Values DEF TypeInv, TypeOK
  <2>3. cmd[p] \in Commands /\ Shape(cmd[p])
    BY Here
  <2>4. [cmd[p] EXCEPT !.at = "touch", !.file = Md(Main), !.text = Blank] \in Commands
    BY <2>1, <2>2, <2>3 DEF Commands, Steps
  <2>5. Shape([cmd[p] EXCEPT !.at = "touch", !.file = Md(Main), !.text =
        Blank])
    BY <2>1, <2>2, <2>3 DEF Shape, Commands
  <2>. QED  BY <2>1, <2>4, <2>5, GotoTyped
<1>48. CASE TouchRead(p)
  <2>1. CASE Fail(p)
    BY <2>1, LeaveTyped DEF Fail, Return
  <2>2. CASE ~Fail(p)
    <3>1. /\ Goto(p, [cmd[p] EXCEPT !.at = "stamp", !.seen = yaml])
          /\ cmd[p].op \in Writers
      BY <1>48, <2>2 DEF TouchRead, LockRecord
    <3>2. yaml \in Records
      BY <3>1 DEF TypeInv, TypeOK
    <3>3. cmd[p] \in Commands /\ Shape(cmd[p])
      BY Here
    <3>4. [cmd[p] EXCEPT !.at = "stamp", !.seen = yaml] \in Commands
      BY <3>1, <3>2, <3>3 DEF Commands, Steps
    <3>5. Shape([cmd[p] EXCEPT !.at = "stamp", !.seen = yaml])
      BY <3>1, <3>2, <3>3 DEF Shape, Commands, Writers
    <3>. QED  BY <3>1, <3>4, <3>5, GotoTyped
  <2>. QED  BY <2>1, <2>2
<1>49. CASE RiskRead(p)
  <2>1. CASE Fail(p)
    BY <2>1, LeaveTyped DEF Fail, Return
  <2>2. CASE ~Fail(p)
    <3>1. /\ Goto(p, [cmd[p] EXCEPT !.at = "stamp", !.seen = yaml])
          /\ cmd[p].op = "risk"
      BY <1>49, <2>2 DEF RiskRead, At, LockRecord
    <3>2. yaml \in Records
      BY <3>1 DEF TypeInv, TypeOK
    <3>3. cmd[p] \in Commands /\ Shape(cmd[p])
      BY Here
    <3>4. [cmd[p] EXCEPT !.at = "stamp", !.seen = yaml] \in Commands
      BY <3>1, <3>2, <3>3 DEF Commands, Steps
    <3>5. Shape([cmd[p] EXCEPT !.at = "stamp", !.seen = yaml])
      BY <3>1, <3>2, <3>3 DEF Shape, Commands
    <3>. QED  BY <3>1, <3>4, <3>5, GotoTyped
  <2>. QED  BY <2>1, <2>2
<1>50. CASE Stamp(p)
  BY <1>50, LeaveTyped, OnwardTyped, CommandMoves DEF Stamp, Return, Leave, Steps
<1>. QED
  BY <1>1, <1>2, <1>3, <1>4, <1>5, <1>6, <1>7, <1>8, <1>9, <1>10, <1>11, <1>12, <1>13,
     <1>14, <1>15, <1>16, <1>17, <1>18, <1>19, <1>20, <1>21, <1>22, <1>22a, <1>22b, <1>22c, <1>23, <1>24, <1>25,
     <1>26, <1>27, <1>28, <1>29, <1>30, <1>31, <1>32, <1>33, <1>34, <1>35, <1>36, <1>37,
     <1>38, <1>39, <1>40, <1>41, <1>42, <1>43, <1>44, <1>45, <1>46, <1>47, <1>48, <1>49,
     <1>50
  DEF Acts, Step, Create, Select, Merge, Move, Repository, Entry

(* What a command holds in its hands.                                       *)
LEMMA Hands ==
    ASSUME TypeInv, NEW p \in Procs
    PROVE  /\ cmd[p].seen \in Records /\ cmd[p].was \in Records
           /\ cmd[p].name \in Targets /\ cmd[p].to \in Targets /\ cmd[p].file \in Files
           /\ cmd[p].text \in Docs /\ cmd[p].other \in Docs /\ cmd[p].op \in Ops
           /\ cmd[p].repo \in Repos \union {Nobody} /\ cmd[p].new \in Repos \union {Nobody}
BY Here DEF Commands

(* A record with its repositories changed.                                  *)
LEMMA ReposTyped ==
    ASSUME NEW y \in Records, NEW R \in SUBSET Repos
    PROVE  [y EXCEPT !.repos = R] \in Records
BY DEF Records

(* The record stays well formed, however stale the copy that is written     *)
(* back.                                                                    *)
LEMMA RecordTyped ==
    ASSUME TypeInv,
           NEW p \in Procs, Acts(p)
    PROVE  yaml' \in Records
<1>1. CASE CallRecord(p)
  BY <1>1 DEF CallRecord, Call, TypeInv, TypeOK, files
<1>2. CASE CallRepository(p)
  BY <1>2 DEF CallRepository, Call, TypeInv, TypeOK, files
<1>3. CASE CallEntry(p)
  BY <1>3 DEF CallEntry, Call, TypeInv, TypeOK, files
<1>4. CASE Kill(p)
  BY <1>4 DEF Kill, Leave, TypeInv, TypeOK, files
<1>5. CASE EnsureLock(p)
  BY <1>5, Values DEF EnsureLock, TypeInv, TypeOK
<1>6. CASE EnsureMain(p)
  BY <1>6 DEF EnsureMain, At, Onward, Goto, TypeInv, TypeOK, files
<1>7. CASE EnsureSub(p)
  BY <1>7 DEF EnsureSub, At, Fail, Return, Leave, Goto, TypeInv, TypeOK, files
<1>8. CASE AddLook(p)
  BY <1>8 DEF AddLook, At, Fail, Return, Leave, Onward, LockRecord, Goto, TypeInv,
     TypeOK, files
<1>9. CASE BranchLook(p)
  BY <1>9 DEF BranchLook, At, Fail, Return, Leave, LockRecord, Goto, TypeInv, TypeOK, files
<1>10. CASE CreateMd(p)
  BY <1>10 DEF CreateMd, Fail, Return, Leave, Onward, Goto, TypeInv, TypeOK, files
<1>11. CASE CreateYaml(p)
  BY <1>11, Hands DEF CreateYaml
<1>12. CASE CreateFail(p)
  BY <1>12, Hands DEF CreateFail, Return, Leave, TypeInv, TypeOK
<1>13. CASE SelectLook(p)
  BY <1>13 DEF SelectLook, At, Fail, Return, Leave, Goto, TypeInv, TypeOK, files
<1>14. CASE SelectPoint(p)
  BY <1>14 DEF SelectPoint, Return, Leave, TypeInv, TypeOK, files
<1>15. CASE MergeLook(p)
  BY <1>15 DEF MergeLook, At, Fail, Return, Leave, LockRecord, Goto, TypeInv, TypeOK, files
<1>16. CASE MergeLock(p)
  BY <1>16 DEF MergeLock, At, LockDoc, Onward, Goto, TypeInv, TypeOK, files
<1>17. CASE MergeRead(p)
  BY <1>17 DEF MergeRead, At, Fail, Return, Leave, Goto, TypeInv, TypeOK, files
<1>18. CASE MergeArchive(p)
  BY <1>18 DEF MergeArchive, At, Onward, Goto, TypeInv, TypeOK, files
<1>19. CASE MergeParent(p)
  BY <1>19 DEF MergeParent, At, Onward, Goto, TypeInv, TypeOK, files
<1>20. CASE MergeYaml(p)
  <2>1. cmd[p].op = "merge" /\ cmd[p].at = "yaml"
    BY <1>20 DEF MergeYaml, At
  <2>2. cmd[p].name \in Names /\ Merged(p) \in Entries
    BY <2>1, Here DEF Shape, Merged
  <2>3. [Merged(p) EXCEPT !.archived = TRUE, !.file = Archive(cmd[p].name)] \in Entries
    BY <2>2, Values DEF Entries
  <2>. QED  BY <1>20, <2>3, Hands, WithTyped DEF MergeYaml
<1>21. CASE MergeUnlink(p)
  BY <1>21 DEF MergeUnlink, At, Return, Leave, TypeInv, TypeOK, files
<1>22. CASE MergeFail(p)
  BY <1>22 DEF MergeFail, Onward, Goto, TypeInv, TypeOK, files
<1>22a. CASE MergeRestore(p)
  BY <1>22a DEF MergeRestore, At, Onward, Goto, TypeInv, TypeOK, files
<1>22b. CASE MergeRevert(p)
  BY <1>22b, Hands DEF MergeRevert
<1>22c. CASE MergeDiscard(p)
  BY <1>22c DEF MergeDiscard, At, Return, Leave, TypeInv, TypeOK, files
<1>23. CASE RenameLook(p)
  BY <1>23 DEF RenameLook, At, Fail, Return, Leave, Goto, TypeInv, TypeOK, files
<1>24. CASE RenameMd(p)
  BY <1>24 DEF RenameMd, At, Fail, Return, Leave, Onward, Goto, TypeInv, TypeOK, files
<1>25. CASE RenameYaml(p)
  <2>1. cmd[p].name \in Names /\ cmd[p].to \in Names
    BY <1>25, Here DEF RenameYaml, At, Shape
  <2>. QED  BY <1>25, <2>1, Hands, RenamedTyped DEF RenameYaml
<1>26. CASE RenameSessions(p)
  BY <1>26 DEF RenameSessions, At, Return, Leave, TypeInv, TypeOK, files
<1>27. CASE RemoveLook(p)
  BY <1>27 DEF RemoveLook, At, Fail, Return, Leave, Goto, TypeInv, TypeOK, files
<1>28. CASE RemoveMd(p)
  BY <1>28 DEF RemoveMd, At, Onward, Goto, TypeInv, TypeOK, files
<1>29. CASE RemoveYaml(p)
  BY <1>29, Hands, WithTyped DEF RemoveYaml
<1>30. CASE AddRepository(p)
  BY <1>30 DEF AddRepository, At, Return, Leave, TypeInv, TypeOK, files
<1>31. CASE FoundRegister(p)
  BY <1>31 DEF FoundRegister, At, Fail, Return, Leave, Onward, Goto, TypeInv, TypeOK, files
<1>32. CASE FoundRead(p)
  BY <1>32 DEF FoundRead, At, LockRecord, Goto, TypeInv, TypeOK, files
<1>33. CASE LinkRead(p)
  BY <1>33 DEF LinkRead, Fail, Return, Leave, Goto, TypeInv, TypeOK, files
<1>34. CASE LinkWrite(p)
  <2>1. cmd[p].repo \in Repos
    BY <1>34, Here DEF LinkWrite, Shape
  <2>2. (IF cmd[p].op = "unlink" THEN cmd[p].seen.repos \ {cmd[p].repo}
         ELSE cmd[p].seen.repos \union {cmd[p].repo}) \in SUBSET Repos
    BY <2>1, Hands DEF Records
  <2>3. yaml' = [cmd[p].seen EXCEPT !.repos =
                    IF cmd[p].op = "unlink" THEN cmd[p].seen.repos \ {cmd[p].repo}
                    ELSE cmd[p].seen.repos \union {cmd[p].repo}]
    BY <1>34, Hands DEF LinkWrite, Records
  <2>. QED  BY <2>2, <2>3, Hands, ReposTyped
<1>35. CASE DropLook(p)
  BY <1>35 DEF DropLook, At, Fail, Return, Leave, Onward, Goto, TypeInv, TypeOK, files
<1>36. CASE DropRemove(p)
  BY <1>36 DEF DropRemove, At, Return, Leave, TypeInv, TypeOK, files
<1>37. CASE RelinkMove(p)
  BY <1>37 DEF RelinkMove, At, Fail, Return, Leave, Onward, Goto, TypeInv, TypeOK, files
<1>38. CASE RelinkFile(p)
  BY <1>38 DEF RelinkFile, At, Onward, Goto, TypeInv, TypeOK, files
<1>39. CASE RelinkRead(p)
  BY <1>39 DEF RelinkRead, At, Goto, TypeInv, TypeOK, files
<1>40. CASE RelinkYaml(p)
  BY <1>40, Hands DEF RelinkYaml
<1>41. CASE RelinkSessions(p)
  BY <1>41 DEF RelinkSessions, At, Return, Leave, TypeInv, TypeOK, files
<1>42. CASE Target(p)
  BY <1>42 DEF Target, Fail, Return, Leave, Goto, TypeInv, TypeOK, files
<1>43. CASE Read(p)
  BY <1>43 DEF Read, Fail, Return, Leave, LockDoc, Goto, TypeInv, TypeOK, files
<1>44. CASE GoalWrite(p)
  BY <1>44 DEF GoalWrite, At, Fail, Return, Leave, Stamping, Goto, TypeInv, TypeOK, files
<1>45. CASE DecisionWrite(p)
  BY <1>45 DEF DecisionWrite, At, Stamping, Goto, TypeInv, TypeOK, files
<1>46. CASE ReportTruncate(p)
  BY <1>46 DEF ReportTruncate, At, Onward, Goto, TypeInv, TypeOK, files
<1>47. CASE ReportFill(p)
  BY <1>47 DEF ReportFill, At, Stamping, Goto, TypeInv, TypeOK, files
<1>48. CASE TouchRead(p)
  BY <1>48 DEF TouchRead, Fail, Return, Leave, LockRecord, Goto, TypeInv, TypeOK, files
<1>49. CASE RiskRead(p)
  BY <1>49 DEF RiskRead, At, Fail, Return, Leave, LockRecord, Goto, TypeInv, TypeOK, files
<1>50. CASE Stamp(p)
  BY <1>50, Hands DEF Stamp
<1>. QED
  BY <1>1, <1>2, <1>3, <1>4, <1>5, <1>6, <1>7, <1>8, <1>9, <1>10, <1>11, <1>12, <1>13,
     <1>14, <1>15, <1>16, <1>17, <1>18, <1>19, <1>20, <1>21, <1>22, <1>22a, <1>22b, <1>22c, <1>23, <1>24, <1>25,
     <1>26, <1>27, <1>28, <1>29, <1>30, <1>31, <1>32, <1>33, <1>34, <1>35, <1>36, <1>37,
     <1>38, <1>39, <1>40, <1>41, <1>42, <1>43, <1>44, <1>45, <1>46, <1>47, <1>48, <1>49,
     <1>50
  DEF Acts, Step, Create, Select, Merge, Move, Repository, Entry

(* An edit of a goal makes a document of a document.                        *)
LEMMA EditedTyped ==
    ASSUME NEW d \in Docs, NEW k, NEW g \in Goals, NEW e \in Edited(d, k, g)
    PROVE  e \in Docs
<1>1. d.open \subseteq Goals /\ d.done \subseteq Goals /\ d.section \in BOOLEAN
  BY DEF Docs
<1>2. CASE k = "add"
  BY <1>1, <1>2 DEF Edited, Docs
<1>3. CASE k = "update"
  <2>1. PICK h : \/ e = [d EXCEPT !.open = (@ \ {h}) \union {g}]
                 \/ e = [d EXCEPT !.done = (@ \ {h}) \union {g}]
    BY <1>3 DEF Edited
  <2>. QED  BY <1>1, <2>1 DEF Docs
<1>4. CASE k = "done"
  <2>1. PICK h \in (d.open \union d.done) \intersect {g} :
           e = [d EXCEPT !.open = @ \ {h}, !.done = @ \union {h}]
    BY <1>4 DEF Edited
  <2>. QED  BY <1>1, <2>1 DEF Docs
<1>5. CASE k = "remove"
  <2>1. e = [d EXCEPT !.open = @ \ {g}, !.done = @ \ {g}]
    BY <1>5 DEF Edited
  <2>. QED  BY <1>1, <2>1 DEF Docs
<1>6. CASE k \notin {"add", "update", "done", "remove"}
  BY <1>1, <1>6 DEF Edited, Docs
<1>. QED  BY <1>2, <1>3, <1>4, <1>5, <1>6

(* The documents stay well formed.                                          *)
LEMMA DocsTyped ==
    ASSUME TypeInv,
           NEW p \in Procs, Acts(p)
    PROVE  doc' \in [Files -> Docs \union {NoDoc}]
<1>1. CASE CallRecord(p)
  BY <1>1 DEF CallRecord, Call, TypeInv, TypeOK, files
<1>2. CASE CallRepository(p)
  BY <1>2 DEF CallRepository, Call, TypeInv, TypeOK, files
<1>3. CASE CallEntry(p)
  BY <1>3 DEF CallEntry, Call, TypeInv, TypeOK, files
<1>4. CASE Kill(p)
  BY <1>4 DEF Kill, Leave, TypeInv, TypeOK, files
<1>5. CASE EnsureLock(p)
  BY <1>5 DEF EnsureLock, At, LockRecord, Goto, TypeInv, TypeOK, files
<1>6. CASE EnsureMain(p)
  BY <1>6, Values, Hands DEF EnsureMain, At, Onward, Goto, TypeInv, TypeOK, files
<1>7. CASE EnsureSub(p)
  BY <1>7, Values, Hands DEF EnsureSub, At, Fail, Return, Leave, Goto, TypeInv, TypeOK,
     files
<1>8. CASE AddLook(p)
  BY <1>8 DEF AddLook, At, Fail, Return, Leave, Onward, LockRecord, Goto, TypeInv,
     TypeOK, files
<1>9. CASE BranchLook(p)
  BY <1>9 DEF BranchLook, At, Fail, Return, Leave, LockRecord, Goto, TypeInv, TypeOK, files
<1>10. CASE CreateMd(p)
  BY <1>10, Values, Hands DEF CreateMd, Fail, Return, Leave, Onward, Goto, TypeInv,
     TypeOK, files
<1>11. CASE CreateYaml(p)
  BY <1>11 DEF CreateYaml, Goto, Return, Leave, TypeInv, TypeOK, files
<1>12. CASE CreateFail(p)
  BY <1>12, Values, Hands DEF CreateFail, Return, Leave, TypeInv, TypeOK, files
<1>13. CASE SelectLook(p)
  BY <1>13 DEF SelectLook, At, Fail, Return, Leave, Goto, TypeInv, TypeOK, files
<1>14. CASE SelectPoint(p)
  BY <1>14 DEF SelectPoint, Return, Leave, TypeInv, TypeOK, files
<1>15. CASE MergeLook(p)
  BY <1>15 DEF MergeLook, At, Fail, Return, Leave, LockRecord, Goto, TypeInv, TypeOK, files
<1>16. CASE MergeLock(p)
  BY <1>16 DEF MergeLock, At, LockDoc, Onward, Goto, TypeInv, TypeOK, files
<1>17. CASE MergeRead(p)
  BY <1>17 DEF MergeRead, At, Fail, Return, Leave, Goto, TypeInv, TypeOK, files
<1>18. CASE MergeArchive(p)
  BY <1>18, Values, Hands DEF MergeArchive, TypeInv, TypeOK
<1>19. CASE MergeParent(p)
  <2>1. [cmd[p].other EXCEPT !.open = @ \union Pending(cmd[p].text, cmd[p].other)] \in Docs
    BY Hands DEF Docs, Pending
  <2>. QED  BY <1>19, <2>1 DEF MergeParent, TypeInv, TypeOK
<1>20. CASE MergeYaml(p)
  BY <1>20 DEF MergeYaml, At, Onward, Goto, TypeInv, TypeOK, files
<1>21. CASE MergeUnlink(p)
  BY <1>21, Values, Hands DEF MergeUnlink, TypeInv, TypeOK
<1>22. CASE MergeFail(p)
  BY <1>22, Values, Hands DEF MergeFail, TypeInv, TypeOK
<1>22a. CASE MergeRestore(p)
  BY <1>22a, Values, Hands DEF MergeRestore, TypeInv, TypeOK
<1>22b. CASE MergeRevert(p)
  BY <1>22b DEF MergeRevert, At, Onward, Goto, TypeInv, TypeOK, files
<1>22c. CASE MergeDiscard(p)
  BY <1>22c, Values, Hands DEF MergeDiscard, TypeInv, TypeOK
<1>23. CASE RenameLook(p)
  BY <1>23 DEF RenameLook, At, Fail, Return, Leave, Goto, TypeInv, TypeOK, files
<1>24. CASE RenameMd(p)
  <2>1. CASE UNCHANGED doc
    BY <2>1 DEF TypeInv, TypeOK
  <2>2. CASE ~UNCHANGED doc
    <3>1. Merged(p).file \in Files /\ Md(cmd[p].to) \in Files
      BY <1>24, Here, Hands, Values DEF RenameMd, At, Shape, Merged, Entries
    <3>2. doc' = [doc EXCEPT ![Md(cmd[p].to)] = doc[Merged(p).file], ![Merged(p).file] = NoDoc]
      BY <1>24, <2>2 DEF RenameMd, Fail, files
    <3>. QED  BY <3>1, <3>2 DEF TypeInv, TypeOK
  <2>. QED  BY <2>1, <2>2
<1>25. CASE RenameYaml(p)
  BY <1>25 DEF RenameYaml, At, Onward, Goto, TypeInv, TypeOK, files
<1>26. CASE RenameSessions(p)
  BY <1>26 DEF RenameSessions, At, Return, Leave, TypeInv, TypeOK, files
<1>27. CASE RemoveLook(p)
  BY <1>27 DEF RemoveLook, At, Fail, Return, Leave, Goto, TypeInv, TypeOK, files
<1>28. CASE RemoveMd(p)
  BY <1>28, Values, Hands DEF RemoveMd, TypeInv, TypeOK
<1>29. CASE RemoveYaml(p)
  BY <1>29 DEF RemoveYaml, At, Return, Leave, TypeInv, TypeOK, files
<1>30. CASE AddRepository(p)
  BY <1>30 DEF AddRepository, At, Return, Leave, TypeInv, TypeOK, files
<1>31. CASE FoundRegister(p)
  BY <1>31 DEF FoundRegister, At, Fail, Return, Leave, Onward, Goto, TypeInv, TypeOK, files
<1>32. CASE FoundRead(p)
  BY <1>32 DEF FoundRead, At, LockRecord, Goto, TypeInv, TypeOK, files
<1>33. CASE LinkRead(p)
  BY <1>33 DEF LinkRead, Fail, Return, Leave, Goto, TypeInv, TypeOK, files
<1>34. CASE LinkWrite(p)
  BY <1>34 DEF LinkWrite, Return, Leave, TypeInv, TypeOK, files
<1>35. CASE DropLook(p)
  BY <1>35 DEF DropLook, At, Fail, Return, Leave, Onward, Goto, TypeInv, TypeOK, files
<1>36. CASE DropRemove(p)
  BY <1>36 DEF DropRemove, At, Return, Leave, TypeInv, TypeOK, files
<1>37. CASE RelinkMove(p)
  BY <1>37 DEF RelinkMove, At, Fail, Return, Leave, Onward, Goto, TypeInv, TypeOK, files
<1>38. CASE RelinkFile(p)
  BY <1>38 DEF RelinkFile, At, Onward, Goto, TypeInv, TypeOK, files
<1>39. CASE RelinkRead(p)
  BY <1>39 DEF RelinkRead, At, Goto, TypeInv, TypeOK, files
<1>40. CASE RelinkYaml(p)
  BY <1>40 DEF RelinkYaml, At, Onward, Goto, TypeInv, TypeOK, files
<1>41. CASE RelinkSessions(p)
  BY <1>41 DEF RelinkSessions, At, Return, Leave, TypeInv, TypeOK, files
<1>42. CASE Target(p)
  BY <1>42 DEF Target, Fail, Return, Leave, Goto, TypeInv, TypeOK, files
<1>43. CASE Read(p)
  BY <1>43 DEF Read, Fail, Return, Leave, LockDoc, Goto, TypeInv, TypeOK, files
<1>44. CASE GoalWrite(p)
  <2>1. CASE UNCHANGED doc
    BY <2>1 DEF TypeInv, TypeOK
  <2>2. CASE ~UNCHANGED doc
    <3>1. PICK e \in Edited(cmd[p].text, cmd[p].edit, cmd[p].goal) :
             doc' = [doc EXCEPT ![cmd[p].file] = e]
      BY <1>44, <2>2 DEF GoalWrite, Fail, files
    <3>2. e \in Docs
      BY <1>44, Hands, Here, EditedTyped DEF GoalWrite, At, Shape
    <3>. QED  BY <3>1, <3>2, Hands DEF TypeInv, TypeOK
  <2>. QED  BY <2>1, <2>2
<1>45. CASE DecisionWrite(p)
  BY <1>45, Values, Hands DEF DecisionWrite, TypeInv, TypeOK
<1>46. CASE ReportTruncate(p)
  BY <1>46, Values, Hands DEF ReportTruncate, TypeInv, TypeOK
<1>47. CASE ReportFill(p)
  BY <1>47, Values, Hands DEF ReportFill, TypeInv, TypeOK
<1>48. CASE TouchRead(p)
  BY <1>48 DEF TouchRead, Fail, Return, Leave, LockRecord, Goto, TypeInv, TypeOK, files
<1>49. CASE RiskRead(p)
  BY <1>49 DEF RiskRead, At, Fail, Return, Leave, LockRecord, Goto, TypeInv, TypeOK, files
<1>50. CASE Stamp(p)
  BY <1>50 DEF Stamp, Return, Leave, TypeInv, TypeOK, files
<1>. QED
  BY <1>1, <1>2, <1>3, <1>4, <1>5, <1>6, <1>7, <1>8, <1>9, <1>10, <1>11, <1>12, <1>13,
     <1>14, <1>15, <1>16, <1>17, <1>18, <1>19, <1>20, <1>21, <1>22, <1>22a, <1>22b, <1>22c, <1>23, <1>24, <1>25,
     <1>26, <1>27, <1>28, <1>29, <1>30, <1>31, <1>32, <1>33, <1>34, <1>35, <1>36, <1>37,
     <1>38, <1>39, <1>40, <1>41, <1>42, <1>43, <1>44, <1>45, <1>46, <1>47, <1>48, <1>49,
     <1>50
  DEF Acts, Step, Create, Select, Merge, Move, Repository, Entry

(* So do the repositories and what the sessions target.                     *)
LEMMA OthersTyped ==
    ASSUME TypeInv,
           NEW p \in Procs, Acts(p)
    PROVE  catalog' \subseteq Repos /\ sess' \in [Sessions -> [sub : Targets, repos : SUBSET Repos]]
<1>1. CASE CallRecord(p)
  BY <1>1 DEF CallRecord, Call, TypeInv, TypeOK, files
<1>2. CASE CallRepository(p)
  BY <1>2 DEF CallRepository, Call, TypeInv, TypeOK, files
<1>3. CASE CallEntry(p)
  BY <1>3 DEF CallEntry, Call, TypeInv, TypeOK, files
<1>4. CASE Kill(p)
  BY <1>4 DEF Kill, Leave, TypeInv, TypeOK, files
<1>5. CASE EnsureLock(p)
  BY <1>5 DEF EnsureLock, At, LockRecord, Goto, TypeInv, TypeOK, files
<1>6. CASE EnsureMain(p)
  BY <1>6 DEF EnsureMain, At, Onward, Goto, TypeInv, TypeOK, files
<1>7. CASE EnsureSub(p)
  BY <1>7 DEF EnsureSub, At, Fail, Return, Leave, Goto, TypeInv, TypeOK, files
<1>8. CASE AddLook(p)
  BY <1>8 DEF AddLook, At, Fail, Return, Leave, Onward, LockRecord, Goto, TypeInv,
     TypeOK, files
<1>9. CASE BranchLook(p)
  BY <1>9 DEF BranchLook, At, Fail, Return, Leave, LockRecord, Goto, TypeInv, TypeOK, files
<1>10. CASE CreateMd(p)
  BY <1>10 DEF CreateMd, Fail, Return, Leave, Onward, Goto, TypeInv, TypeOK, files
<1>11. CASE CreateYaml(p)
  BY <1>11 DEF CreateYaml, Goto, Return, Leave, TypeInv, TypeOK, files
<1>12. CASE CreateFail(p)
  BY <1>12 DEF CreateFail, Return, Leave, TypeInv, TypeOK, files
<1>13. CASE SelectLook(p)
  BY <1>13 DEF SelectLook, At, Fail, Return, Leave, Goto, TypeInv, TypeOK, files
<1>14. CASE SelectPoint(p)
  <2>1. [sub |-> cmd[p].name, repos |-> cmd[p].seen.repos] \in [sub : Targets, repos : SUBSET Repos]
    BY Hands DEF Records
  <2>. QED  BY <1>14, <2>1 DEF SelectPoint, TypeInv, TypeOK
<1>15. CASE MergeLook(p)
  BY <1>15 DEF MergeLook, At, Fail, Return, Leave, LockRecord, Goto, TypeInv, TypeOK, files
<1>16. CASE MergeLock(p)
  BY <1>16 DEF MergeLock, At, LockDoc, Onward, Goto, TypeInv, TypeOK, files
<1>17. CASE MergeRead(p)
  BY <1>17 DEF MergeRead, At, Fail, Return, Leave, Goto, TypeInv, TypeOK, files
<1>18. CASE MergeArchive(p)
  BY <1>18 DEF MergeArchive, At, Onward, Goto, TypeInv, TypeOK, files
<1>19. CASE MergeParent(p)
  BY <1>19 DEF MergeParent, At, Onward, Goto, TypeInv, TypeOK, files
<1>20. CASE MergeYaml(p)
  BY <1>20 DEF MergeYaml, At, Onward, Goto, TypeInv, TypeOK, files
<1>21. CASE MergeUnlink(p)
  BY <1>21 DEF MergeUnlink, At, Return, Leave, TypeInv, TypeOK, files
<1>22. CASE MergeFail(p)
  BY <1>22 DEF MergeFail, Onward, Goto, TypeInv, TypeOK, files
<1>22a. CASE MergeRestore(p)
  BY <1>22a DEF MergeRestore, At, Onward, Goto, TypeInv, TypeOK, files
<1>22b. CASE MergeRevert(p)
  BY <1>22b DEF MergeRevert, At, Onward, Goto, TypeInv, TypeOK, files
<1>22c. CASE MergeDiscard(p)
  BY <1>22c DEF MergeDiscard, At, Return, Leave, TypeInv, TypeOK, files
<1>23. CASE RenameLook(p)
  BY <1>23 DEF RenameLook, At, Fail, Return, Leave, Goto, TypeInv, TypeOK, files
<1>24. CASE RenameMd(p)
  BY <1>24 DEF RenameMd, At, Fail, Return, Leave, Onward, Goto, TypeInv, TypeOK, files
<1>25. CASE RenameYaml(p)
  BY <1>25 DEF RenameYaml, At, Onward, Goto, TypeInv, TypeOK, files
<1>26. CASE RenameSessions(p)
  BY <1>26, Hands DEF RenameSessions, TypeInv, TypeOK
<1>27. CASE RemoveLook(p)
  BY <1>27 DEF RemoveLook, At, Fail, Return, Leave, Goto, TypeInv, TypeOK, files
<1>28. CASE RemoveMd(p)
  BY <1>28 DEF RemoveMd, At, Onward, Goto, TypeInv, TypeOK, files
<1>29. CASE RemoveYaml(p)
  BY <1>29 DEF RemoveYaml, At, Return, Leave, TypeInv, TypeOK, files
<1>30. CASE AddRepository(p)
  BY <1>30, Here DEF AddRepository, At, Return, Leave, Shape, TypeInv, TypeOK, files
<1>31. CASE FoundRegister(p)
  BY <1>31, Here DEF FoundRegister, At, Fail, Return, Leave, Onward, Goto, Shape,
     TypeInv, TypeOK, files
<1>32. CASE FoundRead(p)
  BY <1>32 DEF FoundRead, At, LockRecord, Goto, TypeInv, TypeOK, files
<1>33. CASE LinkRead(p)
  BY <1>33 DEF LinkRead, Fail, Return, Leave, Goto, TypeInv, TypeOK, files
<1>34. CASE LinkWrite(p)
  BY <1>34 DEF LinkWrite, Return, Leave, TypeInv, TypeOK, files
<1>35. CASE DropLook(p)
  BY <1>35 DEF DropLook, At, Fail, Return, Leave, Onward, Goto, TypeInv, TypeOK, files
<1>36. CASE DropRemove(p)
  BY <1>36 DEF DropRemove, At, Return, Leave, TypeInv, TypeOK, files
<1>37. CASE RelinkMove(p)
  BY <1>37 DEF RelinkMove, At, Fail, Return, Leave, Onward, Goto, TypeInv, TypeOK, files
<1>38. CASE RelinkFile(p)
  BY <1>38, Here DEF RelinkFile, At, Onward, Goto, Shape, TypeInv, TypeOK, files
<1>39. CASE RelinkRead(p)
  BY <1>39 DEF RelinkRead, At, Goto, TypeInv, TypeOK, files
<1>40. CASE RelinkYaml(p)
  BY <1>40 DEF RelinkYaml, At, Onward, Goto, TypeInv, TypeOK, files
<1>41. CASE RelinkSessions(p)
  <2>1. cmd[p].repo \in Repos /\ cmd[p].new \in Repos
    BY <1>41, Here DEF RelinkSessions, At, Shape
  <2>2. \A R \in SUBSET Repos : Swapped(R, cmd[p].repo, cmd[p].new) \in SUBSET Repos
    BY <2>1 DEF Swapped
  <2>. QED  BY <1>41, <2>2 DEF RelinkSessions, TypeInv, TypeOK
<1>42. CASE Target(p)
  BY <1>42 DEF Target, Fail, Return, Leave, Goto, TypeInv, TypeOK, files
<1>43. CASE Read(p)
  BY <1>43 DEF Read, Fail, Return, Leave, LockDoc, Goto, TypeInv, TypeOK, files
<1>44. CASE GoalWrite(p)
  BY <1>44 DEF GoalWrite, At, Fail, Return, Leave, Stamping, Goto, TypeInv, TypeOK, files
<1>45. CASE DecisionWrite(p)
  BY <1>45 DEF DecisionWrite, At, Stamping, Goto, TypeInv, TypeOK, files
<1>46. CASE ReportTruncate(p)
  BY <1>46 DEF ReportTruncate, At, Onward, Goto, TypeInv, TypeOK, files
<1>47. CASE ReportFill(p)
  BY <1>47 DEF ReportFill, At, Stamping, Goto, TypeInv, TypeOK, files
<1>48. CASE TouchRead(p)
  BY <1>48 DEF TouchRead, Fail, Return, Leave, LockRecord, Goto, TypeInv, TypeOK, files
<1>49. CASE RiskRead(p)
  BY <1>49 DEF RiskRead, At, Fail, Return, Leave, LockRecord, Goto, TypeInv, TypeOK, files
<1>50. CASE Stamp(p)
  BY <1>50 DEF Stamp, Return, Leave, TypeInv, TypeOK, files
<1>. QED
  BY <1>1, <1>2, <1>3, <1>4, <1>5, <1>6, <1>7, <1>8, <1>9, <1>10, <1>11, <1>12, <1>13,
     <1>14, <1>15, <1>16, <1>17, <1>18, <1>19, <1>20, <1>21, <1>22, <1>22a, <1>22b, <1>22c, <1>23, <1>24, <1>25,
     <1>26, <1>27, <1>28, <1>29, <1>30, <1>31, <1>32, <1>33, <1>34, <1>35, <1>36, <1>37,
     <1>38, <1>39, <1>40, <1>41, <1>42, <1>43, <1>44, <1>45, <1>46, <1>47, <1>48, <1>49,
     <1>50
  DEF Acts, Step, Create, Select, Merge, Move, Repository, Entry

(* And the goals that are wanted.                                           *)
LEMMA WantedTyped ==
    ASSUME TypeInv,
           NEW p \in Procs, Acts(p)
    PROVE  wanted' \subseteq Goals
<1>1. CASE CallRecord(p)
  BY <1>1 DEF CallRecord, Call, TypeInv, TypeOK
<1>2. CASE CallRepository(p)
  BY <1>2 DEF CallRepository, Call, TypeInv, TypeOK
<1>3. CASE CallEntry(p)
  BY <1>3 DEF CallEntry, Call, TypeInv, TypeOK
<1>4. CASE Kill(p)
  BY <1>4 DEF Kill, Leave, TypeInv, TypeOK
<1>5. CASE EnsureLock(p)
  BY <1>5 DEF EnsureLock, At, LockRecord, Goto, TypeInv, TypeOK
<1>6. CASE EnsureMain(p)
  BY <1>6 DEF EnsureMain, At, Onward, Goto, TypeInv, TypeOK
<1>7. CASE EnsureSub(p)
  BY <1>7 DEF EnsureSub, At, Fail, Return, Leave, Goto, TypeInv, TypeOK
<1>8. CASE AddLook(p)
  BY <1>8 DEF AddLook, At, Fail, Return, Leave, Onward, LockRecord, Goto, TypeInv, TypeOK
<1>9. CASE BranchLook(p)
  BY <1>9 DEF BranchLook, At, Fail, Return, Leave, LockRecord, Goto, TypeInv, TypeOK
<1>10. CASE CreateMd(p)
  BY <1>10 DEF CreateMd, Fail, Return, Leave, Onward, Goto, TypeInv, TypeOK
<1>11. CASE CreateYaml(p)
  BY <1>11 DEF CreateYaml, Goto, Return, Leave, TypeInv, TypeOK
<1>12. CASE CreateFail(p)
  BY <1>12 DEF CreateFail, Return, Leave, TypeInv, TypeOK
<1>13. CASE SelectLook(p)
  BY <1>13 DEF SelectLook, At, Fail, Return, Leave, Goto, TypeInv, TypeOK
<1>14. CASE SelectPoint(p)
  BY <1>14 DEF SelectPoint, Return, Leave, TypeInv, TypeOK
<1>15. CASE MergeLook(p)
  BY <1>15 DEF MergeLook, At, Fail, Return, Leave, LockRecord, Goto, TypeInv, TypeOK
<1>16. CASE MergeLock(p)
  BY <1>16 DEF MergeLock, At, LockDoc, Onward, Goto, TypeInv, TypeOK
<1>17. CASE MergeRead(p)
  BY <1>17 DEF MergeRead, At, Fail, Return, Leave, Goto, TypeInv, TypeOK
<1>18. CASE MergeArchive(p)
  BY <1>18 DEF MergeArchive, At, Onward, Goto, TypeInv, TypeOK
<1>19. CASE MergeParent(p)
  BY <1>19 DEF MergeParent, At, Onward, Goto, TypeInv, TypeOK
<1>20. CASE MergeYaml(p)
  BY <1>20 DEF MergeYaml, At, Onward, Goto, TypeInv, TypeOK
<1>21. CASE MergeUnlink(p)
  BY <1>21 DEF MergeUnlink, At, Return, Leave, TypeInv, TypeOK
<1>22. CASE MergeFail(p)
  BY <1>22 DEF MergeFail, Onward, Goto, TypeInv, TypeOK
<1>22a. CASE MergeRestore(p)
  BY <1>22a DEF MergeRestore, At, Onward, Goto, TypeInv, TypeOK
<1>22b. CASE MergeRevert(p)
  BY <1>22b DEF MergeRevert, At, Onward, Goto, TypeInv, TypeOK
<1>22c. CASE MergeDiscard(p)
  BY <1>22c DEF MergeDiscard, At, Return, Leave, TypeInv, TypeOK
<1>23. CASE RenameLook(p)
  BY <1>23 DEF RenameLook, At, Fail, Return, Leave, Goto, TypeInv, TypeOK
<1>24. CASE RenameMd(p)
  BY <1>24 DEF RenameMd, At, Fail, Return, Leave, Onward, Goto, TypeInv, TypeOK
<1>25. CASE RenameYaml(p)
  BY <1>25 DEF RenameYaml, At, Onward, Goto, TypeInv, TypeOK
<1>26. CASE RenameSessions(p)
  BY <1>26 DEF RenameSessions, At, Return, Leave, TypeInv, TypeOK
<1>27. CASE RemoveLook(p)
  BY <1>27 DEF RemoveLook, At, Fail, Return, Leave, Goto, TypeInv, TypeOK
<1>28. CASE RemoveMd(p)
  BY <1>28 DEF RemoveMd, At, Onward, Goto, TypeInv, TypeOK
<1>29. CASE RemoveYaml(p)
  BY <1>29 DEF RemoveYaml, At, Return, Leave, TypeInv, TypeOK
<1>30. CASE AddRepository(p)
  BY <1>30 DEF AddRepository, At, Return, Leave, TypeInv, TypeOK
<1>31. CASE FoundRegister(p)
  BY <1>31 DEF FoundRegister, At, Fail, Return, Leave, Onward, Goto, TypeInv, TypeOK
<1>32. CASE FoundRead(p)
  BY <1>32 DEF FoundRead, At, LockRecord, Goto, TypeInv, TypeOK
<1>33. CASE LinkRead(p)
  BY <1>33 DEF LinkRead, Fail, Return, Leave, Goto, TypeInv, TypeOK
<1>34. CASE LinkWrite(p)
  BY <1>34 DEF LinkWrite, Return, Leave, TypeInv, TypeOK
<1>35. CASE DropLook(p)
  BY <1>35 DEF DropLook, At, Fail, Return, Leave, Onward, Goto, TypeInv, TypeOK
<1>36. CASE DropRemove(p)
  BY <1>36 DEF DropRemove, At, Return, Leave, TypeInv, TypeOK
<1>37. CASE RelinkMove(p)
  BY <1>37 DEF RelinkMove, At, Fail, Return, Leave, Onward, Goto, TypeInv, TypeOK
<1>38. CASE RelinkFile(p)
  BY <1>38 DEF RelinkFile, At, Onward, Goto, TypeInv, TypeOK
<1>39. CASE RelinkRead(p)
  BY <1>39 DEF RelinkRead, At, Goto, TypeInv, TypeOK
<1>40. CASE RelinkYaml(p)
  BY <1>40 DEF RelinkYaml, At, Onward, Goto, TypeInv, TypeOK
<1>41. CASE RelinkSessions(p)
  BY <1>41 DEF RelinkSessions, At, Return, Leave, TypeInv, TypeOK
<1>42. CASE Target(p)
  BY <1>42 DEF Target, Fail, Return, Leave, Goto, TypeInv, TypeOK
<1>43. CASE Read(p)
  BY <1>43 DEF Read, Fail, Return, Leave, LockDoc, Goto, TypeInv, TypeOK
<1>44. CASE GoalWrite(p)
  <2>1. CASE UNCHANGED wanted
    BY <2>1 DEF TypeInv, TypeOK
  <2>2. CASE ~UNCHANGED wanted
    <3>1. PICK e \in Edited(cmd[p].text, cmd[p].edit, cmd[p].goal) :
             wanted' = (wanted \ (cmd[p].text.open \ e.open)) \union (e.open \ cmd[p].text.open)
      BY <1>44, <2>2 DEF GoalWrite, Fail
    <3>2. e \in Docs
      BY <1>44, Hands, Here, EditedTyped DEF GoalWrite, At, Shape
    <3>. QED  BY <3>1, <3>2 DEF TypeInv, TypeOK, Docs
  <2>. QED  BY <2>1, <2>2
<1>45. CASE DecisionWrite(p)
  BY <1>45 DEF DecisionWrite, At, Stamping, Goto, TypeInv, TypeOK
<1>46. CASE ReportTruncate(p)
  BY <1>46 DEF ReportTruncate, At, Onward, Goto, TypeInv, TypeOK
<1>47. CASE ReportFill(p)
  BY <1>47 DEF ReportFill, At, Stamping, Goto, TypeInv, TypeOK
<1>48. CASE TouchRead(p)
  BY <1>48 DEF TouchRead, Fail, Return, Leave, LockRecord, Goto, TypeInv, TypeOK
<1>49. CASE RiskRead(p)
  BY <1>49 DEF RiskRead, At, Fail, Return, Leave, LockRecord, Goto, TypeInv, TypeOK
<1>50. CASE Stamp(p)
  BY <1>50 DEF Stamp, Return, Leave, TypeInv, TypeOK
<1>. QED
  BY <1>1, <1>2, <1>3, <1>4, <1>5, <1>6, <1>7, <1>8, <1>9, <1>10, <1>11, <1>12, <1>13,
     <1>14, <1>15, <1>16, <1>17, <1>18, <1>19, <1>20, <1>21, <1>22, <1>22a, <1>22b, <1>22c, <1>23, <1>24, <1>25,
     <1>26, <1>27, <1>28, <1>29, <1>30, <1>31, <1>32, <1>33, <1>34, <1>35, <1>36, <1>37,
     <1>38, <1>39, <1>40, <1>41, <1>42, <1>43, <1>44, <1>45, <1>46, <1>47, <1>48, <1>49,
     <1>50
  DEF Acts, Step, Create, Select, Merge, Move, Repository, Entry

(* A command that begins takes one of those that can.                       *)
LEMMA CallLocks ==
    ASSUME TypeInv, NEW p, NEW c, Call(p, c)
    PROVE  /\ ylock' \in Procs \union {Nobody}
           /\ mlock' \in [Files -> Procs \union {Nobody}]
           /\ left' \in 0 .. MaxCommands /\ overlap' \in BOOLEAN /\ killed' \subseteq Ops
<1>1. overlap' \in BOOLEAN
  BY Zenon DEF Call, TypeInv, TypeOK
<1>2. left' \in 0 .. MaxCommands
  BY BudgetAssumption DEF Call, TypeInv, TypeOK
<1>. QED  BY <1>1, <1>2 DEF Call, TypeInv, TypeOK

(* And the locks.                                                           *)
LEMMA LocksTyped ==
    ASSUME TypeInv,
           NEW p \in Procs, Acts(p)
    PROVE  /\ ylock' \in Procs \union {Nobody}
           /\ mlock' \in [Files -> Procs \union {Nobody}]
           /\ left' \in 0 .. MaxCommands /\ overlap' \in BOOLEAN /\ killed' \subseteq Ops
<1>1. CASE CallRecord(p)
  BY <1>1, CallLocks, Asked
<1>2. CASE CallRepository(p)
  BY <1>2, CallLocks, Asked
<1>3. CASE CallEntry(p)
  BY <1>3, CallLocks, Asked
<1>4. CASE Kill(p)
  <2>1. killed' \subseteq Ops
    BY <1>4, Hands DEF Kill, TypeInv, TypeOK
  <2>. QED  BY <1>4, <2>1, LeaveTyped DEF Kill
<1>5. CASE EnsureLock(p)
  BY <1>5 DEF EnsureLock, At, LockRecord, Goto, TypeInv, TypeOK, history
<1>6. CASE EnsureMain(p)
  BY <1>6 DEF EnsureMain, At, Onward, Goto, TypeInv, TypeOK, history
<1>7. CASE EnsureSub(p)
  BY <1>7 DEF EnsureSub, At, Fail, Return, Leave, Goto, TypeInv, TypeOK, history
<1>8. CASE AddLook(p)
  BY <1>8 DEF AddLook, At, Fail, Return, Leave, Onward, LockRecord, Goto, TypeInv,
     TypeOK, history
<1>9. CASE BranchLook(p)
  BY <1>9 DEF BranchLook, At, Fail, Return, Leave, LockRecord, Goto, TypeInv, TypeOK,
     history
<1>10. CASE CreateMd(p)
  BY <1>10 DEF CreateMd, Fail, Return, Leave, Onward, Goto, TypeInv, TypeOK, history
<1>11. CASE CreateYaml(p)
  BY <1>11 DEF CreateYaml, Goto, Return, Leave, TypeInv, TypeOK, history
<1>12. CASE CreateFail(p)
  BY <1>12 DEF CreateFail, Return, Leave, TypeInv, TypeOK, history
<1>13. CASE SelectLook(p)
  BY <1>13 DEF SelectLook, At, Fail, Return, Leave, Goto, TypeInv, TypeOK, history
<1>14. CASE SelectPoint(p)
  BY <1>14 DEF SelectPoint, Return, Leave, TypeInv, TypeOK, history
<1>15. CASE MergeLook(p)
  BY <1>15 DEF MergeLook, At, Fail, Return, Leave, LockRecord, Goto, TypeInv, TypeOK,
     history
<1>16. CASE MergeLock(p)
  BY <1>16 DEF MergeLock, At, LockDoc, Onward, Goto, TypeInv, TypeOK, history
<1>17. CASE MergeRead(p)
  BY <1>17 DEF MergeRead, At, Fail, Return, Leave, Goto, TypeInv, TypeOK, history
<1>18. CASE MergeArchive(p)
  BY <1>18 DEF MergeArchive, At, Onward, Goto, TypeInv, TypeOK, history
<1>19. CASE MergeParent(p)
  BY <1>19 DEF MergeParent, At, Onward, Goto, TypeInv, TypeOK, history
<1>20. CASE MergeYaml(p)
  BY <1>20 DEF MergeYaml, At, Onward, Goto, TypeInv, TypeOK, history
<1>21. CASE MergeUnlink(p)
  BY <1>21 DEF MergeUnlink, At, Return, Leave, TypeInv, TypeOK, history
<1>22. CASE MergeFail(p)
  BY <1>22 DEF MergeFail, Onward, Goto, TypeInv, TypeOK, history
<1>22a. CASE MergeRestore(p)
  BY <1>22a DEF MergeRestore, At, Onward, Goto, TypeInv, TypeOK, history
<1>22b. CASE MergeRevert(p)
  BY <1>22b DEF MergeRevert, At, Onward, Goto, TypeInv, TypeOK, history
<1>22c. CASE MergeDiscard(p)
  BY <1>22c DEF MergeDiscard, At, Return, Leave, TypeInv, TypeOK, history
<1>23. CASE RenameLook(p)
  BY <1>23 DEF RenameLook, At, Fail, Return, Leave, Goto, TypeInv, TypeOK, history
<1>24. CASE RenameMd(p)
  BY <1>24 DEF RenameMd, At, Fail, Return, Leave, Onward, Goto, TypeInv, TypeOK, history
<1>25. CASE RenameYaml(p)
  BY <1>25 DEF RenameYaml, At, Onward, Goto, TypeInv, TypeOK, history
<1>26. CASE RenameSessions(p)
  BY <1>26 DEF RenameSessions, At, Return, Leave, TypeInv, TypeOK, history
<1>27. CASE RemoveLook(p)
  BY <1>27 DEF RemoveLook, At, Fail, Return, Leave, Goto, TypeInv, TypeOK, history
<1>28. CASE RemoveMd(p)
  BY <1>28 DEF RemoveMd, At, Onward, Goto, TypeInv, TypeOK, history
<1>29. CASE RemoveYaml(p)
  BY <1>29 DEF RemoveYaml, At, Return, Leave, TypeInv, TypeOK, history
<1>30. CASE AddRepository(p)
  BY <1>30 DEF AddRepository, At, Return, Leave, TypeInv, TypeOK, history
<1>31. CASE FoundRegister(p)
  BY <1>31 DEF FoundRegister, At, Fail, Return, Leave, Onward, Goto, TypeInv, TypeOK,
     history
<1>32. CASE FoundRead(p)
  BY <1>32 DEF FoundRead, At, LockRecord, Goto, TypeInv, TypeOK, history
<1>33. CASE LinkRead(p)
  BY <1>33 DEF LinkRead, Fail, Return, Leave, Goto, TypeInv, TypeOK, history
<1>34. CASE LinkWrite(p)
  BY <1>34 DEF LinkWrite, Return, Leave, TypeInv, TypeOK, history
<1>35. CASE DropLook(p)
  BY <1>35 DEF DropLook, At, Fail, Return, Leave, Onward, Goto, TypeInv, TypeOK, history
<1>36. CASE DropRemove(p)
  BY <1>36 DEF DropRemove, At, Return, Leave, TypeInv, TypeOK, history
<1>37. CASE RelinkMove(p)
  BY <1>37 DEF RelinkMove, At, Fail, Return, Leave, Onward, Goto, TypeInv, TypeOK, history
<1>38. CASE RelinkFile(p)
  BY <1>38 DEF RelinkFile, At, Onward, Goto, TypeInv, TypeOK, history
<1>39. CASE RelinkRead(p)
  BY <1>39 DEF RelinkRead, At, Goto, TypeInv, TypeOK, history
<1>40. CASE RelinkYaml(p)
  BY <1>40 DEF RelinkYaml, At, Onward, Goto, TypeInv, TypeOK, history
<1>41. CASE RelinkSessions(p)
  BY <1>41 DEF RelinkSessions, At, Return, Leave, TypeInv, TypeOK, history
<1>42. CASE Target(p)
  BY <1>42 DEF Target, Fail, Return, Leave, Goto, TypeInv, TypeOK, history
<1>43. CASE Read(p)
  BY <1>43 DEF Read, Fail, Return, Leave, LockDoc, Goto, TypeInv, TypeOK, history
<1>44. CASE GoalWrite(p)
  BY <1>44 DEF GoalWrite, At, Fail, Return, Leave, Stamping, Goto, TypeInv, TypeOK, history
<1>45. CASE DecisionWrite(p)
  BY <1>45 DEF DecisionWrite, At, Stamping, Goto, TypeInv, TypeOK, history
<1>46. CASE ReportTruncate(p)
  BY <1>46 DEF ReportTruncate, At, Onward, Goto, TypeInv, TypeOK, history
<1>47. CASE ReportFill(p)
  BY <1>47 DEF ReportFill, At, Stamping, Goto, TypeInv, TypeOK, history
<1>48. CASE TouchRead(p)
  BY <1>48 DEF TouchRead, Fail, Return, Leave, LockRecord, Goto, TypeInv, TypeOK, history
<1>49. CASE RiskRead(p)
  BY <1>49 DEF RiskRead, At, Fail, Return, Leave, LockRecord, Goto, TypeInv, TypeOK, history
<1>50. CASE Stamp(p)
  BY <1>50 DEF Stamp, Return, Leave, TypeInv, TypeOK, history
<1>. QED
  BY <1>1, <1>2, <1>3, <1>4, <1>5, <1>6, <1>7, <1>8, <1>9, <1>10, <1>11, <1>12, <1>13,
     <1>14, <1>15, <1>16, <1>17, <1>18, <1>19, <1>20, <1>21, <1>22, <1>22a, <1>22b, <1>22c, <1>23, <1>24, <1>25,
     <1>26, <1>27, <1>28, <1>29, <1>30, <1>31, <1>32, <1>33, <1>34, <1>35, <1>36, <1>37,
     <1>38, <1>39, <1>40, <1>41, <1>42, <1>43, <1>44, <1>45, <1>46, <1>47, <1>48, <1>49,
     <1>50
  DEF Acts, Step, Create, Select, Merge, Move, Repository, Entry

(* The types are an invariant with the shapes the commands have.            *)
LEMMA TypesHold == Spec => []TypeInv
<1>1. Init => TypeInv
  <2>. SUFFICES ASSUME Init PROVE TypeInv
    OBVIOUS
  <2>1. PICK i \in Start :
           /\ yaml = i.yaml /\ killed = i.killed
           /\ doc = [f \in Files |-> IF f \in i.docs THEN Stub ELSE NoDoc]
           /\ catalog = i.yaml.repos
           /\ sess = [s \in Sessions |-> [sub |-> i.sub, repos |-> i.yaml.repos]]
    BY DEF Init
  <2>2. \A r \in Repos : [Founded EXCEPT !.repos = {r}] \in Records
    BY Values, ReposTyped
  <2>3. \A n \in Names, r \in Repos :
           [With(Founded, n, Branch(n, Main, r)) EXCEPT !.repos = {r}] \in Records
    <3>. SUFFICES ASSUME NEW n \in Names, NEW r \in Repos
                  PROVE  [With(Founded, n, Branch(n, Main, r)) EXCEPT !.repos = {r}] \in Records
      OBVIOUS
    <3>1. Branch(n, Main, r) \in Entries /\ Founded \in Records
      BY Values
    <3>2. With(Founded, n, Branch(n, Main, r)) \in Records
      BY <3>1, WithTyped
    <3>. QED  BY <3>2, ReposTyped
  <2>3a. \A n \in Names, m \in Names, r \in Repos :
           [With(Founded, n, [Regular(n) EXCEPT !.file = Md(m)]) EXCEPT !.repos = {r}] \in Records
    <3>. SUFFICES ASSUME NEW n \in Names, NEW m \in Names, NEW r \in Repos
                  PROVE  [With(Founded, n, [Regular(n) EXCEPT !.file = Md(m)])
                             EXCEPT !.repos = {r}] \in Records
      OBVIOUS
    <3>1. [Regular(n) EXCEPT !.file = Md(m)] \in Entries /\ Founded \in Records
      BY Values DEF Entries
    <3>2. With(Founded, n, [Regular(n) EXCEPT !.file = Md(m)]) \in Records
      BY <3>1, WithTyped
    <3>. QED  BY <3>2, ReposTyped
  <2>3b. {} \subseteq Ops /\ {"rename"} \subseteq Ops
    BY DEF Ops
  <2>4. i.yaml \in Records /\ i.sub \in Targets /\ i.killed \subseteq Ops
    <3>1. CASE i = [yaml |-> NoRecord, docs |-> {}, sub |-> Main, killed |-> {}]
      BY <3>1, <2>3b, Values
    <3>2. CASE \E r \in Repos :
                 i = [yaml |-> [Founded EXCEPT !.repos = {r}], docs |-> {Md(Main)},
                      sub |-> Main, killed |-> {}]
      BY <3>2, <2>2, <2>3b, Values
    <3>3. CASE \E n \in Names, r \in Repos :
                 i = [yaml |-> [With(Founded, n, Branch(n, Main, r)) EXCEPT !.repos = {r}],
                      docs |-> {Md(Main), Md(n)}, sub |-> n, killed |-> {}]
      BY <3>3, <2>3, <2>3b, Values
    <3>4. CASE \E n \in Names, m \in Names, r \in Repos :
                 i = [yaml |-> [With(Founded, n, [Regular(n) EXCEPT !.file = Md(m)])
                                   EXCEPT !.repos = {r}],
                      docs |-> {Md(Main), Md(n)}, sub |-> n, killed |-> {"rename"}]
      BY <3>4, <2>3a, <2>3b, Values
    <3>. QED  BY <3>1, <3>2, <3>3, <3>4 DEF Start
  <2>5. /\ yaml \in Records /\ doc \in [Files -> Docs \union {NoDoc}] /\ catalog \subseteq Repos
        /\ sess \in [Sessions -> [sub : Targets, repos : SUBSET Repos]]
    BY <2>1, <2>4, Values DEF Records
  <2>6. cmd \in [Procs -> Commands] /\ Shapes
    BY Values DEF Init, Shapes
  <2>7. /\ ylock \in Procs \union {Nobody} /\ mlock \in [Files -> Procs \union {Nobody}]
        /\ wanted \subseteq Goals /\ killed \subseteq Ops
    BY <2>1, <2>4 DEF Init
  <2>8. left \in 0 .. MaxCommands
    BY BudgetAssumption DEF Init
  <2>9. overlap \in BOOLEAN
    BY Zenon DEF Init
  <2>. QED  BY <2>5, <2>6, <2>7, <2>8, <2>9 DEF TypeInv, TypeOK
<1>2. TypeInv /\ [Next]_vars => TypeInv'
  <2>. SUFFICES ASSUME TypeInv, [Next]_vars PROVE TypeInv'
    OBVIOUS
  <2>1. CASE UNCHANGED vars
    BY <2>1 DEF TypeInv, TypeOK, Shapes, vars, history
  <2>2. CASE Next
    <3>1. PICK p \in Procs : Acts(p)
      BY <2>2 DEF Next, Acts
    <3>. QED
      BY <3>1, CommandsTyped, RecordTyped, DocsTyped, OthersTyped, WantedTyped,
         LocksTyped
                 DEF TypeInv, TypeOK
  <2>. QED  BY <2>1, <2>2
<1>. QED  BY <1>1, <1>2, PTL DEF Spec

(* The record, the documents, the locks and the commands stay well typed,   *)
(* for any names, repositories, sessions and number of commands.            *)
THEOREM TypeCorrect == Spec => []TypeOK
<1>1. TypeInv => TypeOK
  BY DEF TypeInv
<1>. QED  BY <1>1, TypesHold, PTL

-----------------------------------------------------------------------------
(* Where a command holds the record's lock, and where a document's.         *)
Merging == {"lock", "read", "archive", "parent", "yaml", "unlink",
            "restore", "revert", "discard"}
Recording(c) ==
    \/ c.op = "ensure" /\ c.at \in {"main", "sub", "yaml"}
    \/ c.op \in {"add", "branch"} /\ c.at \in {"md", "yaml"}
    \/ c.op = "merge" /\ c.at \in Merging
    \/ c.op = "found" /\ c.at = "yaml"
    \/ c.op \in Writers \union {"risk"} /\ c.at = "stamp"
Writing(c, f) ==
    \/ c.op \in Writers /\ c.at \in {"write", "fill"} /\ f = c.file
    \/ c.op = "merge" /\ c.at \in Merging
LockInv ==
    /\ \A p \in Procs : ylock = p <=> Recording(cmd[p])
    /\ \A p \in Procs, f \in Files : mlock[f] = p => Writing(cmd[p], f)

(* A command that goes on, with a lock more or less.                        *)
LEMMA LocksMove ==
    ASSUME TypeInv, LockInv, NEW p \in Procs, NEW c, cmd' = [cmd EXCEPT ![p] = c],
           \/ ylock' = ylock /\ (Recording(c) <=> Recording(cmd[p]))
           \/ ylock = Nobody /\ ylock' = p /\ Recording(c)
           \/ Recording(cmd[p]) /\ ylock' = Nobody /\ ~Recording(c),
           \A f \in Files : IF mlock'[f] = p THEN Writing(c, f)
                            ELSE mlock'[f] \in {mlock[f], Nobody}
    PROVE  LockInv'
<1>1. \A q \in Procs : cmd'[q] = IF q = p THEN c ELSE cmd[q]
  BY DEF TypeInv, TypeOK
<1>2. ASSUME NEW q \in Procs PROVE ylock' = q <=> Recording(cmd'[q])
  BY <1>1, NobodyAssumption DEF LockInv
<1>3. ASSUME NEW q \in Procs, NEW f \in Files, mlock'[f] = q PROVE Writing(cmd'[q], f)
  BY <1>1, <1>3, NobodyAssumption DEF LockInv
<1>. QED  BY <1>2, <1>3 DEF LockInv, Recording, Writing, Merging

(* A command that ends gives back its locks.                                *)
LEMMA LeaveLocks ==
    ASSUME TypeInv, LockInv, NEW p \in Procs, Leave(p)
    PROVE  LockInv'
<1>1. ~Recording(Idle)
  BY DEF Idle, Recording, Merging
<1>2. \A f \in Files : mlock'[f] # p /\ mlock'[f] \in {mlock[f], Nobody}
  BY NobodyAssumption DEF Leave
<1>3. \/ ylock' = ylock /\ ~Recording(cmd[p])
      \/ Recording(cmd[p]) /\ ylock' = Nobody
  BY DEF Leave, LockInv
<1>. QED  BY <1>1, <1>2, <1>3, LocksMove DEF Leave

(* A command that goes on with its locks as they are.                       *)
LEMMA LocksStay ==
    ASSUME TypeInv, LockInv, NEW p \in Procs, NEW c, cmd' = [cmd EXCEPT ![p] = c],
           UNCHANGED <<ylock, mlock>>, Recording(c) <=> Recording(cmd[p]),
           \A f \in Files : Writing(cmd[p], f) => Writing(c, f)
    PROVE  LockInv'
<1>1. \A f \in Files : mlock'[f] = p => Writing(c, f)
  BY DEF LockInv
<1>. QED  BY <1>1, LocksMove

(* A command that begins has none.                                          *)
LEMMA CallLockInv ==
    ASSUME TypeInv, LockInv, NEW p \in Procs, NEW c \in Commands, Call(p, c)
    PROVE  LockInv'
<1>. DEFINE d == [c EXCEPT !.at = "go"]
<1>1. cmd' = [cmd EXCEPT ![p] = d] /\ UNCHANGED <<ylock, mlock>> /\ cmd[p].op = "none"
  BY DEF Call, Busy
<1>2. ~Recording(d) /\ ~Recording(cmd[p])
  BY <1>1 DEF Recording, Commands, Writers, Merging
<1>3. \A f \in Files : ~Writing(cmd[p], f)
  BY <1>1 DEF Writing, Writers, Merging
<1>. HIDE DEF d
<1>. QED  BY <1>1, <1>2, <1>3, LocksStay

(* Every step takes and gives back locks where it goes in and out.          *)
LEMMA LocksKept ==
    ASSUME TypeInv, LockInv,
           NEW p \in Procs, Acts(p)
    PROVE  LockInv'
<1>1. CASE CallRecord(p)
  BY <1>1, Asked, CallLockInv
<1>2. CASE CallRepository(p)
  BY <1>2, Asked, CallLockInv
<1>3. CASE CallEntry(p)
  BY <1>3, Asked, CallLockInv
<1>4. CASE Kill(p)
  BY <1>4, LeaveLocks DEF Kill
<1>5. CASE EnsureLock(p)
  <2>. DEFINE c == [cmd[p] EXCEPT !.at = IF yaml.made THEN "sub" ELSE "main", !.seen = yaml']
  <2>1. /\ cmd' = [cmd EXCEPT ![p] = c] /\ ylock = Nobody /\ ylock' = p
        /\ UNCHANGED mlock
        /\ cmd[p].op = "ensure" /\ cmd[p].at = "go"
    BY <1>5 DEF EnsureLock, At, LockRecord, Goto
  <2>2. Recording(c)
    BY <2>1, Here DEF Recording, Commands, Writers, Merging
  <2>3. \A f \in Files : IF mlock'[f] = p THEN Writing(c, f)
             ELSE mlock'[f] \in {mlock[f], Nobody}
    BY <2>1, Here DEF LockInv, Writing, Commands, Writers, TypeInv, TypeOK, Merging
  <2>. HIDE DEF c
  <2>. QED  BY <2>1, <2>2, <2>3, LocksMove
<1>6. CASE EnsureMain(p)
  <2>. DEFINE c == [cmd[p] EXCEPT !.at = "sub"]
  <2>1. /\ cmd' = [cmd EXCEPT ![p] = c] /\ UNCHANGED <<ylock, mlock>>
        /\ cmd[p].op = "ensure" /\ cmd[p].at = "main"
    BY <1>6 DEF EnsureMain, At, Onward, Goto
  <2>2. Recording(c) <=> Recording(cmd[p])
    BY <2>1, Here DEF Recording, Commands, Writers, Merging
  <2>3. \A f \in Files : Writing(cmd[p], f) => Writing(c, f)
    BY <2>1, Here DEF Writing, Commands, Writers, Merging
  <2>. HIDE DEF c
  <2>. QED  BY <2>1, <2>2, <2>3, LocksStay
<1>7. CASE EnsureSub(p)
  <2>1. CASE Fail(p)
    BY <2>1, LeaveLocks DEF Fail, Return
  <2>2. CASE ~Fail(p)
    <3>. DEFINE c == [cmd[p] EXCEPT !.at = "yaml", !.seen = With(@, cmd[p].name, Regular(cmd[p].name))]
    <3>1. /\ cmd' = [cmd EXCEPT ![p] = c] /\ UNCHANGED <<ylock, mlock>>
          /\ cmd[p].op = "ensure" /\ cmd[p].at = "sub"
      BY <1>7, <2>2 DEF EnsureSub, At, Goto
    <3>2. Recording(c) <=> Recording(cmd[p])
      BY <3>1, Here DEF Recording, Commands, Writers, Merging
    <3>3. \A f \in Files : Writing(cmd[p], f) => Writing(c, f)
      BY <3>1, Here DEF Writing, Commands, Writers, Merging
    <3>. HIDE DEF c
    <3>. QED  BY <3>1, <3>2, <3>3, LocksStay
  <2>. QED  BY <2>1, <2>2
<1>8. CASE AddLook(p)
  <2>1. CASE Onward(p, "select") /\ UNCHANGED <<ylock, mlock>>
    <3>. DEFINE c == [cmd[p] EXCEPT !.at = "select"]
    <3>1. /\ cmd' = [cmd EXCEPT ![p] = c] /\ UNCHANGED <<ylock, mlock>>
          /\ cmd[p].op = "add" /\ cmd[p].at = "go"
      BY <1>8, <2>1 DEF AddLook, At, Onward, LockRecord, Goto
    <3>2. Recording(c) <=> Recording(cmd[p])
      BY <3>1, Here DEF Recording, Commands, Writers, Merging
    <3>3. \A f \in Files : Writing(cmd[p], f) => Writing(c, f)
      BY <3>1, Here DEF Writing, Commands, Writers, Merging
    <3>. HIDE DEF c
    <3>. QED  BY <3>1, <3>2, <3>3, LocksStay
  <2>2. CASE ~(Onward(p, "select") /\ UNCHANGED <<ylock, mlock>>)
    <3>1. CASE Fail(p)
      BY <3>1, LeaveLocks DEF Fail, Return
    <3>2. CASE ~Fail(p)
      <4>. DEFINE c == [cmd[p] EXCEPT !.at = "md", !.was = yaml, !.seen = With(yaml, cmd[p].name, Regular(cmd[p].name))]
      <4>1. /\ cmd' = [cmd EXCEPT ![p] = c] /\ ylock = Nobody /\ ylock' = p
            /\ UNCHANGED mlock
            /\ cmd[p].op = "add" /\ cmd[p].at = "go"
        BY <1>8, <2>2, <3>2 DEF AddLook, At, Onward, LockRecord, Goto
      <4>2. Recording(c)
        BY <4>1, Here DEF Recording, Commands, Writers, Merging
      <4>3. \A f \in Files : IF mlock'[f] = p THEN Writing(c, f)
                 ELSE mlock'[f] \in {mlock[f], Nobody}
        BY <4>1, Here DEF LockInv, Writing, Commands, Writers, TypeInv, TypeOK, Merging
      <4>. HIDE DEF c
      <4>. QED  BY <4>1, <4>2, <4>3, LocksMove
    <3>. QED  BY <3>1, <3>2
  <2>. QED  BY <2>1, <2>2
<1>9. CASE BranchLook(p)
  <2>1. CASE Fail(p)
    BY <2>1, LeaveLocks DEF Fail, Return
  <2>2. CASE ~Fail(p)
    <3>. DEFINE c == [cmd[p] EXCEPT !.at = "md", !.was = yaml, !.seen = With(yaml, cmd[p].name, Branch(cmd[p].name, cmd[p].to, cmd[p].repo))]
    <3>1. /\ cmd' = [cmd EXCEPT ![p] = c] /\ ylock = Nobody /\ ylock' = p
          /\ UNCHANGED mlock
          /\ cmd[p].op = "branch" /\ cmd[p].at = "go"
      BY <1>9, <2>2 DEF BranchLook, At, LockRecord, Goto
    <3>2. Recording(c)
      BY <3>1, Here DEF Recording, Commands, Writers, Merging
    <3>3. \A f \in Files : IF mlock'[f] = p THEN Writing(c, f)
               ELSE mlock'[f] \in {mlock[f], Nobody}
      BY <3>1, Here DEF LockInv, Writing, Commands, Writers, TypeInv, TypeOK, Merging
    <3>. HIDE DEF c
    <3>. QED  BY <3>1, <3>2, <3>3, LocksMove
  <2>. QED  BY <2>1, <2>2
<1>10. CASE CreateMd(p)
  <2>1. CASE Fail(p)
    BY <2>1, LeaveLocks DEF Fail, Return
  <2>2. CASE ~Fail(p)
    <3>. DEFINE c == [cmd[p] EXCEPT !.at = "yaml"]
    <3>1. /\ cmd' = [cmd EXCEPT ![p] = c] /\ UNCHANGED <<ylock, mlock>>
          /\ cmd[p].op \in {"add", "branch"} /\ cmd[p].at = "md"
      BY <1>10, <2>2 DEF CreateMd, Onward, Goto
    <3>2. Recording(c) <=> Recording(cmd[p])
      BY <3>1, Here DEF Recording, Commands, Writers, Merging
    <3>3. \A f \in Files : Writing(cmd[p], f) => Writing(c, f)
      BY <3>1, Here DEF Writing, Commands, Writers, Merging
    <3>. HIDE DEF c
    <3>. QED  BY <3>1, <3>2, <3>3, LocksStay
  <2>. QED  BY <2>1, <2>2
<1>11. CASE CreateYaml(p)
  <2>1. CASE Return(p)
    BY <2>1, LeaveLocks DEF Return
  <2>2. CASE ~Return(p)
    <3>. DEFINE c == [cmd[p] EXCEPT !.at = "select", !.seen = NoRecord, !.was = NoRecord]
    <3>1. /\ cmd' = [cmd EXCEPT ![p] = c] /\ ylock' = Nobody
          /\ UNCHANGED mlock
          /\ cmd[p].op = "add" /\ cmd[p].at = "yaml"
      BY <1>11, <2>2 DEF CreateYaml, Goto
    <3>2. Recording(cmd[p]) /\ ~Recording(c)
      BY <3>1, Here DEF Recording, Commands, Writers, Merging
    <3>3. \A f \in Files : IF mlock'[f] = p THEN Writing(c, f)
               ELSE mlock'[f] \in {mlock[f], Nobody}
      BY <3>1, Here DEF LockInv, Writing, Commands, Writers, TypeInv, TypeOK, Merging
    <3>. HIDE DEF c
    <3>. QED  BY <3>1, <3>2, <3>3, LocksMove
  <2>. QED  BY <2>1, <2>2
<1>12. CASE CreateFail(p)
  BY <1>12, LeaveLocks DEF CreateFail, Return
<1>13. CASE SelectLook(p)
  <2>1. CASE Fail(p)
    BY <2>1, LeaveLocks DEF Fail, Return
  <2>2. CASE ~Fail(p)
    <3>. DEFINE c == [cmd[p] EXCEPT !.at = "point", !.seen = yaml]
    <3>1. /\ cmd' = [cmd EXCEPT ![p] = c] /\ UNCHANGED <<ylock, mlock>>
          /\ cmd[p].op \in {"add", "set"} /\ cmd[p].at \in {"select", "go"}
      BY <1>13, <2>2 DEF SelectLook, At, Goto
    <3>2. Recording(c) <=> Recording(cmd[p])
      BY <3>1, Here DEF Recording, Commands, Writers, Merging
    <3>3. \A f \in Files : Writing(cmd[p], f) => Writing(c, f)
      BY <3>1, Here DEF Writing, Commands, Writers, Merging
    <3>. HIDE DEF c
    <3>. QED  BY <3>1, <3>2, <3>3, LocksStay
  <2>. QED  BY <2>1, <2>2
<1>14. CASE SelectPoint(p)
  BY <1>14, LeaveLocks DEF SelectPoint, Return
<1>15. CASE MergeLook(p)
  <2>1. CASE Fail(p)
    BY <2>1, LeaveLocks DEF Fail, Return
  <2>2. CASE ~Fail(p)
    <3>. DEFINE c == [cmd[p] EXCEPT !.at = "lock", !.seen = yaml, !.file = FileOf(yaml, yaml.subs[cmd[p].name].parent)]
    <3>1. /\ cmd' = [cmd EXCEPT ![p] = c] /\ ylock = Nobody /\ ylock' = p
          /\ UNCHANGED mlock
          /\ cmd[p].op = "merge" /\ cmd[p].at = "go"
      BY <1>15, <2>2 DEF MergeLook, At, LockRecord, Goto
    <3>2. Recording(c)
      BY <3>1, Here DEF Recording, Commands, Writers, Merging
    <3>3. \A f \in Files : IF mlock'[f] = p THEN Writing(c, f)
               ELSE mlock'[f] \in {mlock[f], Nobody}
      BY <3>1, Here DEF LockInv, Writing, Commands, Writers, TypeInv, TypeOK, Merging
    <3>. HIDE DEF c
    <3>. QED  BY <3>1, <3>2, <3>3, LocksMove
  <2>. QED  BY <2>1, <2>2
<1>16. CASE MergeLock(p)
  <2>1. PICK f : /\ mlock' = [mlock EXCEPT ![f] = p]
                 /\ \/ Onward(p, "lock")
                    \/ Onward(p, "read")
    BY <1>16 DEF MergeLock, LockDoc
  <2>2. PICK to \in {"lock", "read"} : cmd' = [cmd EXCEPT ![p] = [cmd[p] EXCEPT !.at = to]]
    BY <2>1 DEF Onward, Goto
  <2>. DEFINE c == [cmd[p] EXCEPT !.at = to]
  <2>3. cmd[p].op = "merge" /\ cmd[p].at = "lock" /\ ylock' = ylock
    BY <1>16 DEF MergeLock, At
  <2>4. Recording(c) /\ Recording(cmd[p]) /\ \A g \in Files : Writing(c, g)
    BY <2>3, Here DEF Recording, Writing, Commands, Merging
  <2>5. \A g \in Files : IF mlock'[g] = p THEN Writing(c, g) ELSE mlock'[g] \in {mlock[g], Nobody}
    BY <2>1, <2>4 DEF TypeInv, TypeOK
  <2>. HIDE DEF c
  <2>. QED  BY <2>2, <2>3, <2>4, <2>5, LocksMove DEF c
<1>17. CASE MergeRead(p)
  <2>1. CASE Fail(p)
    BY <2>1, LeaveLocks DEF Fail, Return
  <2>2. CASE ~Fail(p)
    <3>. DEFINE c == [cmd[p] EXCEPT !.at = "archive", !.was = yaml, !.text = doc[Merged(p).file], !.other = doc[cmd[p].file]]
    <3>1. /\ cmd' = [cmd EXCEPT ![p] = c] /\ UNCHANGED <<ylock, mlock>>
          /\ cmd[p].op = "merge" /\ cmd[p].at = "read"
      BY <1>17, <2>2 DEF MergeRead, At, Goto
    <3>2. Recording(c) <=> Recording(cmd[p])
      BY <3>1, Here DEF Recording, Commands, Writers, Merging
    <3>3. \A f \in Files : Writing(cmd[p], f) => Writing(c, f)
      BY <3>1, Here DEF Writing, Commands, Writers, Merging
    <3>. HIDE DEF c
    <3>. QED  BY <3>1, <3>2, <3>3, LocksStay
  <2>. QED  BY <2>1, <2>2
<1>18. CASE MergeArchive(p)
  <2>. DEFINE c == [cmd[p] EXCEPT !.at = "parent"]
  <2>1. /\ cmd' = [cmd EXCEPT ![p] = c] /\ UNCHANGED <<ylock, mlock>>
        /\ cmd[p].op = "merge" /\ cmd[p].at = "archive"
    BY <1>18 DEF MergeArchive, At, Onward, Goto
  <2>2. Recording(c) <=> Recording(cmd[p])
    BY <2>1, Here DEF Recording, Commands, Writers, Merging
  <2>3. \A f \in Files : Writing(cmd[p], f) => Writing(c, f)
    BY <2>1, Here DEF Writing, Commands, Writers, Merging
  <2>. HIDE DEF c
  <2>. QED  BY <2>1, <2>2, <2>3, LocksStay
<1>19. CASE MergeParent(p)
  <2>. DEFINE c == [cmd[p] EXCEPT !.at = "yaml"]
  <2>1. /\ cmd' = [cmd EXCEPT ![p] = c] /\ UNCHANGED <<ylock, mlock>>
        /\ cmd[p].op = "merge" /\ cmd[p].at = "parent"
    BY <1>19 DEF MergeParent, At, Onward, Goto
  <2>2. Recording(c) <=> Recording(cmd[p])
    BY <2>1, Here DEF Recording, Commands, Writers, Merging
  <2>3. \A f \in Files : Writing(cmd[p], f) => Writing(c, f)
    BY <2>1, Here DEF Writing, Commands, Writers, Merging
  <2>. HIDE DEF c
  <2>. QED  BY <2>1, <2>2, <2>3, LocksStay
<1>20. CASE MergeYaml(p)
  <2>. DEFINE c == [cmd[p] EXCEPT !.at = "unlink"]
  <2>1. /\ cmd' = [cmd EXCEPT ![p] = c] /\ UNCHANGED <<ylock, mlock>>
        /\ cmd[p].op = "merge" /\ cmd[p].at = "yaml"
    BY <1>20 DEF MergeYaml, At, Onward, Goto
  <2>2. Recording(c) <=> Recording(cmd[p])
    BY <2>1, Here DEF Recording, Commands, Writers, Merging
  <2>3. \A f \in Files : Writing(cmd[p], f) => Writing(c, f)
    BY <2>1, Here DEF Writing, Commands, Writers, Merging
  <2>. HIDE DEF c
  <2>. QED  BY <2>1, <2>2, <2>3, LocksStay
<1>21. CASE MergeUnlink(p)
  BY <1>21, LeaveLocks DEF MergeUnlink, Return
<1>22. CASE MergeFail(p)
  <2>. DEFINE c == [cmd[p] EXCEPT !.at = "restore"]
  <2>1. /\ cmd' = [cmd EXCEPT ![p] = c] /\ UNCHANGED <<ylock, mlock>>
        /\ cmd[p].op = "merge" /\ cmd[p].at \in {"archive", "parent", "yaml", "unlink"}
    BY <1>22 DEF MergeFail, At, Onward, Goto
  <2>2. Recording(c) <=> Recording(cmd[p])
    BY <2>1, Here DEF Recording, Commands, Writers, Merging
  <2>3. \A f \in Files : Writing(cmd[p], f) => Writing(c, f)
    BY <2>1, Here DEF Writing, Commands, Writers, Merging
  <2>. HIDE DEF c
  <2>. QED  BY <2>1, <2>2, <2>3, LocksStay
<1>22a. CASE MergeRestore(p)
  <2>. DEFINE c == [cmd[p] EXCEPT !.at = "revert"]
  <2>1. /\ cmd' = [cmd EXCEPT ![p] = c] /\ UNCHANGED <<ylock, mlock>>
        /\ cmd[p].op = "merge" /\ cmd[p].at = "restore"
    BY <1>22a DEF MergeRestore, At, Onward, Goto
  <2>2. Recording(c) <=> Recording(cmd[p])
    BY <2>1, Here DEF Recording, Commands, Writers, Merging
  <2>3. \A f \in Files : Writing(cmd[p], f) => Writing(c, f)
    BY <2>1, Here DEF Writing, Commands, Writers, Merging
  <2>. HIDE DEF c
  <2>. QED  BY <2>1, <2>2, <2>3, LocksStay
<1>22b. CASE MergeRevert(p)
  <2>. DEFINE c == [cmd[p] EXCEPT !.at = "discard"]
  <2>1. /\ cmd' = [cmd EXCEPT ![p] = c] /\ UNCHANGED <<ylock, mlock>>
        /\ cmd[p].op = "merge" /\ cmd[p].at = "revert"
    BY <1>22b DEF MergeRevert, At, Onward, Goto
  <2>2. Recording(c) <=> Recording(cmd[p])
    BY <2>1, Here DEF Recording, Commands, Writers, Merging
  <2>3. \A f \in Files : Writing(cmd[p], f) => Writing(c, f)
    BY <2>1, Here DEF Writing, Commands, Writers, Merging
  <2>. HIDE DEF c
  <2>. QED  BY <2>1, <2>2, <2>3, LocksStay
<1>22c. CASE MergeDiscard(p)
  BY <1>22c, LeaveLocks DEF MergeDiscard, Return
<1>23. CASE RenameLook(p)
  <2>1. CASE Fail(p)
    BY <2>1, LeaveLocks DEF Fail, Return
  <2>2. CASE ~Fail(p)
    <3>. DEFINE c == [cmd[p] EXCEPT !.at = "md", !.seen = yaml]
    <3>1. /\ cmd' = [cmd EXCEPT ![p] = c] /\ UNCHANGED <<ylock, mlock>>
          /\ cmd[p].op = "rename"
      BY <1>23, <2>2 DEF RenameLook, At, Goto
    <3>2. Recording(c) <=> Recording(cmd[p])
      BY <3>1, Here DEF Recording, Commands, Writers, Merging
    <3>3. \A f \in Files : Writing(cmd[p], f) => Writing(c, f)
      BY <3>1, Here DEF Writing, Commands, Writers, Merging
    <3>. HIDE DEF c
    <3>. QED  BY <3>1, <3>2, <3>3, LocksStay
  <2>. QED  BY <2>1, <2>2
<1>24. CASE RenameMd(p)
  <2>1. CASE Fail(p)
    BY <2>1, LeaveLocks DEF Fail, Return
  <2>2. CASE ~Fail(p)
    <3>1. PICK c : /\ cmd' = [cmd EXCEPT ![p] = c] /\ UNCHANGED <<ylock, mlock>>
                   /\ c.op = "rename" /\ c.at = "yaml" /\ cmd[p].op = "rename" /\ cmd[p].at = "md"
      BY <1>24, <2>2, Here DEF RenameMd, At, Onward, Goto, Commands
    <3>2. Recording(c) <=> Recording(cmd[p])
      BY <3>1 DEF Recording, Merging
    <3>3. \A f \in Files : Writing(cmd[p], f) => Writing(c, f)
      BY <3>1 DEF Writing, Writers, Merging
    <3>. QED  BY <3>1, <3>2, <3>3, LocksStay
  <2>. QED  BY <2>1, <2>2
<1>25. CASE RenameYaml(p)
  <2>. DEFINE c == [cmd[p] EXCEPT !.at = "sessions"]
  <2>1. /\ cmd' = [cmd EXCEPT ![p] = c] /\ UNCHANGED <<ylock, mlock>>
        /\ cmd[p].op = "rename" /\ cmd[p].at = "yaml"
    BY <1>25 DEF RenameYaml, At, Onward, Goto
  <2>2. Recording(c) <=> Recording(cmd[p])
    BY <2>1, Here DEF Recording, Commands, Writers, Merging
  <2>3. \A f \in Files : Writing(cmd[p], f) => Writing(c, f)
    BY <2>1, Here DEF Writing, Commands, Writers, Merging
  <2>. HIDE DEF c
  <2>. QED  BY <2>1, <2>2, <2>3, LocksStay
<1>26. CASE RenameSessions(p)
  BY <1>26, LeaveLocks DEF RenameSessions, Return
<1>27. CASE RemoveLook(p)
  <2>1. CASE Fail(p)
    BY <2>1, LeaveLocks DEF Fail, Return
  <2>2. CASE ~Fail(p)
    <3>. DEFINE c == [cmd[p] EXCEPT !.at = "md", !.seen = yaml]
    <3>1. /\ cmd' = [cmd EXCEPT ![p] = c] /\ UNCHANGED <<ylock, mlock>>
          /\ cmd[p].op = "remove"
      BY <1>27, <2>2 DEF RemoveLook, At, Goto
    <3>2. Recording(c) <=> Recording(cmd[p])
      BY <3>1, Here DEF Recording, Commands, Writers, Merging
    <3>3. \A f \in Files : Writing(cmd[p], f) => Writing(c, f)
      BY <3>1, Here DEF Writing, Commands, Writers, Merging
    <3>. HIDE DEF c
    <3>. QED  BY <3>1, <3>2, <3>3, LocksStay
  <2>. QED  BY <2>1, <2>2
<1>28. CASE RemoveMd(p)
  <2>. DEFINE c == [cmd[p] EXCEPT !.at = "yaml"]
  <2>1. /\ cmd' = [cmd EXCEPT ![p] = c] /\ UNCHANGED <<ylock, mlock>>
        /\ cmd[p].op = "remove" /\ cmd[p].at = "md"
    BY <1>28 DEF RemoveMd, At, Onward, Goto
  <2>2. Recording(c) <=> Recording(cmd[p])
    BY <2>1, Here DEF Recording, Commands, Writers, Merging
  <2>3. \A f \in Files : Writing(cmd[p], f) => Writing(c, f)
    BY <2>1, Here DEF Writing, Commands, Writers, Merging
  <2>. HIDE DEF c
  <2>. QED  BY <2>1, <2>2, <2>3, LocksStay
<1>29. CASE RemoveYaml(p)
  BY <1>29, LeaveLocks DEF RemoveYaml, Return
<1>30. CASE AddRepository(p)
  BY <1>30, LeaveLocks DEF AddRepository, Return
<1>31. CASE FoundRegister(p)
  <2>1. CASE Fail(p)
    BY <2>1, LeaveLocks DEF Fail, Return
  <2>2. CASE ~Fail(p)
    <3>. DEFINE c == [cmd[p] EXCEPT !.at = "read"]
    <3>1. /\ cmd' = [cmd EXCEPT ![p] = c] /\ UNCHANGED <<ylock, mlock>>
          /\ cmd[p].op = "found" /\ cmd[p].at = "go"
      BY <1>31, <2>2 DEF FoundRegister, At, Onward, Goto
    <3>2. Recording(c) <=> Recording(cmd[p])
      BY <3>1, Here DEF Recording, Commands, Writers, Merging
    <3>3. \A f \in Files : Writing(cmd[p], f) => Writing(c, f)
      BY <3>1, Here DEF Writing, Commands, Writers, Merging
    <3>. HIDE DEF c
    <3>. QED  BY <3>1, <3>2, <3>3, LocksStay
  <2>. QED  BY <2>1, <2>2
<1>32. CASE FoundRead(p)
  <2>. DEFINE c == [cmd[p] EXCEPT !.at = "yaml", !.seen = yaml]
  <2>1. /\ cmd' = [cmd EXCEPT ![p] = c] /\ ylock = Nobody /\ ylock' = p
        /\ UNCHANGED mlock
        /\ cmd[p].op = "found" /\ cmd[p].at = "read"
    BY <1>32 DEF FoundRead, At, LockRecord, Goto
  <2>2. Recording(c)
    BY <2>1, Here DEF Recording, Commands, Writers, Merging
  <2>3. \A f \in Files : IF mlock'[f] = p THEN Writing(c, f)
             ELSE mlock'[f] \in {mlock[f], Nobody}
    BY <2>1, Here DEF LockInv, Writing, Commands, Writers, TypeInv, TypeOK, Merging
  <2>. HIDE DEF c
  <2>. QED  BY <2>1, <2>2, <2>3, LocksMove
<1>33. CASE LinkRead(p)
  <2>1. CASE Fail(p)
    BY <2>1, LeaveLocks DEF Fail, Return
  <2>2. CASE ~Fail(p)
    <3>. DEFINE c == [cmd[p] EXCEPT !.at = "yaml", !.seen = yaml]
    <3>1. /\ cmd' = [cmd EXCEPT ![p] = c] /\ UNCHANGED <<ylock, mlock>>
          /\ cmd[p].op \in {"link", "unlink"} /\ cmd[p].at = "go"
      BY <1>33, <2>2 DEF LinkRead, Goto
    <3>2. Recording(c) <=> Recording(cmd[p])
      BY <3>1, Here DEF Recording, Commands, Writers, Merging
    <3>3. \A f \in Files : Writing(cmd[p], f) => Writing(c, f)
      BY <3>1, Here DEF Writing, Commands, Writers, Merging
    <3>. HIDE DEF c
    <3>. QED  BY <3>1, <3>2, <3>3, LocksStay
  <2>. QED  BY <2>1, <2>2
<1>34. CASE LinkWrite(p)
  BY <1>34, LeaveLocks DEF LinkWrite, Return
<1>35. CASE DropLook(p)
  <2>1. CASE Fail(p)
    BY <2>1, LeaveLocks DEF Fail, Return
  <2>2. CASE ~Fail(p)
    <3>. DEFINE c == [cmd[p] EXCEPT !.at = "file"]
    <3>1. /\ cmd' = [cmd EXCEPT ![p] = c] /\ UNCHANGED <<ylock, mlock>>
          /\ cmd[p].op = "drop" /\ cmd[p].at = "go"
      BY <1>35, <2>2 DEF DropLook, At, Onward, Goto
    <3>2. Recording(c) <=> Recording(cmd[p])
      BY <3>1, Here DEF Recording, Commands, Writers, Merging
    <3>3. \A f \in Files : Writing(cmd[p], f) => Writing(c, f)
      BY <3>1, Here DEF Writing, Commands, Writers, Merging
    <3>. HIDE DEF c
    <3>. QED  BY <3>1, <3>2, <3>3, LocksStay
  <2>. QED  BY <2>1, <2>2
<1>36. CASE DropRemove(p)
  BY <1>36, LeaveLocks DEF DropRemove, Return
<1>37. CASE RelinkMove(p)
  <2>1. CASE Fail(p)
    BY <2>1, LeaveLocks DEF Fail, Return
  <2>2. CASE ~Fail(p)
    <3>. DEFINE c == [cmd[p] EXCEPT !.at = "file"]
    <3>1. /\ cmd' = [cmd EXCEPT ![p] = c] /\ UNCHANGED <<ylock, mlock>>
          /\ cmd[p].op = "relink" /\ cmd[p].at = "go"
      BY <1>37, <2>2 DEF RelinkMove, At, Onward, Goto
    <3>2. Recording(c) <=> Recording(cmd[p])
      BY <3>1, Here DEF Recording, Commands, Writers, Merging
    <3>3. \A f \in Files : Writing(cmd[p], f) => Writing(c, f)
      BY <3>1, Here DEF Writing, Commands, Writers, Merging
    <3>. HIDE DEF c
    <3>. QED  BY <3>1, <3>2, <3>3, LocksStay
  <2>. QED  BY <2>1, <2>2
<1>38. CASE RelinkFile(p)
  <2>. DEFINE c == [cmd[p] EXCEPT !.at = "read"]
  <2>1. /\ cmd' = [cmd EXCEPT ![p] = c] /\ UNCHANGED <<ylock, mlock>>
        /\ cmd[p].op = "relink" /\ cmd[p].at = "file"
    BY <1>38 DEF RelinkFile, At, Onward, Goto
  <2>2. Recording(c) <=> Recording(cmd[p])
    BY <2>1, Here DEF Recording, Commands, Writers, Merging
  <2>3. \A f \in Files : Writing(cmd[p], f) => Writing(c, f)
    BY <2>1, Here DEF Writing, Commands, Writers, Merging
  <2>. HIDE DEF c
  <2>. QED  BY <2>1, <2>2, <2>3, LocksStay
<1>39. CASE RelinkRead(p)
  <2>. DEFINE c == [cmd[p] EXCEPT !.at = IF Relinked(yaml, cmd[p].repo, cmd[p].new) = yaml THEN "sessions" ELSE "yaml", !.seen = Relinked(yaml, cmd[p].repo, cmd[p].new)]
  <2>1. /\ cmd' = [cmd EXCEPT ![p] = c] /\ UNCHANGED <<ylock, mlock>>
        /\ cmd[p].op = "relink" /\ cmd[p].at = "read"
    BY <1>39 DEF RelinkRead, At, Goto
  <2>2. Recording(c) <=> Recording(cmd[p])
    BY <2>1, Here DEF Recording, Commands, Writers, Merging
  <2>3. \A f \in Files : Writing(cmd[p], f) => Writing(c, f)
    BY <2>1, Here DEF Writing, Commands, Writers, Merging
  <2>. HIDE DEF c
  <2>. QED  BY <2>1, <2>2, <2>3, LocksStay
<1>40. CASE RelinkYaml(p)
  <2>. DEFINE c == [cmd[p] EXCEPT !.at = "sessions"]
  <2>1. /\ cmd' = [cmd EXCEPT ![p] = c] /\ UNCHANGED <<ylock, mlock>>
        /\ cmd[p].op = "relink" /\ cmd[p].at = "yaml"
    BY <1>40 DEF RelinkYaml, At, Onward, Goto
  <2>2. Recording(c) <=> Recording(cmd[p])
    BY <2>1, Here DEF Recording, Commands, Writers, Merging
  <2>3. \A f \in Files : Writing(cmd[p], f) => Writing(c, f)
    BY <2>1, Here DEF Writing, Commands, Writers, Merging
  <2>. HIDE DEF c
  <2>. QED  BY <2>1, <2>2, <2>3, LocksStay
<1>41. CASE RelinkSessions(p)
  BY <1>41, LeaveLocks DEF RelinkSessions, Return
<1>42. CASE Target(p)
  <2>1. CASE Fail(p)
    BY <2>1, LeaveLocks DEF Fail, Return
  <2>2. CASE ~Fail(p)
    <3>1. PICK f : /\ cmd' = [cmd EXCEPT ![p] = [cmd[p] EXCEPT !.at = "read", !.file = f]]
                   /\ UNCHANGED <<ylock, mlock>> /\ cmd[p].op \in Writers /\ cmd[p].at = "go"
      BY <1>42, <2>2 DEF Target, Goto
    <3>. DEFINE c == [cmd[p] EXCEPT !.at = "read", !.file = f]
    <3>2. Recording(c) <=> Recording(cmd[p])
      BY <3>1, Here DEF Recording, Commands, Writers, Merging
    <3>3. \A g \in Files : Writing(cmd[p], g) => Writing(c, g)
      BY <3>1, Here DEF Writing, Commands, Writers, Merging
    <3>. HIDE DEF c
    <3>. QED  BY <3>1, <3>2, <3>3, LocksStay DEF c
  <2>. QED  BY <2>1, <2>2
<1>43. CASE Read(p)
  <2>1. CASE Fail(p)
    BY <2>1, LeaveLocks DEF Fail, Return
  <2>2. CASE ~Fail(p)
    <3>. DEFINE c == [cmd[p] EXCEPT !.at = "write", !.text = IF doc[cmd[p].file] = NoDoc THEN Blank ELSE doc[cmd[p].file]]
    <3>1. /\ cmd' = [cmd EXCEPT ![p] = c] /\ ylock' = ylock
          /\ mlock' = [mlock EXCEPT ![cmd[p].file] = p]
          /\ cmd[p].op \in Writers /\ cmd[p].at = "read"
      BY <1>43, <2>2 DEF Read, LockDoc, Goto
    <3>2. Recording(c) <=> Recording(cmd[p])
      BY <3>1, Here DEF Recording, Commands, Writers, Merging
    <3>3. \A f \in Files : IF mlock'[f] = p THEN Writing(c, f)
               ELSE mlock'[f] \in {mlock[f], Nobody}
      BY <3>1, Here DEF LockInv, Writing, Commands, Writers, TypeInv, TypeOK, Merging
    <3>. HIDE DEF c
    <3>. QED  BY <3>1, <3>2, <3>3, LocksMove
  <2>. QED  BY <2>1, <2>2
<1>44. CASE GoalWrite(p)
  <2>1. CASE Fail(p)
    BY <2>1, LeaveLocks DEF Fail, Return
  <2>2. CASE ~Fail(p)
    <3>. DEFINE c == [cmd[p] EXCEPT !.at = "touch", !.file = Md(Main), !.text = Blank]
    <3>1. /\ cmd' = [cmd EXCEPT ![p] = c] /\ ylock' = ylock
          /\ mlock' = [mlock EXCEPT ![cmd[p].file] = Nobody]
          /\ cmd[p].op = "goal" /\ cmd[p].at = "write"
      BY <1>44, <2>2 DEF GoalWrite, At, Stamping, Goto
    <3>2. Recording(c) <=> Recording(cmd[p])
      BY <3>1, Here DEF Recording, Commands, Writers, Merging
    <3>3. \A f \in Files : IF mlock'[f] = p THEN Writing(c, f)
               ELSE mlock'[f] \in {mlock[f], Nobody}
      BY <3>1, Here, NobodyAssumption DEF LockInv, Writing, Commands, Writers, TypeInv,
         TypeOK, Merging
    <3>. HIDE DEF c
    <3>. QED  BY <3>1, <3>2, <3>3, LocksMove
  <2>. QED  BY <2>1, <2>2
<1>45. CASE DecisionWrite(p)
  <2>. DEFINE c == [cmd[p] EXCEPT !.at = "touch", !.file = Md(Main), !.text = Blank]
  <2>1. /\ cmd' = [cmd EXCEPT ![p] = c] /\ ylock' = ylock
        /\ mlock' = [mlock EXCEPT ![cmd[p].file] = Nobody]
        /\ cmd[p].op = "decision" /\ cmd[p].at = "write"
    BY <1>45 DEF DecisionWrite, At, Stamping, Goto
  <2>2. Recording(c) <=> Recording(cmd[p])
    BY <2>1, Here DEF Recording, Commands, Writers, Merging
  <2>3. \A f \in Files : IF mlock'[f] = p THEN Writing(c, f)
             ELSE mlock'[f] \in {mlock[f], Nobody}
    BY <2>1, Here, NobodyAssumption DEF LockInv, Writing, Commands, Writers, TypeInv, TypeOK, Merging
  <2>. HIDE DEF c
  <2>. QED  BY <2>1, <2>2, <2>3, LocksMove
<1>46. CASE ReportTruncate(p)
  <2>. DEFINE c == [cmd[p] EXCEPT !.at = "fill"]
  <2>1. /\ cmd' = [cmd EXCEPT ![p] = c] /\ UNCHANGED <<ylock, mlock>>
        /\ cmd[p].op = "report" /\ cmd[p].at = "write"
    BY <1>46 DEF ReportTruncate, At, Onward, Goto
  <2>2. Recording(c) <=> Recording(cmd[p])
    BY <2>1, Here DEF Recording, Commands, Writers, Merging
  <2>3. \A f \in Files : Writing(cmd[p], f) => Writing(c, f)
    BY <2>1, Here DEF Writing, Commands, Writers, Merging
  <2>. HIDE DEF c
  <2>. QED  BY <2>1, <2>2, <2>3, LocksStay
<1>47. CASE ReportFill(p)
  <2>. DEFINE c == [cmd[p] EXCEPT !.at = "touch", !.file = Md(Main), !.text = Blank]
  <2>1. /\ cmd' = [cmd EXCEPT ![p] = c] /\ ylock' = ylock
        /\ mlock' = [mlock EXCEPT ![cmd[p].file] = Nobody]
        /\ cmd[p].op = "report" /\ cmd[p].at = "fill"
    BY <1>47 DEF ReportFill, At, Stamping, Goto
  <2>2. Recording(c) <=> Recording(cmd[p])
    BY <2>1, Here DEF Recording, Commands, Writers, Merging
  <2>3. \A f \in Files : IF mlock'[f] = p THEN Writing(c, f)
             ELSE mlock'[f] \in {mlock[f], Nobody}
    BY <2>1, Here, NobodyAssumption DEF LockInv, Writing, Commands, Writers, TypeInv, TypeOK, Merging
  <2>. HIDE DEF c
  <2>. QED  BY <2>1, <2>2, <2>3, LocksMove
<1>48. CASE TouchRead(p)
  <2>1. CASE Fail(p)
    BY <2>1, LeaveLocks DEF Fail, Return
  <2>2. CASE ~Fail(p)
    <3>. DEFINE c == [cmd[p] EXCEPT !.at = "stamp", !.seen = yaml]
    <3>1. /\ cmd' = [cmd EXCEPT ![p] = c] /\ ylock = Nobody /\ ylock' = p
          /\ UNCHANGED mlock
          /\ cmd[p].op \in Writers /\ cmd[p].at = "touch"
      BY <1>48, <2>2 DEF TouchRead, LockRecord, Goto
    <3>2. Recording(c)
      BY <3>1, Here DEF Recording, Commands, Writers, Merging
    <3>3. \A f \in Files : IF mlock'[f] = p THEN Writing(c, f)
               ELSE mlock'[f] \in {mlock[f], Nobody}
      BY <3>1, Here DEF LockInv, Writing, Commands, Writers, TypeInv, TypeOK, Merging
    <3>. HIDE DEF c
    <3>. QED  BY <3>1, <3>2, <3>3, LocksMove
  <2>. QED  BY <2>1, <2>2
<1>49. CASE RiskRead(p)
  <2>1. CASE Fail(p)
    BY <2>1, LeaveLocks DEF Fail, Return
  <2>2. CASE ~Fail(p)
    <3>. DEFINE c == [cmd[p] EXCEPT !.at = "stamp", !.seen = yaml]
    <3>1. /\ cmd' = [cmd EXCEPT ![p] = c] /\ ylock = Nobody /\ ylock' = p
          /\ UNCHANGED mlock
          /\ cmd[p].op = "risk" /\ cmd[p].at = "go"
      BY <1>49, <2>2 DEF RiskRead, At, LockRecord, Goto
    <3>2. Recording(c)
      BY <3>1, Here DEF Recording, Commands, Writers, Merging
    <3>3. \A f \in Files : IF mlock'[f] = p THEN Writing(c, f)
               ELSE mlock'[f] \in {mlock[f], Nobody}
      BY <3>1, Here DEF LockInv, Writing, Commands, Writers, TypeInv, TypeOK, Merging
    <3>. HIDE DEF c
    <3>. QED  BY <3>1, <3>2, <3>3, LocksMove
  <2>. QED  BY <2>1, <2>2
<1>50. CASE Stamp(p)
  BY <1>50, LeaveLocks DEF Stamp, Return
<1>. QED
  BY <1>1, <1>2, <1>3, <1>4, <1>5, <1>6, <1>7, <1>8, <1>9, <1>10, <1>11, <1>12, <1>13,
     <1>14, <1>15, <1>16, <1>17, <1>18, <1>19, <1>20, <1>21, <1>22, <1>22a, <1>22b, <1>22c, <1>23, <1>24, <1>25,
     <1>26, <1>27, <1>28, <1>29, <1>30, <1>31, <1>32, <1>33, <1>34, <1>35, <1>36, <1>37,
     <1>38, <1>39, <1>40, <1>41, <1>42, <1>43, <1>44, <1>45, <1>46, <1>47, <1>48, <1>49,
     <1>50
  DEF Acts, Step, Create, Select, Merge, Move, Repository, Entry

(* The record's lock is held by the command that is writing it, a           *)
(* document's by one that is.                                               *)
LEMMA LocksHold == Spec => []LockInv
<1>1. TypeInv /\ Init => LockInv
  BY NobodyAssumption DEF Init, LockInv, Recording, Idle, Merging
<1>2. TypeInv /\ LockInv /\ [Next]_vars => LockInv'
  <2>. SUFFICES ASSUME TypeInv, LockInv, [Next]_vars PROVE LockInv'
    OBVIOUS
  <2>1. CASE UNCHANGED vars
    BY <2>1 DEF LockInv, Recording, Writing, vars, Merging
  <2>2. CASE Next
    <3>1. PICK p \in Procs : Acts(p)
      BY <2>2 DEF Next, Acts
    <3>. QED  BY <3>1, LocksKept
  <2>. QED  BY <2>1, <2>2
<1>. QED  BY <1>1, <1>2, TypesHold, PTL DEF Spec

(* A circle is a merge that waits for itself.  Whoever holds the record's   *)
(* lock waits for documents only, and only one command can; whoever holds a *)
(* document and waits is a merge, which has the record's lock.              *)
LEMMA CirclesAreSelves ==
    ASSUME TypeInv, LockInv, NEW C \in SUBSET Procs, Circle(C)
    PROVE  \E p \in C : /\ WaitsFor(p, p) /\ At(p, "merge", "lock")
                        /\ Merged(p).file = cmd[p].file
<1>1. \A r \in Procs : NeedsRecord(r) =>
         ~Recording(cmd[r]) /\ \A f \in Files : ~Writing(cmd[r], f)
  BY DEF NeedsRecord, Recording, Writing, At, Writers, Merging
<1>2. \A r \in Procs, f \in Files : NeedsDoc(r, f) =>
         \/ ~Recording(cmd[r]) /\ \A g \in Files : ~Writing(cmd[r], g)
         \/ /\ Recording(cmd[r]) /\ At(r, "merge", "lock")
            /\ mlock[f] = r => Merged(r).file = cmd[r].file
  BY DEF NeedsDoc, Recording, Writing, At, Writers, Merging
<1>3. \A r, s \in Procs : WaitsFor(r, s) =>
         \/ NeedsRecord(r) /\ Recording(cmd[s])
         \/ \E f \in Files : NeedsDoc(r, f) /\ mlock[f] = s /\ Writing(cmd[s], f)
  BY DEF WaitsFor, LockInv
<1>4. PICK p \in C : \E q \in C : WaitsFor(p, q)
  BY DEF Circle
<1>5. PICK q \in C : WaitsFor(p, q)
  BY <1>4
<1>6. PICK r \in C : WaitsFor(q, r)
  BY DEF Circle
<1>7. PICK s \in C : WaitsFor(r, s)
  BY DEF Circle
<1>8. p \in Procs /\ q \in Procs /\ r \in Procs /\ s \in Procs
  OBVIOUS
<1>9. Recording(cmd[q]) /\ ~NeedsRecord(q)
  BY <1>1, <1>2, <1>3, <1>5, <1>6, <1>8
<1>10. PICK f \in Files : NeedsDoc(q, f) /\ mlock[f] = r /\ Writing(cmd[r], f)
  BY <1>3, <1>6, <1>8, <1>9
<1>11. Recording(cmd[r])
  BY <1>1, <1>2, <1>3, <1>7, <1>8, <1>10
<1>12. q = r
  BY <1>8, <1>9, <1>11 DEF LockInv
<1>. QED  BY <1>2, <1>6, <1>8, <1>9, <1>10, <1>12
=============================================================================
