---------------------------- MODULE SessionFiles ----------------------------
(* The directories, files and window anchors of sessions, under the        *)
(* commands that start, refresh, attach, detach, stop, restore and clean    *)
(* them, any number of which run at a time: src/owrap/utils/session,        *)
(* session/start.py, stop.py, attach.py, and the housekeeping of            *)
(* dispatch/manager.py and kind/run/daemon.py.  No lock guards a session    *)
(* file or an anchor, so reading a file and writing it back are two steps.  *)
EXTENDS Naturals, FiniteSets

CONSTANTS
    Sessions,      \* session ids
    Windows,       \* the windows that run commands, and where the daemon acts
    KindOf,        \* the harness of each window
    Repos,         \* the repositories linked to the project
    Entries,       \* entries of context files
    Root,          \* a session that targets the project
    Begun,         \* its child sessions in the initial states
    Branches,      \* those of them that are branch sessions
    MaxCommands,   \* commands begun, all in all
    MaxActs,       \* what the user does besides: work in checkouts, kill a command
    Nobody

Harnesses == {"claude", "opencode", "codex"}

ASSUME WindowsAssumption ==
    /\ KindOf \in [Windows -> Harnesses \union {"shell"}]
    /\ Nobody \notin Sessions \union Windows \union Entries
ASSUME BegunAssumption ==
    /\ Root \in Sessions
    /\ Begun \subseteq Sessions \ {Root}
    /\ Branches \subseteq Begun
ASSUME BudgetAssumption == MaxCommands \in Nat /\ MaxActs \in Nat

VARIABLES
    live,      \* each session's directory
    trash,     \* each session's directory in the trash
    ptr,       \* the session each window is anchored to
    known,     \* history: the ids that were ever minted
    ctxlock,   \* the holder of each session's context.lock
    cmd,       \* the command each window runs
    left       \* commands and acts of the user that are left

folders == <<live, trash>>
sessionVars == <<live, trash, ptr, known, ctxlock, cmd, left>>

-----------------------------------------------------------------------------
(* .session: the window recorded for each harness, whether it has a target, *)
(* its parent, and what branch sessions note; "there" is whether it exists. *)
Files == [there : BOOLEAN, win : [Harnesses -> Windows \union {Nobody}],
          target : BOOLEAN, parent : Sessions \union {Nobody}, branch : BOOLEAN,
          merged : SUBSET Repos, into : Sessions \union {Nobody},
          cleaned : SUBSET Repos]
Missing == [there |-> FALSE, win |-> [h \in Harnesses |-> Nobody],
            target |-> FALSE, parent |-> Nobody, branch |-> FALSE,
            merged |-> {}, into |-> Nobody, cleaned |-> {}]
Created(a) == [Missing EXCEPT !.there = TRUE,
                              !.win = [h \in Harnesses |-> IF KindOf[a] = h THEN a ELSE Nobody]]

(* A session's directory: its file, its context.md, and the entries of a    *)
(* context.md that ended up in a directory inside it.                       *)
NoContext == {Nobody}
Texts == (SUBSET Entries) \union {NoContext}
Folders == [file : Files, ctx : Texts, deep : Texts]
NoFolder == [file |-> Missing, ctx |-> NoContext, deep |-> NoContext]

Text(t) == IF t = NoContext THEN {} ELSE t
Inside(f) == Text(f.ctx) \union Text(f.deep)
Exists(s) == s # Nobody /\ live[s].file.there
Named(s) == Exists(s)    \* some name a user types finds it, its own id at least
HasTarget(s) == s # Nobody /\ live[s].file.target

(* A command: where it is, the session it works on, the session file it has *)
(* read, the entries it brings and those it read, the sessions and the      *)
(* repositories it still has to visit, the repository it is at, and where   *)
(* it goes after its write.                                                 *)
Places == {"idle", "identify", "write", "context", "resync", "scan", "sweep", "bare",
           "stamp", "remove", "restart", "force", "record", "lock", "parent", "child",
           "grow", "found", "skeleton", "anchor", "merge", "tree", "ref", "undo"}
Operations == {"none", "start", "refresh", "attach", "detach", "stop", "restart", "force",
               "record", "collapse", "create", "merge", "cleanup"}
Commands == [at : Places, op : Operations, sid : Sessions \union {Nobody}, copy : Files,
             new : SUBSET Entries, text : SUBSET Entries, ids : SUBSET Sessions,
             repos : SUBSET Repos, now : SUBSET Repos, then : Places]
Idle == [at |-> "idle", op |-> "none", sid |-> Nobody, copy |-> Missing, new |-> {},
         text |-> {}, ids |-> {}, repos |-> {}, now |-> {}, then |-> "idle"]

Goto(a, place) == cmd' = [cmd EXCEPT ![a].at = place]
Leave(a) == cmd' = [cmd EXCEPT ![a] = Idle]
GotoOrLeave(a, place) == IF place = "idle" THEN Leave(a) ELSE Goto(a, place)
WriteBack(a, f, place) ==
    cmd' = [cmd EXCEPT ![a].copy = f, ![a].at = "write", ![a].then = place]
Spend == left.commands > 0 /\ left' = [left EXCEPT !.commands = @ - 1]
Call(a, op, place, s) ==
    /\ cmd[a].at = "idle"
    /\ Spend
    /\ cmd' = [cmd EXCEPT ![a] = [Idle EXCEPT !.at = place, !.op = op, !.sid = s]]
CallWriting(a, op, s, f) ==
    /\ cmd[a].at = "idle"
    /\ Spend
    /\ cmd' = [cmd EXCEPT ![a] = [Idle EXCEPT !.at = "write", !.op = op, !.sid = s, !.copy = f]]

-----------------------------------------------------------------------------
(* The session of a command: SESSION_ID, or else the window's anchor.       *)
Resolved(a, env) ==
    IF Exists(env) THEN env
    ELSE IF Exists(ptr[a]) THEN ptr[a]
    ELSE Nobody

(* What resolve does to the anchor: it follows SESSION_ID, except for an    *)
(* OpenCode window, and a stale one is unlinked.                            *)
Rebound(a, env) ==
    IF Exists(env)
    THEN IF KindOf[a] \in {"claude", "codex"} THEN [ptr EXCEPT ![a] = env] ELSE ptr
    ELSE IF Exists(ptr[a]) THEN ptr ELSE [ptr EXCEPT ![a] = Nobody]

Anchored(p, a, s) == IF KindOf[a] = "shell" THEN p ELSE [p EXCEPT ![a] = s]
Cleared(p, s, kinds) ==
    [w \in Windows |-> IF p[w] = s /\ KindOf[w] \in kinds THEN Nobody ELSE p[w]]

(* move_to_trash: into the trash's folder when there is one from before; a  *)
(* third directory has no place there and the move fails.                   *)
CanMove(s) == trash[s].deep = NoContext \/ trash[s] = NoFolder
TrashReplaced(s) == live[s]
Trashed(s) ==
    IF trash[s] = NoFolder THEN live[s]
    ELSE [trash[s] EXCEPT !.deep = IF live[s] = NoFolder THEN @ ELSE Inside(live[s])]
Restored(s) ==
    [file |-> IF trash[s].file.there THEN trash[s].file ELSE live[s].file,
     ctx |-> IF trash[s].ctx # NoContext THEN trash[s].ctx ELSE live[s].ctx,
     deep |-> IF trash[s].deep = NoContext /\ live[s].deep = NoContext THEN NoContext
              ELSE Text(trash[s].deep) \union Text(live[s].deep)]

-----------------------------------------------------------------------------
(* owrap session start, and the second half of restart: the resolved        *)
(* session; or one minted, when there is none or it has another project.    *)
Start(a, env, named) ==
    LET s == Resolved(a, env)
        on(n) == cmd' = [cmd EXCEPT ![a] = [Idle EXCEPT !.op = "start", !.sid = n,
                                                !.at = IF named THEN "identify" ELSE "context"]]
    IN  /\ \/ cmd[a].at = "idle" /\ Spend
           \/ cmd[a].at = "restart" /\ UNCHANGED left
        /\ \/ /\ s # Nobody
              /\ ptr' = Rebound(a, env)
              /\ on(s)
              /\ UNCHANGED <<live, known>>
           \/ \E n \in Sessions \ known :
              /\ s = Nobody \/ (named /\ HasTarget(s))
              /\ ptr' = Anchored(IF s = Nobody THEN ptr
                                 ELSE Cleared(Rebound(a, env), s, Harnesses), a, n)
              /\ live' = [live EXCEPT ![n].file = Created(a)]
              /\ known' = known \union {n}
              /\ on(n)
        /\ UNCHANGED <<trash, ctxlock>>

(* owrap session refresh.                                                   *)
Refresh(a, env, named) ==
    LET s == Resolved(a, env)
    IN  /\ s # Nobody
        /\ Call(a, "refresh", IF named THEN "identify" ELSE "context", s)
        /\ ptr' = Rebound(a, env)
        /\ UNCHANGED <<live, trash, known, ctxlock>>

(* set_session_identity: reads the file, and gives up when it is gone.      *)
Identify(a) ==
    /\ cmd[a].at = "identify"
    /\ IF Exists(cmd[a].sid)
       THEN WriteBack(a, [live[cmd[a].sid].file EXCEPT !.target = TRUE], "context")
       ELSE Leave(a)
    /\ UNCHANGED <<live, trash, ptr, known, ctxlock, left>>

(* _write: whatever the command holds, in a directory made if need be.      *)
Write(a) ==
    /\ cmd[a].at = "write"
    /\ live' = [live EXCEPT ![cmd[a].sid].file = cmd[a].copy]
    /\ GotoOrLeave(a, cmd[a].then)
    /\ UNCHANGED <<trash, ptr, known, ctxlock, left>>

(* create_context: a new context.md, or the present one read and then       *)
(* written with a new header, under no lock.                                *)
Context(a) ==
    LET s == cmd[a].sid
    IN  /\ cmd[a].at = "context"
        /\ IF live[s].ctx = NoContext
           THEN live' = [live EXCEPT ![s].ctx = {}] /\ Goto(a, "scan")
           ELSE /\ cmd' = [cmd EXCEPT ![a].text = live[s].ctx, ![a].at = "resync"]
                /\ UNCHANGED live
        /\ UNCHANGED <<trash, ptr, known, ctxlock, left>>

Resync(a) ==
    LET s == cmd[a].sid
    IN  /\ cmd[a].at = "resync"
        /\ IF live[s] = NoFolder
           THEN Leave(a) /\ UNCHANGED live
           ELSE /\ live' = [live EXCEPT ![s].ctx = cmd[a].text]
                /\ cmd' = [cmd EXCEPT ![a].text = {}, ![a].at = "scan"]
        /\ UNCHANGED <<trash, ptr, known, ctxlock, left>>

-----------------------------------------------------------------------------
(* _housekeeping: the ids of the session files; the directories of no such  *)
(* id are removed; old sessions without a target go to the trash; the old   *)
(* ones of the trash are deleted.  Any such session may be an old one.      *)
Scan(a) ==
    /\ cmd[a].at = "scan"
    /\ cmd' = [cmd EXCEPT ![a].ids = {s \in Sessions : live[s].file.there}, ![a].at = "sweep"]
    /\ UNCHANGED <<live, trash, ptr, known, ctxlock, left>>

Sweep(a) ==
    /\ cmd[a].at = "sweep"
    /\ live' = [s \in Sessions |->
                  IF cmd[a].ids = {} \/ s \in cmd[a].ids THEN live[s] ELSE NoFolder]
    /\ cmd' = [cmd EXCEPT ![a].ids = {}, ![a].at = "bare"]
    /\ UNCHANGED <<trash, ptr, known, ctxlock, left>>

SweepBare(a, old, gone) ==
    /\ cmd[a].at = "bare"
    /\ \A s \in old : live[s].file.there /\ ~live[s].file.target
    /\ \A s \in gone : trash[s] # NoFolder /\ s \notin old
    /\ ptr' = [w \in Windows |-> IF ptr[w] \in old /\ KindOf[w] # "codex" THEN Nobody ELSE ptr[w]]
    /\ live' = [s \in Sessions |-> IF s \in old /\ CanMove(s) THEN NoFolder ELSE live[s]]
    /\ trash' = [s \in Sessions |-> IF s \in gone THEN NoFolder
                                    ELSE IF s \in old /\ CanMove(s) THEN Trashed(s)
                                    ELSE trash[s]]
    /\ GotoOrLeave(a, IF cmd[a].op = "refresh" THEN "stamp" ELSE "idle")
    /\ UNCHANGED <<known, ctxlock, left>>

(* update_session_field: nothing when the file is gone.                     *)
Stamp(a) ==
    /\ cmd[a].at = "stamp"
    /\ IF Exists(cmd[a].sid) THEN WriteBack(a, live[cmd[a].sid].file, "idle") ELSE Leave(a)
    /\ UNCHANGED <<live, trash, ptr, known, ctxlock, left>>

-----------------------------------------------------------------------------
(* attach: the file is read first; then the window leaves the session it    *)
(* was in and takes its anchor, those of other harnesses are removed; the   *)
(* file is written last.                                                    *)
AttachedForHarness(a, s) ==
    [live[s].file EXCEPT !.win = [h \in Harnesses |-> KindOf[a]]]
AttachedFile(a, s) ==
    [live[s].file EXCEPT !.win = [h \in Harnesses |-> IF KindOf[a] = h THEN a ELSE Nobody]]
AttachedAlone(a, s) == Anchored(Cleared(ptr, s, Harnesses), a, s)
AttachedPtr(a, s) == Anchored(Cleared(ptr, s, Harnesses \ {KindOf[a]}), a, s)
Released(a, s) ==
    IF KindOf[a] # "shell" /\ ptr[a] # s /\ Exists(ptr[a])
    THEN [live EXCEPT ![ptr[a]].file.win[KindOf[a]] = Nobody]
    ELSE live

Attach(a, s) ==
    /\ Named(s)
    /\ CallWriting(a, "attach", s, AttachedFile(a, s))
    /\ ptr' = AttachedPtr(a, s)
    /\ live' = Released(a, s)
    /\ UNCHANGED <<trash, known, ctxlock>>

(* detach, by the window w itself or by the daemon, for a window gone       *)
(* stale: the anchor goes, then the file forgets the window, for another    *)
(* Claude window that is still there.                                       *)
Forgotten(w, s) ==
    LET f == live[s].file
        rest == {v \in Windows \ {w} : ptr[v] = s /\ KindOf[v] = "claude"}
    IN  IF KindOf[w] = "shell" THEN {f}
        ELSE IF f.win[KindOf[w]] # w THEN {f}
        ELSE IF KindOf[w] = "claude" /\ rest # {}
             THEN {[f EXCEPT !.win["claude"] = v] : v \in rest}
             ELSE {[f EXCEPT !.win[KindOf[w]] = Nobody]}

Unanchor(a, w) ==
    LET s == ptr[w]
    IN  /\ s # Nobody
        /\ ptr' = [ptr EXCEPT ![w] = Nobody]
        /\ \/ ~Exists(s) /\ cmd[a].at = "idle" /\ Spend /\ UNCHANGED cmd
           \/ Exists(s) /\ \E f \in Forgotten(w, s) : CallWriting(a, "detach", s, f)
        /\ UNCHANGED <<live, trash, known, ctxlock>>
Detach(a) == Unanchor(a, a)
DetachStale(a, w) == KindOf[w] \in {"claude", "codex"} /\ Unanchor(a, w)

-----------------------------------------------------------------------------
(* stop and restart, of the session resolved or of one named: everything    *)
(* goes to the trash, and then the file, should there be one, and the       *)
(* anchors are removed.                                                     *)
Stop(a, op, env, s) ==
    /\ s # Nobody
    /\ s = Resolved(a, env) \/ Exists(s)
    /\ Call(a, op, "remove", s)
    /\ CanMove(s)
    /\ ptr' = IF s = Resolved(a, env) THEN Rebound(a, env) ELSE ptr
    /\ trash' = [trash EXCEPT ![s] = Trashed(s)]
    /\ live' = [live EXCEPT ![s] = NoFolder]
    /\ UNCHANGED <<known, ctxlock>>

Remove(a) ==
    LET s == cmd[a].sid
    IN  /\ cmd[a].at = "remove"
        /\ live' = [live EXCEPT ![s].file = Missing]
        /\ ptr' = Cleared(ptr, s, Harnesses)
        /\ GotoOrLeave(a, IF cmd[a].op = "restart" THEN "restart" ELSE "idle")
        /\ UNCHANGED <<trash, known, ctxlock, left>>

(* stop force: the sessions there are, one by one, and then the anchors of  *)
(* every Claude window.                                                     *)
ForceStop(a) ==
    /\ cmd[a].at = "idle"
    /\ Spend
    /\ cmd' = [cmd EXCEPT ![a] = [Idle EXCEPT !.at = "force", !.op = "force",
                                              !.ids = {s \in Sessions : live[s].file.there}]]
    /\ UNCHANGED <<live, trash, ptr, known, ctxlock>>

ForceOne(a, s) ==
    /\ cmd[a].at = "force"
    /\ s \in cmd[a].ids
    /\ IF CanMove(s)
       THEN /\ trash' = [trash EXCEPT ![s] = Trashed(s)]
            /\ live' = [live EXCEPT ![s] = NoFolder]
            /\ ptr' = Cleared(ptr, s, Harnesses)
            /\ cmd' = [cmd EXCEPT ![a].ids = @ \ {s}]
       ELSE Leave(a) /\ UNCHANGED <<live, trash, ptr>>
    /\ UNCHANGED <<known, ctxlock, left>>

ForceLast(a) ==
    /\ cmd[a].at = "force"
    /\ cmd[a].ids = {}
    /\ ptr' = [w \in Windows |-> IF KindOf[w] = "claude" THEN Nobody ELSE ptr[w]]
    /\ Leave(a)
    /\ UNCHANGED <<live, trash, known, ctxlock, left>>

(* restore: what the trash has replaces what is in the session's directory. *)
Restore(a, s) ==
    /\ trash[s] # NoFolder
    /\ cmd[a].at = "idle"
    /\ Spend
    /\ live' = [live EXCEPT ![s] = Restored(s)]
    /\ trash' = [trash EXCEPT ![s] = NoFolder]
    /\ UNCHANGED <<ptr, known, ctxlock, cmd>>

(* owrap daemon clean: unlinks session files that are old, or that match;   *)
(* the rest of their directories is left to the next housekeeping.          *)
Clean(a, old) ==
    /\ cmd[a].at = "idle"
    /\ Spend
    /\ old # {}
    /\ \A s \in old : Exists(s)
    /\ live' = [s \in Sessions |-> IF s \in old THEN [live[s] EXCEPT !.file = Missing] ELSE live[s]]
    /\ UNCHANGED <<trash, ptr, known, ctxlock, cmd>>

-----------------------------------------------------------------------------
(* merge_context: an entry added to a context.md, under context.lock.       *)
Record(a, s, e) ==
    /\ Exists(s)
    /\ ctxlock[s] = Nobody
    /\ cmd[a].at = "idle"
    /\ Spend
    /\ ctxlock' = [ctxlock EXCEPT ![s] = a]
    /\ cmd' = [cmd EXCEPT ![a] = [Idle EXCEPT !.at = "record", !.op = "record", !.sid = s,
                                              !.new = {e}, !.text = Text(live[s].ctx)]]
    /\ UNCHANGED <<live, trash, ptr, known>>

RecordWrite(a) ==
    LET s == cmd[a].sid
    IN  /\ cmd[a].at = "record"
        /\ live' = IF live[s] = NoFolder THEN live
                   ELSE [live EXCEPT ![s].ctx = cmd[a].text \union cmd[a].new]
        /\ ctxlock' = [ctxlock EXCEPT ![s] = Nobody]
        /\ Leave(a)
        /\ UNCHANGED <<trash, ptr, known, left>>

-----------------------------------------------------------------------------
(* In the initial states the Claude windows are attached to Root, which has *)
(* an entry; its children, if any, have been created and hold one each.     *)
(* Root may have been stopped once before and come back by a late write.    *)
Child(s, done) == [Missing EXCEPT !.merged = IF s \in done THEN Repos ELSE {},
                             !.there = TRUE, !.target = TRUE, !.parent = Root,
                            !.branch = s \in Branches]
SessionInit(done) ==
    /\ \E e \in Entries, kept \in [Begun -> Entries], last \in Windows, again \in BOOLEAN :
         LET file == [Created(last) EXCEPT !.target = TRUE]
             stopped == [NoFolder EXCEPT !.file = file, !.ctx = {e}]
         IN  /\ \A w \in Windows : KindOf[w] = "claude" => KindOf[last] = "claude"
             /\ again => done = {}
             /\ live = [s \in Sessions |->
                   IF s = Root THEN IF again THEN [NoFolder EXCEPT !.file = file] ELSE stopped
                   ELSE IF s \in Begun
                   THEN [NoFolder EXCEPT !.ctx = {kept[s]}, !.file = Child(s, done)]
                   ELSE NoFolder]
             /\ trash = [s \in Sessions |-> IF again /\ s = Root THEN stopped ELSE NoFolder]
    /\ ptr = [w \in Windows |-> IF KindOf[w] = "claude" THEN Root ELSE Nobody]
    /\ known = {Root} \union Begun
    /\ ctxlock = [s \in Sessions |-> Nobody]
    /\ cmd = [a \in Windows |-> Idle]
    /\ left = [commands |-> MaxCommands, acts |-> MaxActs]

CanCall(a) == cmd[a].at = "idle" /\ left.commands > 0
SessionStep(a) ==
    \/ /\ CanCall(a) \/ cmd[a].at = "restart"
       /\ \E env \in Sessions \union {Nobody}, named \in BOOLEAN : Start(a, env, named)
    \/ /\ CanCall(a)
       /\ \/ \E env \in Sessions \union {Nobody} :
                \/ \E named \in BOOLEAN : Refresh(a, env, named)
                \/ \E s \in Sessions, op \in {"stop", "restart"} : Stop(a, op, env, s)
          \/ \E s \in Sessions : \/ Attach(a, s) \/ Restore(a, s)
                                \/ \E e \in Entries : Record(a, s, e)
          \/ Detach(a) \/ (\E w \in Windows : DetachStale(a, w))
          \/ ForceStop(a)
          \/ \E old \in SUBSET Sessions : Clean(a, old)
    \/ Identify(a) \/ Write(a) \/ Context(a) \/ Resync(a)
    \/ Scan(a) \/ Sweep(a) \/ Stamp(a)
    \/ cmd[a].at = "bare" /\ \E old, gone \in SUBSET Sessions : SweepBare(a, old, gone)
    \/ Remove(a) \/ (\E s \in Sessions : ForceOne(a, s)) \/ ForceLast(a)
    \/ RecordWrite(a)
=============================================================================
