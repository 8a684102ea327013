----------------------------- MODULE DaemonLife -----------------------------
(* Who is the daemon: its pid file, the registry of every daemon process,   *)
(* and the lock that is meant to cover both, under the daemon's own start,  *)
(* loop and exit, under `owrap daemon start, stop, restart`, `owrap kill`   *)
(* and the watchdog tick every command begins with.  Some readers of the    *)
(* pid file do not take the lock, and reading it may unlink it:             *)
(* src/owrap/kind/run/daemon.py, src/owrap/cli.py.                          *)
EXTENDS Naturals, FiniteSets

CONSTANTS
    Daemons,    \* process ids of daemons; each is used once
    Users,      \* shells, in each of which one command after another runs
    Nobody,     \* no process
    Commands    \* what is run: "tick", "start", "stop", "restart", "kill"

Unread == "unread"

ASSUME ProcessesAssumption ==
    Daemons \intersect Users = {} /\ Nobody \notin Daemons \union Users
    /\ Unread \notin Daemons \union Users \union {Nobody}
ASSUME CommandsAssumption == Commands \subseteq {"tick", "start", "stop", "restart", "kill"}

VARIABLES
    pidFile,    \* DAEMON_PID_FILE: a pid, or no file (Nobody)
    registry,   \* DAEMON_REGISTRY_FILE
    lock,       \* the holder of DAEMON_LOCK_FILE
    at,         \* where each process is
    saw,        \* what it has read from the pid file, or the child it spawned
    run         \* each user's command: the registered daemons it has yet to
                \* see off, and (history) the daemons that served as it began

vars == <<pidFile, registry, lock, at, saw, run>>

-----------------------------------------------------------------------------
Procs == Daemons \union Users

(* is_alive: os.kill(pid, 0) succeeds on a zombie its parent has not reaped. *)
Alive(d) == at[d] \notin {"unborn", "dead"}
Runs(d) == Alive(d) /\ at[d] # "zombie"
Unborn == {d \in Daemons : at[d] = "unborn"}

(* A daemon at work, known to the registry.                                 *)
Serving == {"loop", "tick"}
Served == {d \in Daemons : at[d] \in Serving}

NoRun == [cmd |-> "none", prey |-> {}, old |-> {}]

Init ==
    /\ pidFile = Nobody
    /\ registry = {}
    /\ lock = Nobody
    /\ at = [p \in Procs |-> IF p \in Daemons THEN "unborn" ELSE "idle"]
    /\ saw = [p \in Procs |-> Unread]
    /\ run = [u \in Users |-> NoRun]

-----------------------------------------------------------------------------
(* A process goes on to `place`, having forgotten what it read.             *)
Moves(p, place) ==
    /\ at' = [at EXCEPT ![p] = place]
    /\ saw' = [saw EXCEPT ![p] = Unread]

(* SIGTERM from u, which goes on to `place`: it has no handler, so d ends   *)
(* without its `finally`, and the kernel releases its lock.                 *)
Terminates(u, d, place) ==
    at' = [at EXCEPT ![u] = place, ![d] = IF Runs(d) THEN "zombie" ELSE @]
Unlocked(p) == IF lock = p THEN Nobody ELSE lock

TakesLock(p, from, to) ==
    /\ at[p] = from /\ lock = Nobody
    /\ lock' = p
    /\ Moves(p, to)
    /\ UNCHANGED <<pidFile, registry, run>>

(* _read_pid, in two steps: the file is read, and it is unlinked if the pid *)
(* in it is dead by then, whatever the file holds now.                      *)
Reading == {"claim", "loop", "last", "stopping", "ensuring"}

Look(p) ==
    /\ at[p] \in Reading /\ saw[p] = Unread
    /\ saw' = [saw EXCEPT ![p] = pidFile]
    /\ UNCHANGED <<pidFile, registry, lock, at, run>>

Looked(p, place) == at[p] = place /\ saw[p] # Unread
IsStale(p) == saw[p] # Nobody /\ ~Alive(saw[p])
Found(p) == IF IsStale(p) THEN Nobody ELSE saw[p]
Cleaned(p) == IF IsStale(p) THEN Nobody ELSE pidFile

-----------------------------------------------------------------------------
(* Daemon.run.                                                              *)

Boot(d) == TakesLock(d, "boot", "claim")

(* Another live daemon has the file: leave at once.                         *)
Claim(d) ==
    /\ Looked(d, "claim")
    /\ IF Found(d) \in {Nobody, d}
       THEN Moves(d, "register") /\ pidFile' = d
       ELSE Moves(d, "zombie") /\ UNCHANGED pidFile
    /\ lock' = Nobody
    /\ UNCHANGED <<registry, run>>

(* _register_daemon drops the dead.                                         *)
(* Mutant: the registry keeps one slot, like the pid file.                  *)
RegisterAlone(d) ==
    /\ at[d] = "register" /\ lock = Nobody
    /\ registry' = {d}
    /\ Moves(d, "loop")
    /\ UNCHANGED <<pidFile, lock, run>>
Register(d) ==
    /\ at[d] = "register" /\ lock = Nobody
    /\ registry' = {e \in registry : Alive(e)} \union {d}
    /\ Moves(d, "loop")
    /\ UNCHANGED <<pidFile, lock, run>>

(* "Re-confirm ownership every tick", without the lock.                     *)
(* Mutant: a daemon that lost the file goes on.                             *)
ConfirmAnyway(d) ==
    /\ Looked(d, "loop")
    /\ pidFile' = Cleaned(d)
    /\ Moves(d, "tick")
    /\ UNCHANGED <<registry, lock, run>>
Confirm(d) ==
    /\ Looked(d, "loop")
    /\ pidFile' = Cleaned(d)
    /\ Moves(d, IF Found(d) = d THEN "tick" ELSE "leave")
    /\ UNCHANGED <<registry, lock, run>>

(* The workers and the pool's tick, then the pause.                         *)
Tick(d) ==
    /\ at[d] = "tick"
    /\ Moves(d, "loop")
    /\ UNCHANGED <<pidFile, registry, lock, run>>

(* The `finally`, also after SIGINT.                                        *)
Interrupt(d) ==
    /\ at[d] \in Serving
    /\ Moves(d, "leave")
    /\ UNCHANGED <<pidFile, registry, lock, run>>

Leave(d) ==
    /\ at[d] = "leave" /\ lock = Nobody
    /\ registry' = registry \ {d}
    /\ Moves(d, "last")
    /\ UNCHANGED <<pidFile, lock, run>>

LastRead(d) ==
    /\ Looked(d, "last")
    /\ pidFile' = Cleaned(d)
    /\ Moves(d, IF Found(d) = d THEN "unlink" ELSE "zombie")
    /\ UNCHANGED <<registry, lock, run>>

UnlinkOwn(d) ==
    /\ at[d] = "unlink"
    /\ pidFile' = Nobody
    /\ Moves(d, "zombie")
    /\ UNCHANGED <<registry, lock, run>>

Crash(d) ==
    /\ Runs(d)
    /\ Moves(d, "zombie")
    /\ lock' = Unlocked(d)
    /\ UNCHANGED <<pidFile, registry, run>>

(* Its parent, the command that spawned it or init, waits for it.           *)
Reaped(d) ==
    /\ at[d] = "zombie"
    /\ Moves(d, "dead")
    /\ UNCHANGED <<pidFile, registry, lock, run>>

-----------------------------------------------------------------------------
(* Commands.                                                                *)

Begins == [tick |-> "ensure", start |-> "others", stop |-> "stop",
           restart |-> "stop", kill |-> "kill"]
Busy == {u \in Users : at[u] # "idle"}
PidsLeft == Cardinality(Busy) < Cardinality(Unborn)

(* The bound: every command under way finds a pid to spawn.                 *)
Begin(u, c) ==
    /\ at[u] = "idle" /\ PidsLeft
    /\ Moves(u, Begins[c])
    /\ run' = [run EXCEPT ![u] = [cmd |-> c, prey |-> {}, old |-> Served]]
    /\ UNCHANGED <<pidFile, registry, lock>>

Ends(u) ==
    /\ Moves(u, "idle")
    /\ run' = [run EXCEPT ![u] = NoRun]

(* Ctrl-C, or the command dies, once it has done something.                 *)
Abort(u) ==
    /\ at[u] \in {"others", "hunt", "record", "slay", "wipe"}
    /\ Ends(u)
    /\ lock' = Unlocked(u)
    /\ UNCHANGED <<pidFile, registry>>

(* _stop_process, the lock held throughout: the daemon is dead when it ends. *)
StopLock(u) == TakesLock(u, "stop", "stopping")
StopProcess(u) ==
    /\ Looked(u, "stopping")
    /\ IF Found(u) = Nobody
       THEN Moves(u, "others")
       ELSE Terminates(u, saw[u], "others") /\ saw' = [saw EXCEPT ![u] = Unread]
    /\ pidFile' = IF saw[u] = Nobody THEN pidFile ELSE Nobody
    /\ lock' = Nobody
    /\ UNCHANGED <<registry, run>>

(* _kill_other_daemons: everything registered, the lock for the list alone. *)
(* Mutant: the owner of the pid file is spared.                             *)
ListOthersSparing(u) ==
    /\ at[u] = "others" /\ lock = Nobody
    /\ registry' = {d \in registry : Alive(d)}
    /\ run' = [run EXCEPT ![u].prey = registry' \ {pidFile}]
    /\ Moves(u, "hunt")
    /\ UNCHANGED <<pidFile, lock>>
ListOthers(u) ==
    /\ at[u] = "others" /\ lock = Nobody
    /\ registry' = {d \in registry : Alive(d)}
    /\ run' = [run EXCEPT ![u].prey = registry']
    /\ Moves(u, "hunt")
    /\ UNCHANGED <<pidFile, lock>>

Hunt(u) ==
    /\ at[u] = "hunt"
    /\ \E d \in run[u].prey :
          /\ Runs(d)
          /\ Terminates(u, d, "hunt")
          /\ lock' = Unlocked(d)
    /\ UNCHANGED <<pidFile, registry, saw, run>>

(* What is still a zombie after _wait_dead stays registered.                *)
Unregister(u) ==
    /\ at[u] = "hunt" /\ lock = Nobody
    /\ \A d \in run[u].prey : ~Runs(d)
    /\ \E d \in run[u].prey :
          /\ registry' = IF Alive(d) THEN registry ELSE registry \ {d}
          /\ run' = [run EXCEPT ![u].prey = @ \ {d}]
    /\ UNCHANGED <<pidFile, lock, at, saw>>

HuntOver(u) ==
    /\ at[u] = "hunt" /\ run[u].prey = {}
    /\ IF run[u].cmd = "stop" THEN Ends(u) ELSE Moves(u, "ensure") /\ UNCHANGED run
    /\ UNCHANGED <<pidFile, registry, lock>>

(* ensure_daemon, the lock held throughout.                                 *)
EnsureLock(u) == TakesLock(u, "ensure", "ensuring")
EnsureAlready(u) ==
    /\ Looked(u, "ensuring") /\ Found(u) # Nobody
    /\ lock' = Nobody
    /\ Ends(u)
    /\ UNCHANGED <<pidFile, registry>>
EnsureSpawn(u) ==
    /\ Looked(u, "ensuring") /\ Found(u) = Nobody
    /\ pidFile' = Cleaned(u)
    /\ \E d \in Unborn :
          /\ at' = [at EXCEPT ![u] = "record", ![d] = "boot"]
          /\ saw' = [saw EXCEPT ![u] = d]
    /\ UNCHANGED <<registry, lock, run>>
(* Mutant: the child is forgotten before its pid is written.                *)
EnsureRecordLate(u) ==
    /\ at[u] = "record"
    /\ Ends(u)
    /\ pidFile' = saw'[u]
    /\ lock' = Nobody
    /\ UNCHANGED registry
EnsureRecord(u) ==
    /\ at[u] = "record"
    /\ pidFile' = saw[u]
    /\ lock' = Nobody
    /\ Ends(u)
    /\ UNCHANGED registry

(* _kill_daemon_process: no lock, and the file goes whatever it holds then. *)
KillRead(u) ==
    /\ at[u] = "kill"
    /\ IF pidFile = Nobody
       THEN Ends(u)
       ELSE /\ at' = [at EXCEPT ![u] = "slay"]
            /\ saw' = [saw EXCEPT ![u] = pidFile]
            /\ UNCHANGED run
    /\ UNCHANGED <<pidFile, registry, lock>>
KillTerm(u) ==
    /\ at[u] = "slay"
    /\ Terminates(u, saw[u], "wipe")
    /\ saw' = [saw EXCEPT ![u] = Unread]
    /\ lock' = Unlocked(saw[u])
    /\ UNCHANGED <<pidFile, registry, run>>
KillUnlink(u) ==
    /\ at[u] = "wipe"
    /\ pidFile' = Nobody
    /\ Ends(u)
    /\ UNCHANGED <<registry, lock>>

-----------------------------------------------------------------------------
DaemonStep(d) ==
    \/ Boot(d) \/ Look(d) \/ Claim(d) \/ Register(d) \/ Confirm(d) \/ Tick(d)
    \/ Leave(d) \/ LastRead(d) \/ UnlinkOwn(d) \/ Reaped(d)
UserStep(u) ==
    \/ Look(u) \/ StopLock(u) \/ StopProcess(u)
    \/ ListOthers(u) \/ Hunt(u) \/ Unregister(u) \/ HuntOver(u)
    \/ EnsureLock(u) \/ EnsureAlready(u) \/ EnsureSpawn(u) \/ EnsureRecord(u)
    \/ KillRead(u) \/ KillTerm(u) \/ KillUnlink(u)

Next ==
    \/ \E d \in Daemons : DaemonStep(d) \/ Interrupt(d) \/ Crash(d)
    \/ \E u \in Users : UserStep(u) \/ Abort(u) \/ \E c \in Commands : Begin(u, c)

Spec == Init /\ [][Next]_vars

(* Processes run on and flock lets every waiter in, and owrap goes on being *)
(* used: commands that begin with the watchdog tick are run again and again. *)
FairSpec ==
    /\ Spec
    /\ \A d \in Daemons : SF_vars(DaemonStep(d))
    /\ \A u \in Users : SF_vars(UserStep(u))
    /\ SF_vars(\E u \in Users : Begin(u, "tick"))

-----------------------------------------------------------------------------
DaemonPlaces == {"unborn", "boot", "claim", "register", "loop", "tick", "leave",
                 "last", "unlink", "zombie", "dead"}
UserPlaces == {"idle", "stop", "stopping", "others", "hunt", "ensure", "ensuring",
               "record", "kill", "slay", "wipe"}

(* Every variable has its type.                                             *)
TypeOK ==
    /\ pidFile \in Daemons \union {Nobody}
    /\ registry \subseteq Daemons
    /\ lock \in Procs \union {Nobody}
    /\ at \in [Procs -> DaemonPlaces \union UserPlaces]
    /\ \A d \in Daemons : at[d] \in DaemonPlaces
    /\ \A u \in Users : at[u] \in UserPlaces
    /\ saw \in [Procs -> Daemons \union {Nobody, Unread}]
    /\ run \in [Users -> [cmd : {"none", "tick", "start", "stop", "restart", "kill"},
                          prey : SUBSET Daemons, old : SUBSET Daemons]]

(* The registry is "the source of truth for every daemon process"           *)
(* (daemon.py:69-71): no register, prune, unregister or kill of anybody     *)
(* drops a daemon that is at work.                                          *)
ServingAreRegistered == Served \subseteq registry

(* When `owrap daemon start`, stop or restart has seen off the registered   *)
(* daemons, none that served when the command began serves any more, though *)
(* the pid file may have named none or another of them.                     *)
OldOnesAreGone ==
    \A u \in Users :
       at[u] = "hunt" /\ run[u].prey = {} => run[u].old \intersect Served = {}

(* In the end one daemon serves and owns the pid file, as long as there are *)
(* pids to start one, and none serves without owning it ("a loser of the    *)
(* startup race exits", daemon.py:248), whatever starts, stops, kills and   *)
(* deaths came before.                                                      *)
SettlesOnOne ==
    <>[](/\ \A d \in Served : pidFile = d
         /\ PidsLeft => Served # {})
=============================================================================
