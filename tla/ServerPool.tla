----------------------------- MODULE ServerPool -----------------------------
(* The pool of `opencode serve` processes that every dispatch shares:       *)
(* src/owrap/utils/dispatch/pool.py, with the calls a dispatch and the      *)
(* daemon make into it.  The pool file is read and rewritten under one file *)
(* lock, so each function of pool.py is one atomic step; what a dispatch    *)
(* does between two of those calls (picking, writing its sentinel, running, *)
(* completing, releasing) interleaves with everybody else.                  *)
EXTENDS Integers, FiniteSets

CONSTANTS
    Dispatches,      \* slots for dispatch processes; a slot is reused by later ones
    Readers,         \* the dispatches started by `oread`: their sentinel has no URL
    Pids,            \* process ids a started server can get
    NoPid,           \* no process listens on the port
    MinServers,      \* config min_servers
    MaxServers,      \* config max_servers
    MaxRequests,     \* config max_requests (0: no quota)
    Threshold,       \* config unresponsive_kill_threshold
    RunnerEnabled,   \* config owrap_runner_enabled, read by the daemon's tick
    StartMayFail,    \* a started server may exit, or print no URL, within 15 s
    MayHang,         \* a server may stop accepting connections while alive
    HealthWrites     \* a watchdog may rewrite its sentinel's health in place

ASSUME ReadersAssumption == Readers \subseteq Dispatches
ASSUME NoPidAssumption == NoPid \notin Pids
ASSUME SizeAssumption ==
    /\ MinServers \in Nat /\ MaxServers \in Nat \ {0} /\ MinServers <= MaxServers
    /\ MaxRequests \in Nat /\ Threshold \in Nat \ {0}
ASSUME FlagAssumption ==
    {RunnerEnabled, StartMayFail, MayHang, HealthWrites} \subseteq BOOLEAN

VARIABLES
    pool,     \* runtime/pool.json
    proc,     \* the process listening on each port of the configured range
    hung,     \* ports whose process is alive but refuses connections
    pc,       \* where each dispatch is
    url,      \* the server a dispatch was given (NoPort: none yet)
    on,       \* the server process a running dispatch is attached to
    out,      \* how a dispatch's run ended
    torn      \* the dispatches whose watchdog has truncated their sentinel

vars == <<pool, proc, hung, pc, url, on, out, torn>>

-----------------------------------------------------------------------------
(* Ports are offsets from server_port_base; a URL names a port.             *)

Ports == 0 .. MaxServers - 1
NoPort == -1

(* Seconds since last_used, as far as the code tells them apart: within the *)
(* heal grace (5 s), past it, past idle_shutdown_s.                         *)
Recent == 0
PastGrace == 1
PastIdle == 2

Entries ==
    [port : Ports, pid : Pids, reserved : Nat, requests : Nat,
     draining : BOOLEAN, silent : Nat, age : {Recent, PastGrace, PastIdle}]

NewEntry(p, q) ==
    [port |-> p, pid |-> q, reserved |-> 0, requests |-> 0,
     draining |-> FALSE, silent |-> 0, age |-> Recent]

PortsOf(E) == {e.port : e \in E}

Alive(e) == proc[e.port] = e.pid
Responsive(p) == proc[p] # NoPid /\ p \notin hung
Live == {e \in pool : Alive(e) /\ Responsive(e.port)}

(* A sentinel in RUNNING_DIR counts towards a server's load when it can be  *)
(* read, names the URL and its process is alive; `oread` writes none with a *)
(* URL.  Only whether _active_load is zero is ever tested.                  *)
SentinelStages == {"running", "finish"}
Carries(d, p) ==
    pc[d] \in SentinelStages /\ d \notin Readers /\ d \notin torn /\ url[d] = p
Loaded(p) == \E d \in Dispatches : Carries(d, p)

(* A process id nobody remembers any more.                                  *)
FreshPids ==
    Pids \ ({proc[p] : p \in Ports} \union {e.pid : e \in pool}
              \union {on[d] : d \in Dispatches})

Without(ports) == [p \in Ports |-> IF p \in ports THEN NoPid ELSE proc[p]]

-----------------------------------------------------------------------------
Init ==
    /\ pool = {}
    /\ proc = [p \in Ports |-> NoPid]
    /\ hung = {}
    /\ pc = [d \in Dispatches |-> "idle"]
    /\ url = [d \in Dispatches |-> NoPort]
    /\ on = [d \in Dispatches |-> NoPid]
    /\ out = [d \in Dispatches |-> "none"]
    /\ torn = {}

-----------------------------------------------------------------------------
(* ensure_min_servers: keep the live entries and start servers on the first *)
(* free ports until min_servers are live, stopping at the first that fails. *)
(* A start kills what listens on its port; one that fails (no URL in time)  *)
(* terminates the shell only, so it may leave a server nobody tracks.       *)

FirstPorts(S, k) == {p \in S : Cardinality({r \in S : r < p}) < k}

EnsureMinServers ==
    LET missing == MinServers - Cardinality(Live)
        free == Ports \ PortsOf(Live)
    IN  \/ /\ missing <= 0
           /\ pool' = Live
           /\ UNCHANGED <<proc, hung>>
        \/ /\ missing > 0
           /\ \E k \in 0 .. missing :
                LET started == FirstPorts(free, k)
                    tried == started \union (IF k < missing THEN FirstPorts(free, k + 1) ELSE {})
                IN  /\ k < missing => StartMayFail
                    /\ \E f \in [tried -> FreshPids \union {NoPid}] :
                         /\ \A p \in started : f[p] # NoPid
                         /\ \A p, r \in tried : f[p] = f[r] /\ f[p] # NoPid => p = r
                         /\ proc' = [p \in Ports |-> IF p \in tried THEN f[p] ELSE proc[p]]
                         /\ pool' = Live \union {NewEntry(p, f[p]) : p \in started}
                         /\ hung' = hung \ tried

(* pick_server, first lock section.                                         *)
BeginPick(d) ==
    /\ pc[d] = "idle"
    /\ EnsureMinServers
    /\ pc' = [pc EXCEPT ![d] = "pick"]
    /\ UNCHANGED <<url, on, out, torn>>

-----------------------------------------------------------------------------
(* pick_server, second lock section.                                        *)

(* Quota-exhausted servers are marked draining; a draining server that      *)
(* carries no sentinel and no reservation is killed.                        *)
Mark(e) ==
    [e EXCEPT !.draining = @ \/ (MaxRequests > 0 /\ e.requests >= MaxRequests)]
Marked == {Mark(e) : e \in Live}
(* Mutant: reaps a draining server under a running dispatch.                *)
ExhaustedLoaded == {e \in Marked : e.draining /\ e.reserved = 0}
Exhausted ==
    {e \in Marked : e.draining /\ ~Loaded(e.port) /\ e.reserved = 0}
Kept == Marked \ Exhausted
(* Mutant: draining servers stay selectable.                                *)
SelectableAll == Kept
Selectable == {e \in Kept : ~e.draining}
ZeroLoad == {e \in Selectable : ~Loaded(e.port) /\ e.reserved = 0}

Refuse(d) ==
    /\ pc' = [pc EXCEPT ![d] = "refused"]
    /\ UNCHANGED <<pool, url>>

(* Start a server on the first port `taken` leaves free: the process that   *)
(* holds the port is killed first, the new entry is written next to `keep`  *)
(* and handed out without a reservation.  No free port, or no server: the   *)
(* pick raises and the file keeps its old contents.                         *)
StartFresh(d, taken, keep, killed) ==
    \/ /\ PortsOf(taken) = Ports
       /\ Refuse(d)
       /\ proc' = Without(killed)
       /\ hung' = hung \ killed
    \/ \E p \in Ports \ PortsOf(taken) :
         /\ \A r \in Ports \ PortsOf(taken) : p <= r
         /\ hung' = hung \ (killed \union {p})
         /\ \/ /\ StartMayFail
               /\ Refuse(d)
               /\ \E q \in FreshPids \union {NoPid} :
                    proc' = [Without(killed) EXCEPT ![p] = q]
            \/ \E q \in FreshPids :
                 /\ proc' = [Without(killed) EXCEPT ![p] = q]
                 /\ pool' = keep \union {NewEntry(p, q)}
                 /\ url' = [url EXCEPT ![d] = p]
                 /\ pc' = [pc EXCEPT ![d] = "picked"]

Picked(e) == [e EXCEPT !.age = Recent, !.reserved = @ + 1, !.requests = @ + 1]

Reserve(d, best) ==
    /\ pool' = (Kept \ {best}) \union {Picked(best)}
    /\ proc' = Without(PortsOf(Exhausted))
    /\ hung' = hung
    /\ url' = [url EXCEPT ![d] = best.port]
    /\ pc' = [pc EXCEPT ![d] = "picked"]

(* No usable server: kill what hangs, start over with one entry.            *)
PickFromNothing(d) ==
    /\ Kept = {}
    /\ StartFresh(d, Exhausted, {}, {e.port : e \in {f \in pool : Alive(f)}})

(* Mutant: looks for the free port among the selectable servers only.       *)
PickPastDrainingBlind(d) ==
    /\ Kept # {} /\ Selectable = {}
    /\ StartFresh(d, Selectable, Kept, PortsOf(Exhausted))

(* Only draining servers.                                                   *)
PickPastDraining(d) ==
    /\ Kept # {} /\ Selectable = {}
    /\ StartFresh(d, Kept, Kept, PortsOf(Exhausted))

(* An unloaded server, the most recently used first.                        *)
PickUnloaded(d) ==
    \E best \in ZeroLoad :
        /\ \A e \in ZeroLoad : best.age <= e.age
        /\ Reserve(d, best)

(* All loaded and room for one more.                                        *)
PickByGrowing(d) ==
    /\ Selectable # {} /\ ZeroLoad = {} /\ Cardinality(Kept) < MaxServers
    /\ StartFresh(d, Kept, Kept, PortsOf(Exhausted))

(* All loaded, no room: the one with the least estimated work left, which   *)
(* can be any of them.                                                      *)
PickLoaded(d) ==
    /\ Selectable # {} /\ ZeroLoad = {} /\ Cardinality(Kept) >= MaxServers
    /\ \E best \in Selectable : Reserve(d, best)

PickServer(d) ==
    /\ pc[d] = "pick"
    /\ \/ PickFromNothing(d)
       \/ PickPastDraining(d)
       \/ PickUnloaded(d)
       \/ PickByGrowing(d)
       \/ PickLoaded(d)
    /\ UNCHANGED <<on, out, torn>>

(* format_failure_pointer("NO_SERVER") and exit.                            *)
GiveUp(d) ==
    /\ pc[d] = "refused"
    /\ pc' = [pc EXCEPT ![d] = "idle"]
    /\ UNCHANGED <<pool, proc, hung, url, on, out, torn>>

-----------------------------------------------------------------------------
(* The life of a dispatch around its server.                                *)

(* The sentinel is written, then `opencode run --attach url` starts: it     *)
(* talks to whatever process listens on the port by then.                   *)
Run(d) ==
    /\ pc[d] = "picked"
    /\ pc' = [pc EXCEPT ![d] = "running"]
    /\ on' = [on EXCEPT ![d] = proc[url[d]]]
    /\ UNCHANGED <<pool, proc, hung, url, out, torn>>

(* write_sentinel_health, from the watchdog's thread: the sentinel is       *)
(* truncated, and unreadable until its text is written back.                *)
TruncateSentinel(d) ==
    /\ HealthWrites /\ pc[d] = "running" /\ d \notin Readers \union torn
    /\ torn' = torn \union {d}
    /\ UNCHANGED <<pool, proc, hung, pc, url, on, out>>

RewriteSentinel(d) ==
    /\ d \in torn
    /\ torn' = torn \ {d}
    /\ UNCHANGED <<pool, proc, hung, pc, url, on, out>>

(* record_unresponsive: one more silent dispatch; at the threshold the      *)
(* server is draining.  The count saturates: only >= threshold is read.     *)
OneMoreSilent(e) ==
    LET n == IF e.silent < Threshold THEN e.silent + 1 ELSE Threshold
    IN  [e EXCEPT !.silent = n, !.draining = @ \/ n >= Threshold]

(* How a run ends.  "output": rc 0 and something was printed.  "failed":    *)
(* crash, hard timeout, or a model banner and nothing more.  "silent": rc 0 *)
(* and nothing at all, reported by finish_dispatch.  "stopped": nothing at  *)
(* all by the no-output deadline, reported by the watchdog, which kills the *)
(* run and sets stall_killed.  "cut": killed by the watchdog after output,  *)
(* or for an infrastructure failure, of which nobody tells the pool.        *)
(* `oread` has no watchdog.                                                 *)
EndRun(d, how) ==
    /\ pc[d] = "running" /\ d \notin torn
    /\ how = "output" => on[d] # NoPid /\ proc[url[d]] = on[d]
    /\ how \in {"silent", "stopped", "cut"} => d \notin Readers
    /\ pool' = IF how \in {"silent", "stopped"}
               THEN {IF e.port = url[d] THEN OneMoreSilent(e) ELSE e : e \in pool}
               ELSE pool
    /\ out' = [out EXCEPT ![d] = how]
    /\ pc' = [pc EXCEPT ![d] = "finish"]
    /\ on' = [on EXCEPT ![d] = NoPid]
    /\ UNCHANGED <<proc, hung, url, torn>>

(* complete_sentinel moves the sentinel out of RUNNING_DIR.                 *)
CompleteSentinel(d) ==
    /\ pc[d] = "finish"
    /\ pc' = [pc EXCEPT ![d] = "touch"]
    /\ UNCHANGED <<pool, proc, hung, url, on, out, torn>>

Touched(e) == [e EXCEPT !.age = Recent]

(* update_last_used.                                                        *)
UpdateLastUsed(d) ==
    /\ pc[d] = "touch"
    /\ pool' = {IF e.port = url[d] THEN Touched(e) ELSE e : e \in pool}
    /\ pc' = [pc EXCEPT ![d] = IF d \in Readers \/ out[d] \in {"stopped", "cut"}
                               THEN "release" ELSE "respond"]
    /\ UNCHANGED <<proc, hung, url, on, out, torn>>

(* Mutant: an answer puts a draining server back into service.              *)
AnsweredInService(e) == [e EXCEPT !.silent = 0, !.draining = FALSE]
Answered(e) == [e EXCEPT !.silent = 0]

(* record_responsive, called unless stall_killed.                           *)
RecordResponsive(d) ==
    /\ pc[d] = "respond"
    /\ pool' = {IF e.port = url[d] THEN Answered(e) ELSE e : e \in pool}
    /\ pc' = [pc EXCEPT ![d] = "release"]
    /\ UNCHANGED <<proc, hung, url, on, out, torn>>

(* Mutant: no lower bound.                                                  *)
ReleasedBelowZero(e) == [e EXCEPT !.reserved = @ - 1]
Released(e) == [e EXCEPT !.reserved = IF @ > 0 THEN @ - 1 ELSE 0]

(* The dispatch is over; its slot can be used by another one.               *)
Leave(d) ==
    /\ pc' = [pc EXCEPT ![d] = "idle"]
    /\ url' = [url EXCEPT ![d] = NoPort]
    /\ on' = [on EXCEPT ![d] = NoPid]
    /\ out' = [out EXCEPT ![d] = "none"]
    /\ torn' = torn \ {d}

(* release_server.                                                          *)
ReleaseServer(d) ==
    /\ pc[d] = "release"
    /\ pool' = {IF e.port = url[d] THEN Released(e) ELSE e : e \in pool}
    /\ Leave(d)
    /\ UNCHANGED <<proc, hung>>

(* The process ends without releasing: a rejected --msg exits after the     *)
(* pick, and any dispatch can be killed.  Its sentinel no longer counts.    *)
Abandon(d) ==
    /\ pc[d] \in {"picked", "running", "finish", "touch", "respond", "release"}
    /\ Leave(d)
    /\ UNCHANGED <<pool, proc, hung>>

-----------------------------------------------------------------------------
(* The daemon's tick calls get_pool, shutdown_idle, ensure_min_servers; get_ *)
(* pool is called by `owrap stat`, ensure_min_servers by session starts too. *)

GetPool ==
    /\ pool # Live
    /\ pool' = Live
    /\ UNCHANGED <<proc, hung, pc, url, on, out, torn>>

(* shutdown_idle: first heal reservations nobody can still hold, then kill  *)
(* idle servers while more than the minimum are left.                       *)
IdleMin == IF RunnerEnabled THEN MinServers ELSE 0

(* Mutant: a draining server is left to pick_server.                        *)
HealSelectable(e) ==
    [e EXCEPT !.reserved = IF ~e.draining /\ ~Loaded(e.port) /\ e.age > Recent
                           THEN 0 ELSE @]
Heal(e) == [e EXCEPT !.reserved = IF ~Loaded(e.port) /\ e.age > Recent THEN 0 ELSE @]
Healed == {Heal(e) : e \in Live}

Idle(e) == e.reserved = 0 /\ e.age = PastIdle /\ ~Loaded(e.port)

(* How many of the idle servers go when `spare` are above the minimum.      *)
(* Mutant: the ones killed in this pass are not counted.                    *)
KillCountAll(idle, spare) == IF spare <= 0 THEN 0 ELSE idle
KillCount(idle, spare) ==
    IF spare <= 0 THEN 0 ELSE IF idle < spare THEN idle ELSE spare

(* The servers to kill are taken in the list's order, which is any order.   *)
(* `gone` died by themselves after this pass had found them live: the kill  *)
(* fails with an OSError, which drops the entry and counts no kill.         *)
ShutdownIdleOf(gone) ==
    LET idle == {e \in Healed : Idle(e)} \ gone
        spare == Cardinality(Healed) - IdleMin
    IN  /\ gone \subseteq {e \in Healed : Idle(e)}
        /\ spare <= 0 => gone = {}
        /\ \E K \in SUBSET idle :
             /\ Cardinality(K) = KillCount(Cardinality(idle), spare)
             /\ pool' = Healed \ (K \union gone)
             /\ proc' = Without(PortsOf(K \union gone))
        /\ UNCHANGED <<hung, pc, url, on, out, torn>>

ShutdownIdle == \E gone \in SUBSET Healed : ShutdownIdleOf(gone)

DaemonEnsureMin ==
    /\ RunnerEnabled
    /\ EnsureMinServers
    /\ UNCHANGED <<pc, url, on, out, torn>>

-----------------------------------------------------------------------------
(* The world: time passes for an entry; server processes die, hang, recover.*)

Older(e) == [e EXCEPT !.age = @ + 1]

Age(p) ==
    /\ \E e \in pool : e.port = p /\ e.age < PastIdle
    /\ pool' = {IF e.port = p /\ e.age < PastIdle THEN Older(e) ELSE e : e \in pool}
    /\ UNCHANGED <<proc, hung, pc, url, on, out, torn>>

ServerCrash(p) ==
    /\ proc[p] # NoPid
    /\ proc' = Without({p})
    /\ hung' = hung \ {p}
    /\ UNCHANGED <<pool, pc, url, on, out, torn>>

ServerHang(p) ==
    /\ MayHang /\ Responsive(p)
    /\ hung' = hung \union {p}
    /\ UNCHANGED <<pool, proc, pc, url, on, out, torn>>

ServerRecover(p) ==
    /\ p \in hung
    /\ hung' = hung \ {p}
    /\ UNCHANGED <<pool, proc, pc, url, on, out, torn>>

-----------------------------------------------------------------------------
RunEnds == {"output", "failed", "silent", "stopped", "cut"}

DispatchStep(d) ==
    \/ BeginPick(d) \/ PickServer(d) \/ GiveUp(d)
    \/ Run(d) \/ TruncateSentinel(d) \/ RewriteSentinel(d)
    \/ \E how \in RunEnds : EndRun(d, how)
    \/ CompleteSentinel(d) \/ UpdateLastUsed(d) \/ RecordResponsive(d)
    \/ ReleaseServer(d) \/ Abandon(d)

DaemonStep == GetPool \/ ShutdownIdle \/ DaemonEnsureMin

ServerStep == \E p \in Ports : ServerCrash(p) \/ ServerHang(p) \/ ServerRecover(p)

Next ==
    \/ \E d \in Dispatches : DispatchStep(d)
    \/ DaemonStep
    \/ \E p \in Ports : Age(p)
    \/ ServerStep

Spec == Init /\ [][Next]_vars

(* The daemon ticks for ever and the clock advances; no dispatch, crash or  *)
(* start is promised.                                                       *)
FairSpec ==
    /\ Spec
    /\ WF_vars(ShutdownIdle)
    /\ \A p \in Ports : WF_vars(Age(p))

-----------------------------------------------------------------------------
(* Every variable has its type: the pool file holds well-formed entries.    *)
TypeOK ==
    /\ pool \subseteq Entries
    /\ proc \in [Ports -> Pids \union {NoPid}]
    /\ hung \subseteq Ports
    /\ pc \in [Dispatches -> {"idle", "pick", "refused", "picked", "running",
                              "finish", "touch", "respond", "release"}]
    /\ url \in [Dispatches -> Ports \union {NoPort}]
    /\ on \in [Dispatches -> Pids \union {NoPid}]
    /\ out \in [Dispatches -> RunEnds \union {"none"}]
    /\ torn \subseteq Dispatches

(* The pool never holds two entries for one port, whatever starts, reaps    *)
(* and rewrites of the file interleave: a URL names one entry, so releasing *)
(* or marking it changes the right one, and starting a server never kills   *)
(* the process of another live entry.                                       *)
OneEntryPerPort == \A e, f \in pool : e.port = f.port => e = f

(* A live, draining server is out of service for good: no later step routes *)
(* a request to it or makes it selectable again, through any rewrite of the *)
(* pool file (pool.py:210, "stop routing new work").                        *)
DrainingIsFinal ==
    [][\A e \in pool, f \in pool' :
          e.port = f.port /\ e.pid = f.pid /\ e.draining
             => f.draining /\ f.requests = e.requests]_vars

InFlight(d) ==
    pc[d] = "running" /\ on[d] # NoPid /\ proc[url[d]] = on[d]
Tracked(d) == \E e \in pool : e.port = url[d] /\ e.pid = on[d]

(* No pool operation of anybody (a drain, an idle shutdown, a start that    *)
(* frees its port) kills the responsive, tracked server of a dispatch whose *)
(* sentinel names it and can be read at that moment (pool.py:210, "finish   *)
(* in-flight requests").  While its watchdog rewrites it, it protects nobody *)
(* (see README).                                                            *)
SentinelProtects ==
    [][\A d \in Dispatches \ (Readers \union torn) :
          InFlight(d) /\ Tracked(d) /\ url[d] \notin hung /\ proc'[url[d]] # on[d]
             => \E p \in Ports : ServerCrash(p)]_vars

(* What shutdown_idle kills never takes the pool below the minimum: each    *)
(* kill of the pass counts against the next one (pool.py:409, "keeping at   *)
(* least min_n alive").  The servers missing from the minimum after a pass, *)
(* if any, are among those that died by themselves while it ran, or were    *)
(* missing before: the code counts the former as left, so it is `gone` that *)
(* the sum has to add.                                                      *)
IdleKeepsMinimum ==
    [][\A gone \in SUBSET Healed :
          ShutdownIdleOf(gone)
             => \/ Cardinality(pool') + Cardinality(gone) >= IdleMin
                \/ Cardinality(pool') = Cardinality(Live)]_vars

(* An unused server's leaked reservation (an early exit, a crash) does not  *)
(* keep it busy for ever: it is healed, dropped or picked again.            *)
Leaked(p) ==
    /\ \E e \in pool : e.port = p /\ e.reserved > 0
    /\ \A d \in Dispatches : url[d] # p
LeaksAreHealed == \A p \in Ports : Leaked(p) ~> ~Leaked(p)
=============================================================================
