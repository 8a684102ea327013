-------------------------- MODULE ServerPool_proofs --------------------------
(* What the pool keeps for every number of dispatches, servers and quotas.  *)
EXTENDS ServerPool, FiniteSetTheorems, TLAPS

(* A dispatch past its pick was given a server.                             *)
UrlGiven ==
    \A d \in Dispatches :
       pc[d] \notin {"idle", "pick", "refused"} => url[d] \in Ports

(* The typing of the pool file together with one entry per port: inductive, *)
(* because a new entry is always written on a port no kept entry names.     *)
PoolInv == TypeOK /\ OneEntryPerPort /\ UrlGiven

-----------------------------------------------------------------------------
(* The building blocks of the steps.                                        *)

(* A brand-new entry is well formed.                                        *)
LEMMA NewEntryIsEntry ==
    ASSUME NEW p \in Ports, NEW q \in Pids
    PROVE  NewEntry(p, q) \in Entries /\ NewEntry(p, q).port = p
BY DEF NewEntry, Entries, Recent, PastGrace, PastIdle

(* Killing processes and starting one on a port keep the process table typed. *)
LEMMA ProcType ==
    ASSUME proc \in [Ports -> Pids \union {NoPid}], NEW S
    PROVE  /\ Without(S) \in [Ports -> Pids \union {NoPid}]
           /\ \A p \in Ports, q \in Pids \union {NoPid} :
                [Without(S) EXCEPT ![p] = q] \in [Ports -> Pids \union {NoPid}]
BY DEF Without

(* ensure_min_servers keeps the live entries and adds entries on free ports. *)
LEMMA EnsureMinServersKeeps ==
    ASSUME PoolInv, EnsureMinServers
    PROVE  /\ pool' \subseteq Entries
           /\ OneEntryPerPort'
           /\ proc' \in [Ports -> Pids \union {NoPid}]
           /\ hung' \subseteq Ports
<1>. DEFINE free == Ports \ PortsOf(Live)
            missing == MinServers - Cardinality(Live)
            Tried(k) == FirstPorts(free, k)
                          \union (IF k < missing THEN FirstPorts(free, k + 1) ELSE {})
            Started(k) ==
              \E f \in [Tried(k) -> FreshPids \union {NoPid}] :
                /\ \A p \in FirstPorts(free, k) : f[p] # NoPid
                /\ proc' = [p \in Ports |-> IF p \in Tried(k) THEN f[p] ELSE proc[p]]
                /\ pool' = Live \union {NewEntry(p, f[p]) : p \in FirstPorts(free, k)}
                /\ hung' = hung \ Tried(k)
<1>1. Live \subseteq pool
  BY DEF Live
<1>2. CASE pool' = Live /\ UNCHANGED <<proc, hung>>
  BY <1>1, <1>2 DEF PoolInv, TypeOK, OneEntryPerPort
<1>3. CASE \E k \in 0 .. missing : Started(k)
  <2>1. PICK k \in 0 .. missing : Started(k)
    BY <1>3
  <2>. DEFINE started == FirstPorts(free, k)
              tried == Tried(k)
  <2>2. PICK f \in [tried -> FreshPids \union {NoPid}] :
             /\ \A p \in started : f[p] # NoPid
             /\ proc' = [p \in Ports |-> IF p \in tried THEN f[p] ELSE proc[p]]
             /\ pool' = Live \union {NewEntry(p, f[p]) : p \in started}
             /\ hung' = hung \ tried
    BY <2>1
  <2>3. started \subseteq free /\ started \subseteq tried
    BY DEF FirstPorts
  <2>4. /\ \A p \in started : f[p] \in Pids
        /\ \A p \in tried : f[p] \in Pids \union {NoPid}
    BY <2>2, <2>3 DEF FreshPids
  <2>5. \A p \in started : /\ NewEntry(p, f[p]) \in Entries
                           /\ NewEntry(p, f[p]).port = p
    BY <2>3, <2>4, NewEntryIsEntry
  <2>6. pool' \subseteq Entries
    BY <2>2, <2>5, <1>1 DEF PoolInv, TypeOK
  <2>7. \A e \in Live, p \in started : e.port # p
    BY <2>3 DEF PortsOf
  <2>8. OneEntryPerPort'
    <3>1. SUFFICES ASSUME NEW a \in pool', NEW b \in pool', a.port = b.port
                   PROVE  a = b
      BY DEF OneEntryPerPort
    <3>2. pool' = Live \union {NewEntry(p, f[p]) : p \in started}
      BY <2>2
    <3>. HIDE DEF started, Tried
    <3>3. CASE a \in Live /\ b \in Live
      BY <3>1, <3>3, <1>1 DEF PoolInv, OneEntryPerPort
    <3>4. CASE \E p \in started : a = NewEntry(p, f[p])
      BY <3>1, <3>4, <3>2, <2>5, <2>7
    <3>5. CASE \E p \in started : b = NewEntry(p, f[p])
      BY <3>1, <3>5, <3>2, <2>5, <2>7
    <3>. QED  BY <3>2, <3>3, <3>4, <3>5
  <2>9. proc' \in [Ports -> Pids \union {NoPid}]
    BY <2>2, <2>4 DEF PoolInv, TypeOK
  <2>. QED  BY <2>2, <2>6, <2>8, <2>9 DEF PoolInv, TypeOK
<1>. QED  BY <1>2, <1>3 DEF EnsureMinServers

(* Each rewrite of an entry leaves a well-formed entry on the same port.    *)
LEMMA RewrittenEntry ==
    ASSUME NEW e \in Entries
    PROVE  /\ Mark(e) \in Entries /\ Mark(e).port = e.port
           /\ Picked(e) \in Entries /\ Picked(e).port = e.port
           /\ OneMoreSilent(e) \in Entries /\ OneMoreSilent(e).port = e.port
           /\ Touched(e) \in Entries /\ Touched(e).port = e.port
           /\ Answered(e) \in Entries /\ Answered(e).port = e.port
           /\ Released(e) \in Entries /\ Released(e).port = e.port
           /\ Heal(e) \in Entries /\ Heal(e).port = e.port
           /\ e.age < PastIdle => Older(e) \in Entries /\ Older(e).port = e.port
<1>. USE SizeAssumption DEF Entries, Recent, PastGrace, PastIdle
<1>1. Mark(e) \in Entries /\ Mark(e).port = e.port
  BY DEF Mark
<1>2. Picked(e) \in Entries /\ Picked(e).port = e.port
  <2>1. e.reserved + 1 \in Nat /\ e.requests + 1 \in Nat
    OBVIOUS
  <2>. QED  BY <2>1 DEF Picked
<1>3. OneMoreSilent(e) \in Entries /\ OneMoreSilent(e).port = e.port
  <2>. DEFINE n == IF e.silent < Threshold THEN e.silent + 1 ELSE Threshold
  <2>1. n \in Nat
    OBVIOUS
  <2>2. OneMoreSilent(e) = [e EXCEPT !.silent = n, !.draining = e.draining \/ n >= Threshold]
    BY DEF OneMoreSilent
  <2>. HIDE DEF n
  <2>. QED  BY <2>1, <2>2
<1>4. Touched(e) \in Entries /\ Touched(e).port = e.port
  BY DEF Touched
<1>5. Answered(e) \in Entries /\ Answered(e).port = e.port
  BY DEF Answered
<1>6. Released(e) \in Entries /\ Released(e).port = e.port
  BY DEF Released
<1>7. Heal(e) \in Entries /\ Heal(e).port = e.port
  BY DEF Heal
<1>8. e.age < PastIdle => Older(e) \in Entries /\ Older(e).port = e.port
  BY DEF Older
<1>. QED  BY <1>1, <1>2, <1>3, <1>4, <1>5, <1>6, <1>7, <1>8

(* Marking and reaping change no port and drop entries only.                *)
LEMMA KeptIsPool ==
    ASSUME PoolInv
    PROVE  /\ Marked \subseteq Entries
           /\ \A e, f \in Marked : e.port = f.port => e = f
           /\ Kept \subseteq Marked
<1>1. \A e \in Live : e \in pool /\ Mark(e) \in Entries /\ Mark(e).port = e.port
  BY RewrittenEntry DEF Live, PoolInv, TypeOK
<1>2. \A e, f \in Marked : e.port = f.port => e = f
  BY <1>1 DEF Marked, PoolInv, OneEntryPerPort
<1>. QED  BY <1>1, <1>2 DEF Kept, Marked

(* Starting a server writes one more entry, on a port the kept ones leave   *)
(* free; a pick that fails writes nothing.                                  *)
LEMMA StartFreshKeeps ==
    ASSUME PoolInv, NEW d \in Dispatches, NEW taken, NEW killed, NEW keep,
           keep \subseteq Entries,
           \A e, f \in keep : e.port = f.port => e = f,
           keep \subseteq taken,
           UNCHANGED <<on, out, torn>>,
           StartFresh(d, taken, keep, killed)
    PROVE  TypeOK' /\ OneEntryPerPort'
<1>. USE DEF PoolInv, TypeOK
<1>1. \A S : Without(S) \in [Ports -> Pids \union {NoPid}]
  BY ProcType
<1>2. CASE PortsOf(taken) = Ports /\ Refuse(d) /\ proc' = Without(killed) /\ hung' = hung \ killed
  <2>. QED  BY <1>2, <1>1 DEF Refuse, OneEntryPerPort
<1>3. ASSUME NEW p \in Ports \ PortsOf(taken), NEW q \in FreshPids \union {NoPid},
             hung' = hung \ (killed \union {p}),
             Refuse(d), proc' = [Without(killed) EXCEPT ![p] = q]
      PROVE  TypeOK' /\ OneEntryPerPort'
  <2>1. proc' \in [Ports -> Pids \union {NoPid}]
    BY <1>3, ProcType DEF FreshPids
  <2>. QED  BY <1>3, <2>1 DEF Refuse, OneEntryPerPort
<1>4. ASSUME NEW p \in Ports \ PortsOf(taken), NEW q \in FreshPids,
             hung' = hung \ (killed \union {p}),
             proc' = [Without(killed) EXCEPT ![p] = q],
             pool' = keep \union {NewEntry(p, q)},
             url' = [url EXCEPT ![d] = p],
             pc' = [pc EXCEPT ![d] = "picked"]
      PROVE  TypeOK' /\ OneEntryPerPort'
  <2>1. q \in Pids
    BY DEF FreshPids
  <2>2. NewEntry(p, q) \in Entries /\ NewEntry(p, q).port = p
    BY <2>1, NewEntryIsEntry
  <2>3. proc' \in [Ports -> Pids \union {NoPid}]
    BY <1>4, <2>1, ProcType
  <2>4. \A e \in keep : e.port # p
    BY DEF PortsOf
  <2>5. OneEntryPerPort'
    BY <1>4, <2>2, <2>4 DEF OneEntryPerPort
  <2>6. pool' \subseteq Entries
    BY <1>4, <2>2
  <2>. QED  BY <1>4, <2>3, <2>5, <2>6
<1>. QED  BY <1>2, <1>3, <1>4 DEF StartFresh

(* A step of PoolInv's induction: every action keeps the pool file typed    *)
(* and with one entry per port.                                             *)
LEMMA PoolStep ==
    ASSUME PoolInv, Next
    PROVE  TypeOK' /\ OneEntryPerPort'
<1>. USE DEF PoolInv
<1>e. \A e \in pool : e \in Entries
  BY DEF TypeOK
<1>k. /\ Kept \subseteq Entries
      /\ \A e, f \in Kept : e.port = f.port => e = f
  BY KeptIsPool
<1>1. ASSUME NEW d \in Dispatches, BeginPick(d)
      PROVE  TypeOK' /\ OneEntryPerPort'
  <2>1. EnsureMinServers
    BY <1>1 DEF BeginPick
  <2>. QED  BY <2>1, <1>1, EnsureMinServersKeeps DEF BeginPick, TypeOK
<1>2. ASSUME NEW d \in Dispatches, PickServer(d)
      PROVE  TypeOK' /\ OneEntryPerPort'
  <2>. UNCHANGED <<on, out, torn>>
    BY <1>2 DEF PickServer
  <2>1. CASE PickFromNothing(d)
    <3>. DEFINE killed == {e.port : e \in {f \in pool : Alive(f)}}
    <3>1. StartFresh(d, Exhausted, {}, killed)
      BY <2>1 DEF PickFromNothing
    <3>. HIDE DEF killed
    <3>. QED  BY <3>1, StartFreshKeeps
  <2>2. CASE PickPastDraining(d) \/ PickByGrowing(d)
    <3>1. StartFresh(d, Kept, Kept, PortsOf(Exhausted))
      BY <2>2 DEF PickPastDraining, PickByGrowing
    <3>. QED  BY <3>1, <1>k, StartFreshKeeps
  <2>3. CASE PickUnloaded(d) \/ PickLoaded(d)
    <3>1. PICK best \in Kept : Reserve(d, best)
      BY <2>3 DEF PickUnloaded, PickLoaded, ZeroLoad, Selectable
    <3>2. Picked(best) \in Entries /\ Picked(best).port = best.port
      BY <1>k, RewrittenEntry
    <3>3. pool' \subseteq Entries
      BY <3>1, <3>2, <1>k DEF Reserve
    <3>4. OneEntryPerPort'
      BY <3>1, <3>2, <1>k DEF Reserve, OneEntryPerPort
    <3>5. best.port \in Ports
      BY <1>k DEF Entries
    <3>6. proc' \in [Ports -> Pids \union {NoPid}]
      BY <3>1, ProcType DEF Reserve, TypeOK
    <3>. QED  BY <3>1, <3>3, <3>4, <3>5, <3>6 DEF Reserve, TypeOK
  <2>. QED  BY <1>2, <2>1, <2>2, <2>3 DEF PickServer
<1>3. ASSUME NEW d \in Dispatches,
             \/ GiveUp(d) \/ Run(d) \/ CompleteSentinel(d) \/ Abandon(d)
             \/ TruncateSentinel(d) \/ RewriteSentinel(d)
      PROVE  TypeOK' /\ OneEntryPerPort'
  <2>1. pool' = pool
    BY <1>3 DEF GiveUp, Run, CompleteSentinel, Abandon, TruncateSentinel, RewriteSentinel
  <2>2. CASE Run(d)
    <3>1. proc[url[d]] \in Pids \union {NoPid}
      BY <2>2 DEF Run, UrlGiven, TypeOK
    <3>. QED  BY <2>1, <2>2, <3>1 DEF Run, TypeOK, OneEntryPerPort
  <2>3. CASE GiveUp(d) \/ CompleteSentinel(d) \/ Abandon(d)
    BY <2>1, <2>3 DEF GiveUp, CompleteSentinel, Abandon, Leave, TypeOK, OneEntryPerPort
  <2>4. CASE TruncateSentinel(d) \/ RewriteSentinel(d)
    BY <2>1, <2>4 DEF TruncateSentinel, RewriteSentinel, TypeOK, OneEntryPerPort
  <2>. QED  BY <1>3, <2>2, <2>3, <2>4
<1>4. ASSUME NEW d \in Dispatches, NEW how \in RunEnds, EndRun(d, how)
      PROVE  TypeOK' /\ OneEntryPerPort'
  <2>. DEFINE R == {IF e.port = url[d] THEN OneMoreSilent(e) ELSE e : e \in pool}
  <2>1. pool' = pool \/ pool' = R
    BY <1>4 DEF EndRun
  <2>2. \A e \in pool : OneMoreSilent(e) \in Entries /\ OneMoreSilent(e).port = e.port
    BY <1>e, RewrittenEntry
  <2>3. pool' \subseteq Entries /\ OneEntryPerPort'
    BY <2>1, <2>2, <1>e DEF OneEntryPerPort
  <2>. QED  BY <1>4, <2>3 DEF EndRun, TypeOK
<1>5. ASSUME NEW d \in Dispatches,
             UpdateLastUsed(d) \/ RecordResponsive(d) \/ ReleaseServer(d)
      PROVE  TypeOK' /\ OneEntryPerPort'
  <2>1. CASE UpdateLastUsed(d)
    <3>1. pool' = {IF e.port = url[d] THEN Touched(e) ELSE e : e \in pool}
      BY <2>1 DEF UpdateLastUsed
    <3>2. \A e \in pool : Touched(e) \in Entries /\ Touched(e).port = e.port
      BY <1>e, RewrittenEntry
    <3>3. pool' \subseteq Entries /\ OneEntryPerPort'
      BY <3>1, <3>2, <1>e DEF OneEntryPerPort
    <3>. QED  BY <2>1, <3>3 DEF UpdateLastUsed, TypeOK
  <2>2. CASE RecordResponsive(d)
    <3>1. pool' = {IF e.port = url[d] THEN Answered(e) ELSE e : e \in pool}
      BY <2>2 DEF RecordResponsive
    <3>2. \A e \in pool : Answered(e) \in Entries /\ Answered(e).port = e.port
      BY <1>e, RewrittenEntry
    <3>3. pool' \subseteq Entries /\ OneEntryPerPort'
      BY <3>1, <3>2, <1>e DEF OneEntryPerPort
    <3>. QED  BY <2>2, <3>3 DEF RecordResponsive, TypeOK
  <2>3. CASE ReleaseServer(d)
    <3>1. pool' = {IF e.port = url[d] THEN Released(e) ELSE e : e \in pool}
      BY <2>3 DEF ReleaseServer
    <3>2. \A e \in pool : Released(e) \in Entries /\ Released(e).port = e.port
      BY <1>e, RewrittenEntry
    <3>3. pool' \subseteq Entries /\ OneEntryPerPort'
      BY <3>1, <3>2, <1>e DEF OneEntryPerPort
    <3>. QED  BY <2>3, <3>3 DEF ReleaseServer, Leave, TypeOK
  <2>. QED  BY <1>5, <2>1, <2>2, <2>3
<1>6. ASSUME GetPool PROVE TypeOK' /\ OneEntryPerPort'
  BY <1>6, <1>e DEF GetPool, Live, TypeOK, OneEntryPerPort
<1>7. ASSUME ShutdownIdle PROVE TypeOK' /\ OneEntryPerPort'
  <2>1. PICK K : /\ pool' = Healed \ K
                 /\ proc' = Without(PortsOf(K))
                 /\ UNCHANGED <<hung, pc, url, on, out, torn>>
    BY <1>7 DEF ShutdownIdle, ShutdownIdleOf
  <2>2. Healed \subseteq Entries /\ \A e, f \in Healed : e.port = f.port => e = f
    <3>1. \A e \in pool : Heal(e) \in Entries /\ Heal(e).port = e.port
      BY <1>e, RewrittenEntry
    <3>. QED  BY <3>1 DEF Healed, Live, OneEntryPerPort
  <2>3. proc' \in [Ports -> Pids \union {NoPid}]
    BY <2>1, ProcType DEF TypeOK
  <2>. QED  BY <2>1, <2>2, <2>3 DEF TypeOK, OneEntryPerPort
<1>8. ASSUME DaemonEnsureMin PROVE TypeOK' /\ OneEntryPerPort'
  <2>1. EnsureMinServers
    BY <1>8 DEF DaemonEnsureMin
  <2>. QED  BY <2>1, <1>8, EnsureMinServersKeeps DEF DaemonEnsureMin, TypeOK
<1>9. ASSUME NEW p \in Ports, Age(p) PROVE TypeOK' /\ OneEntryPerPort'
  <2>1. pool' = {IF e.port = p /\ e.age < PastIdle THEN Older(e) ELSE e : e \in pool}
    BY <1>9 DEF Age
  <2>2. \A e \in pool : e.age < PastIdle => Older(e) \in Entries /\ Older(e).port = e.port
    BY <1>e, RewrittenEntry
  <2>3. pool' \subseteq Entries /\ OneEntryPerPort'
    BY <2>1, <2>2, <1>e DEF OneEntryPerPort
  <2>. QED  BY <1>9, <2>3 DEF Age, TypeOK
<1>10. ASSUME NEW p \in Ports, ServerCrash(p) \/ ServerHang(p) \/ ServerRecover(p)
       PROVE  TypeOK' /\ OneEntryPerPort'
  <2>1. Without({p}) \in [Ports -> Pids \union {NoPid}]
    BY ProcType DEF TypeOK
  <2>. QED  BY <1>10, <2>1 DEF ServerCrash, ServerHang, ServerRecover, TypeOK, OneEntryPerPort
<1>. QED
  BY <1>1, <1>2, <1>3, <1>4, <1>5, <1>6, <1>7, <1>8, <1>9, <1>10
     DEF Next, DispatchStep, DaemonStep, ServerStep

(* No step takes a dispatch past its pick without giving it a server.       *)
LEMMA UrlGivenStep ==
    ASSUME PoolInv, Next
    PROVE  UrlGiven'
<1>. USE DEF PoolInv, TypeOK, UrlGiven
<1>1. ASSUME NEW d \in Dispatches, DispatchStep(d)
      PROVE  UrlGiven'
  <2>1. CASE PickServer(d)
    <3>1. \/ pc' = [pc EXCEPT ![d] = "refused"] /\ url' = url
          \/ \E p \in Ports : pc' = [pc EXCEPT ![d] = "picked"] /\ url' = [url EXCEPT ![d] = p]
      <4>1. ASSUME NEW best \in Kept, Reserve(d, best)
            PROVE  /\ best.port \in Ports
                   /\ pc' = [pc EXCEPT ![d] = "picked"]
                   /\ url' = [url EXCEPT ![d] = best.port]
        BY <4>1, KeptIsPool DEF Reserve, Entries
      <4>2. CASE PickUnloaded(d) \/ PickLoaded(d)
        BY <4>1, <4>2 DEF PickUnloaded, PickLoaded, ZeroLoad, Selectable
      <4>3. CASE PickFromNothing(d) \/ PickPastDraining(d) \/ PickByGrowing(d)
        BY <4>3 DEF PickFromNothing, PickPastDraining, PickByGrowing, StartFresh, Refuse
      <4>. QED  BY <2>1, <4>2, <4>3 DEF PickServer
    <3>. QED  BY <3>1
  <2>2. CASE BeginPick(d) \/ GiveUp(d) \/ Run(d) \/ \E how \in RunEnds : EndRun(d, how)
    BY <2>2 DEF BeginPick, GiveUp, Run, EndRun
  <2>3. CASE \/ CompleteSentinel(d) \/ UpdateLastUsed(d) \/ RecordResponsive(d)
             \/ ReleaseServer(d) \/ Abandon(d)
    BY <2>3 DEF CompleteSentinel, UpdateLastUsed, RecordResponsive, ReleaseServer,
                Abandon, Leave
  <2>4. CASE TruncateSentinel(d) \/ RewriteSentinel(d)
    BY <2>4 DEF TruncateSentinel, RewriteSentinel
  <2>. QED  BY <1>1, <2>1, <2>2, <2>3, <2>4 DEF DispatchStep
<1>2. CASE DaemonStep \/ (\E p \in Ports : Age(p)) \/ ServerStep
  BY <1>2 DEF DaemonStep, GetPool, ShutdownIdle, ShutdownIdleOf, DaemonEnsureMin, Age, ServerStep,
              ServerCrash, ServerHang, ServerRecover
<1>. QED  BY <1>1, <1>2 DEF Next

(* The pool file is typed and holds one entry per port, with any number of  *)
(* dispatches, servers, quotas and failures.                                *)
THEOREM PoolInvariant == Spec => []PoolInv
<1>1. Init => PoolInv
  BY DEF Init, PoolInv, TypeOK, OneEntryPerPort, UrlGiven
<1>2. PoolInv /\ [Next]_vars => PoolInv'
  <2>1. CASE Next
    BY <2>1, PoolStep, UrlGivenStep DEF PoolInv
  <2>2. CASE UNCHANGED vars
    BY <2>2 DEF vars, PoolInv, TypeOK, OneEntryPerPort, UrlGiven
  <2>. QED  BY <2>1, <2>2
<1>. QED  BY <1>1, <1>2, PTL DEF Spec

(* Type correctness of the pool file and of the dispatches around it.       *)
THEOREM TypeCorrect == Spec => []TypeOK
BY PoolInvariant, PTL DEF PoolInv

(* One entry per port: pick_server and ensure_min_servers never list two    *)
(* servers under one URL.                                                   *)
THEOREM PortsAreUnique == Spec => []OneEntryPerPort
BY PoolInvariant, PTL DEF PoolInv

-----------------------------------------------------------------------------
(* A draining server is out of service for good.                            *)

(* An entry of the rewritten file continues an old one, or its process was  *)
(* unknown to the pool.                                                     *)
Continues(f, e) ==
    /\ f.port = e.port /\ f.pid = e.pid
    /\ e.draining => f.draining /\ f.requests = e.requests
Brand(f) == \A e \in pool : e.pid # f.pid
DrainKept == \A f \in pool' : Brand(f) \/ \E e \in pool : Continues(f, e)

(* Every rewrite but a pick leaves a draining entry draining and its        *)
(* request count alone; a pick does it to an entry that is not draining.    *)
LEMMA RewriteContinues ==
    ASSUME NEW e \in Entries
    PROVE  /\ Continues(e, e)
           /\ Continues(Mark(e), e)
           /\ Continues(OneMoreSilent(e), e)
           /\ Continues(Touched(e), e)
           /\ Continues(Answered(e), e)
           /\ Continues(Released(e), e)
           /\ Continues(Heal(e), e)
           /\ Continues(Older(e), e)
           /\ ~Mark(e).draining => Continues(Picked(Mark(e)), e)
<1>. USE DEF Entries, Continues
<1>1. Continues(Mark(e), e)
  BY DEF Mark
<1>2. Continues(OneMoreSilent(e), e)
  BY DEF OneMoreSilent
<1>3. Continues(Touched(e), e) /\ Continues(Answered(e), e) /\ Continues(Released(e), e)
  BY DEF Touched, Answered, Released
<1>4. Continues(Heal(e), e) /\ Continues(Older(e), e)
  BY DEF Heal, Older
<1>5. ~Mark(e).draining => Continues(Picked(Mark(e)), e)
  <2>1. ASSUME ~Mark(e).draining PROVE ~e.draining
    BY <2>1, <1>1
  <2>2. Picked(Mark(e)).port = e.port /\ Picked(Mark(e)).pid = e.pid
    BY DEF Picked, Mark
  <2>. QED  BY <2>1, <2>2
<1>. QED  BY <1>1, <1>2, <1>3, <1>4, <1>5

LEMMA NewEntryIsBrand ==
    ASSUME NEW p, NEW q \in FreshPids
    PROVE  Brand(NewEntry(p, q))
BY DEF Brand, NewEntry, FreshPids

LEMMA KeptContinues ==
    ASSUME PoolInv
    PROVE  \A f \in Kept : \E e \in pool : f = Mark(e) /\ Continues(f, e)
<1>1. \A e \in pool : Continues(Mark(e), e)
  BY RewriteContinues DEF PoolInv, TypeOK
<1>. QED  BY <1>1 DEF Kept, Marked, Live

LEMMA EnsureMinServersDrain ==
    ASSUME PoolInv, EnsureMinServers
    PROVE  DrainKept
<1>1. \A e \in pool : Continues(e, e)
  BY RewriteContinues DEF PoolInv, TypeOK
<1>2. Live \subseteq pool
  BY DEF Live
<1>3. CASE pool' = Live
  BY <1>1, <1>2, <1>3 DEF DrainKept
<1>4. ASSUME NEW T, NEW S \in SUBSET (T \intersect Ports),
             NEW f \in [T -> FreshPids \union {NoPid}],
             \A p \in S : f[p] # NoPid,
             pool' = Live \union {NewEntry(p, f[p]) : p \in S}
      PROVE  DrainKept
  BY <1>1, <1>2, <1>4, NewEntryIsBrand DEF DrainKept
<1>. DEFINE free == Ports \ PortsOf(Live)
            missing == MinServers - Cardinality(Live)
            Tried(k) == FirstPorts(free, k)
                          \union (IF k < missing THEN FirstPorts(free, k + 1) ELSE {})
            Filled(k) ==
              \E f \in [Tried(k) -> FreshPids \union {NoPid}] :
                 /\ \A p \in FirstPorts(free, k) : f[p] # NoPid
                 /\ pool' = Live \union {NewEntry(p, f[p]) : p \in FirstPorts(free, k)}
<1>5. CASE \E k \in 0 .. missing : Filled(k)
  <2>1. PICK k \in 0 .. missing : Filled(k)
    BY <1>5
  <2>2. FirstPorts(free, k) \in SUBSET (Tried(k) \intersect Ports)
    BY DEF FirstPorts
  <2>. HIDE DEF Tried
  <2>. QED  BY <2>1, <2>2, <1>4
<1>. QED  BY <1>3, <1>5 DEF EnsureMinServers

LEMMA StartFreshDrain ==
    ASSUME PoolInv, NEW d \in Dispatches, NEW taken, NEW killed, NEW keep,
           \A f \in keep : \E e \in pool : Continues(f, e),
           StartFresh(d, taken, keep, killed)
    PROVE  DrainKept
<1>1. \A e \in pool : Continues(e, e)
  BY RewriteContinues DEF PoolInv, TypeOK
<1>2. CASE pool' = pool
  BY <1>1, <1>2 DEF DrainKept
<1>3. CASE \E p \in Ports, q \in FreshPids : pool' = keep \union {NewEntry(p, q)}
  BY <1>3, NewEntryIsBrand DEF DrainKept
<1>. QED  BY <1>2, <1>3 DEF StartFresh, Refuse

LEMMA DrainStep ==
    ASSUME PoolInv, Next
    PROVE  DrainKept
<1>. USE DEF DrainKept
<1>e. \A e \in pool : e \in Entries /\ Continues(e, e)
  BY RewriteContinues DEF PoolInv, TypeOK
<1>1. CASE pool' = pool
  BY <1>1, <1>e
<1>2. CASE EnsureMinServers
  BY <1>2, EnsureMinServersDrain
<1>3. ASSUME NEW d \in Dispatches, PickServer(d)
      PROVE  DrainKept
  <2>k. \A f \in Kept : \E e \in pool : f = Mark(e) /\ Continues(f, e)
    BY KeptContinues
  <2>1. CASE PickFromNothing(d)
    <3>. DEFINE killed == {e.port : e \in {f \in pool : Alive(f)}}
    <3>1. StartFresh(d, Exhausted, {}, killed)
      BY <2>1 DEF PickFromNothing
    <3>. HIDE DEF killed
    <3>. QED  BY <3>1, StartFreshDrain
  <2>2. CASE PickPastDraining(d) \/ PickByGrowing(d)
    <3>1. StartFresh(d, Kept, Kept, PortsOf(Exhausted))
      BY <2>2 DEF PickPastDraining, PickByGrowing
    <3>. QED  BY <3>1, <2>k, StartFreshDrain
  <2>3. CASE PickUnloaded(d) \/ PickLoaded(d)
    <3>1. PICK best \in Selectable : Reserve(d, best)
      BY <2>3 DEF PickUnloaded, PickLoaded, ZeroLoad
    <3>2. best \in Kept /\ ~best.draining
      BY DEF Selectable
    <3>3. \E e \in pool : Continues(Picked(best), e)
      BY <3>2, <2>k, <1>e, RewriteContinues
    <3>. QED  BY <3>1, <3>3, <2>k DEF Reserve
  <2>. QED  BY <1>3, <2>1, <2>2, <2>3 DEF PickServer
<1>4. ASSUME NEW d \in Dispatches, NEW how \in RunEnds, EndRun(d, how)
      PROVE  DrainKept
  <2>1. \A e \in pool : Continues(OneMoreSilent(e), e)
    BY <1>e, RewriteContinues
  <2>. QED  BY <1>4, <2>1, <1>e DEF EndRun
<1>5. ASSUME NEW d \in Dispatches,
             UpdateLastUsed(d) \/ RecordResponsive(d) \/ ReleaseServer(d)
      PROVE  DrainKept
  <2>1. \A e \in pool : /\ Continues(Touched(e), e)
                        /\ Continues(Answered(e), e)
                        /\ Continues(Released(e), e)
    BY <1>e, RewriteContinues
  <2>. QED
    BY <1>5, <2>1, <1>e DEF UpdateLastUsed, RecordResponsive, ReleaseServer
<1>6. CASE GetPool
  BY <1>6, <1>e DEF GetPool, Live
<1>7. CASE ShutdownIdle
  <2>1. \A e \in pool : Continues(Heal(e), e)
    BY <1>e, RewriteContinues
  <2>2. \A f \in pool' : f \in Healed
    BY <1>7 DEF ShutdownIdle, ShutdownIdleOf
  <2>. QED  BY <2>1, <2>2 DEF Healed, Live
<1>8. ASSUME NEW p \in Ports, Age(p) PROVE DrainKept
  <2>1. \A e \in pool : Continues(Older(e), e)
    BY <1>e, RewriteContinues
  <2>. QED  BY <1>8, <2>1, <1>e DEF Age
<1>9. ASSUME NEW d \in Dispatches,
             \/ BeginPick(d) \/ GiveUp(d) \/ Run(d) \/ CompleteSentinel(d) \/ Abandon(d)
             \/ TruncateSentinel(d) \/ RewriteSentinel(d)
      PROVE  EnsureMinServers \/ pool' = pool
  BY <1>9 DEF BeginPick, GiveUp, Run, CompleteSentinel, Abandon, TruncateSentinel,
              RewriteSentinel
<1>10. DaemonEnsureMin => EnsureMinServers
  BY DEF DaemonEnsureMin
<1>11. ServerStep => pool' = pool
  BY DEF ServerStep, ServerCrash, ServerHang, ServerRecover
<1>. QED
  BY <1>1, <1>2, <1>3, <1>4, <1>5, <1>6, <1>7, <1>8, <1>9, <1>10, <1>11
     DEF Next, DispatchStep, DaemonStep

(* A live, draining server never gets another request nor becomes           *)
(* selectable again, through any rewrite of the pool file.                  *)
THEOREM DrainingServersStayOut == Spec => DrainingIsFinal
<1>. DEFINE A == \A e \in pool, f \in pool' :
                   e.port = f.port /\ e.pid = f.pid /\ e.draining
                     => f.draining /\ f.requests = e.requests
<1>1. PoolInv /\ [Next]_vars => [A]_vars
  <2>1. CASE Next
    <3>1. SUFFICES ASSUME PoolInv, NEW e \in pool, NEW f \in pool',
                          e.port = f.port, e.pid = f.pid, e.draining
                   PROVE  f.draining /\ f.requests = e.requests
      OBVIOUS
    <3>2. DrainKept
      BY <3>1, <2>1, DrainStep
    <3>3. PICK g \in pool : Continues(f, g)
      BY <3>1, <3>2 DEF DrainKept, Brand
    <3>4. g = e
      BY <3>1, <3>3 DEF Continues, PoolInv, OneEntryPerPort
    <3>. QED  BY <3>1, <3>3, <3>4 DEF Continues
  <2>. QED  BY <2>1
<1>. QED  BY <1>1, PoolInvariant, PTL DEF Spec, DrainingIsFinal

-----------------------------------------------------------------------------
(* A dispatch whose sentinel names its server keeps it.                     *)

(* The server of such a dispatch is live, and stays listed: it is neither   *)
(* reaped nor on a port anybody starts a server on.                         *)
Protected(d) ==
    d \notin Readers \union torn /\ InFlight(d) /\ Tracked(d) /\ url[d] \notin hung

LEMMA ProtectedIsKept ==
    ASSUME PoolInv, NEW d \in Dispatches, Protected(d)
    PROVE  /\ url[d] \in Ports
           /\ url[d] \in PortsOf(Live)
           /\ url[d] \in PortsOf(Kept)
           /\ url[d] \notin PortsOf(Exhausted)
           /\ Loaded(url[d])
<1>1. PICK e \in pool : e.port = url[d] /\ e.pid = on[d]
  BY DEF Protected, Tracked
<1>2. e \in Entries
  BY DEF PoolInv, TypeOK
<1>3. url[d] \in Ports
  BY <1>1, <1>2 DEF Entries
<1>4. e \in Live
  BY <1>1 DEF Protected, InFlight, Live, Alive, Responsive
<1>5. Loaded(url[d])
  BY DEF Loaded, Carries, SentinelStages, Protected, InFlight
<1>6. Mark(e) \in Marked /\ Mark(e).port = url[d]
  BY <1>1, <1>2, <1>4, RewrittenEntry DEF Marked
<1>7. url[d] \notin PortsOf(Exhausted)
  BY <1>5 DEF PortsOf, Exhausted
<1>8. Mark(e) \in Kept
  BY <1>5, <1>6 DEF Kept, Exhausted
<1>. QED  BY <1>1, <1>3, <1>4, <1>5, <1>6, <1>7, <1>8 DEF PortsOf

LEMMA ProtectedStep ==
    ASSUME PoolInv, Next, NEW d \in Dispatches, Protected(d),
           ~\E p \in Ports : ServerCrash(p)
    PROVE  proc'[url[d]] = proc[url[d]]
<1>k. SUFFICES ASSUME NEW u \in Ports,
                      u \in PortsOf(Live), u \in PortsOf(Kept),
                      u \notin PortsOf(Exhausted), Loaded(u)
               PROVE  proc'[u] = proc[u]
  BY ProtectedIsKept
<1>w. ASSUME NEW S, u \notin S PROVE Without(S)[u] = proc[u]
  BY <1>k, <1>w DEF Without
<1>1. CASE UNCHANGED proc
  BY <1>1
<1>2. CASE EnsureMinServers
  <2>. DEFINE free == Ports \ PortsOf(Live)
              missing == MinServers - Cardinality(Live)
              Tried(k) == FirstPorts(free, k)
                            \union (IF k < missing THEN FirstPorts(free, k + 1) ELSE {})
              Filled(k) ==
                \E f \in [Tried(k) -> FreshPids \union {NoPid}] :
                   proc' = [p \in Ports |-> IF p \in Tried(k) THEN f[p] ELSE proc[p]]
  <2>1. CASE \E k \in 0 .. missing : Filled(k)
    <3>1. PICK k \in 0 .. missing : Filled(k)
      BY <2>1
    <3>2. u \notin Tried(k)
      BY <1>k DEF FirstPorts
    <3>. QED  BY <3>1, <3>2, <1>k
  <2>2. CASE UNCHANGED proc
    BY <2>2
  <2>. QED  BY <1>2, <2>1, <2>2 DEF EnsureMinServers
<1>3. ASSUME NEW b \in Dispatches, NEW taken, NEW keep, NEW killed,
             u \in PortsOf(taken), u \notin killed,
             StartFresh(b, taken, keep, killed)
      PROVE  proc'[u] = proc[u]
  <2>1. CASE proc' = Without(killed)
    BY <2>1, <1>3, <1>w
  <2>2. CASE \E p \in Ports \ PortsOf(taken), q \in FreshPids \union {NoPid} :
               proc' = [Without(killed) EXCEPT ![p] = q]
    BY <2>2, <1>3, <1>w, <1>k DEF Without
  <2>. QED  BY <1>3, <2>1, <2>2 DEF StartFresh
<1>4. ASSUME NEW b \in Dispatches, PickServer(b)
      PROVE  proc'[u] = proc[u]
  <2>1. ~PickFromNothing(b)
    BY <1>k DEF PickFromNothing, PortsOf
  <2>2. CASE PickPastDraining(b) \/ PickByGrowing(b)
    <3>1. StartFresh(b, Kept, Kept, PortsOf(Exhausted))
      BY <2>2 DEF PickPastDraining, PickByGrowing
    <3>. QED  BY <3>1, <1>3, <1>k
  <2>3. CASE PickUnloaded(b) \/ PickLoaded(b)
    <3>1. proc' = Without(PortsOf(Exhausted))
      BY <2>3 DEF PickUnloaded, PickLoaded, Reserve
    <3>. QED  BY <3>1, <1>w, <1>k
  <2>. QED  BY <1>4, <2>1, <2>2, <2>3 DEF PickServer
<1>5. CASE ShutdownIdle
  <2>1. PICK K \in SUBSET {e \in Healed : Idle(e)} : proc' = Without(PortsOf(K))
    BY <1>5 DEF ShutdownIdle, ShutdownIdleOf
  <2>2. u \notin PortsOf(K)
    BY <1>k DEF Idle, PortsOf
  <2>. QED  BY <2>1, <2>2, <1>w
<1>6. ASSUME NEW b \in Dispatches, DispatchStep(b)
      PROVE  UNCHANGED proc \/ EnsureMinServers \/ PickServer(b)
  BY <1>6 DEF DispatchStep, BeginPick, GiveUp, Run, EndRun, CompleteSentinel,
       UpdateLastUsed, RecordResponsive, ReleaseServer, Abandon, TruncateSentinel,
       RewriteSentinel
<1>7. DaemonStep => UNCHANGED proc \/ EnsureMinServers \/ ShutdownIdle
  BY DEF DaemonStep, GetPool, DaemonEnsureMin
<1>8. ServerStep \/ (\E p \in Ports : Age(p)) => UNCHANGED proc
  BY DEF ServerStep, ServerHang, ServerRecover, Age
<1>. QED  BY <1>1, <1>2, <1>4, <1>5, <1>6, <1>7, <1>8 DEF Next

(* No pool operation kills the responsive, tracked server of a dispatch     *)
(* whose sentinel names it and is not being rewritten at that moment,       *)
(* whatever the watchdogs write.                                            *)
THEOREM SentinelsProtectServers == Spec => SentinelProtects
<1>. DEFINE A == \A d \in Dispatches \ (Readers \union torn) :
                   InFlight(d) /\ Tracked(d) /\ url[d] \notin hung /\ proc'[url[d]] # on[d]
                     => \E p \in Ports : ServerCrash(p)
<1>1. PoolInv /\ [Next]_vars => [A]_vars
  <2>1. CASE Next
    BY <2>1, ProtectedStep DEF Protected, InFlight
  <2>. QED  BY <2>1
<1>. QED  BY <1>1, PoolInvariant, PTL DEF Spec, SentinelProtects
-----------------------------------------------------------------------------
(* Counting the pool: it is finite, because it names each port of the       *)
(* configured range at most once, and healing reservations keeps its size.  *)

LEMMA PoolIsFinite ==
    ASSUME PoolInv
    PROVE  IsFiniteSet(pool)
<1>. DEFINE portOf == [e \in pool |-> e.port]
<1>1. \A e \in pool : e.port \in Ports
  BY DEF PoolInv, TypeOK, Entries
<1>2. portOf \in Injection(pool, Ports)
  BY <1>1 DEF PoolInv, OneEntryPerPort, Injection, IsInjective
<1>3. IsFiniteSet(Ports)
  BY SizeAssumption, FS_Interval DEF Ports
<1>. HIDE DEF portOf
<1>. QED  BY <1>2, <1>3, FS_Injection

LEMMA HealedCount ==
    ASSUME PoolInv
    PROVE  IsFiniteSet(Healed) /\ Cardinality(Healed) = Cardinality(Live)
<1>. DEFINE heal == [e \in Live |-> Heal(e)]
<1>1. Live \subseteq pool /\ IsFiniteSet(Live)
  BY PoolIsFinite, FS_Subset DEF Live
<1>2. \A e \in Live : Heal(e).port = e.port
  BY <1>1, RewrittenEntry DEF PoolInv, TypeOK
<1>3. heal \in [Live -> Healed] /\ (\A h \in Healed : \E e \in Live : heal[e] = h)
  BY DEF Healed
<1>4. \A a, b \in Live : heal[a] = heal[b] => a = b
  <2>. SUFFICES ASSUME NEW a \in Live, NEW b \in Live, heal[a] = heal[b]
                PROVE  a = b
    OBVIOUS
  <2>1. a.port = b.port
    BY <1>2
  <2>. QED  BY <1>1, <2>1 DEF PoolInv, OneEntryPerPort
<1>5. heal \in Bijection(Live, Healed)
  <2>. HIDE DEF heal
  <2>. QED  BY <1>3, <1>4 DEF Bijection, Injection, Surjection, IsInjective
<1>. HIDE DEF heal
<1>6. ExistsBijection(Live, Healed)
  BY <1>5 DEF ExistsBijection
<1>. QED  BY <1>1, <1>6, FS_Bijection

(* The idle shutdown never kills more servers than it has to spare.         *)
LEMMA KillCountBound ==
    ASSUME NEW idle \in Nat, NEW spare \in Int
    PROVE  /\ spare <= 0 => KillCount(idle, spare) = 0
           /\ spare > 0 => KillCount(idle, spare) <= spare
BY DEF KillCount

LEMMA IdleStep ==
    ASSUME PoolInv, NEW gone \in SUBSET Healed, ShutdownIdleOf(gone)
    PROVE  \/ Cardinality(pool') + Cardinality(gone) >= IdleMin
           \/ Cardinality(pool') = Cardinality(Live)
<1>. DEFINE idle == {e \in Healed : Idle(e)} \ gone
            spare == Cardinality(Healed) - IdleMin
<1>1. PICK K \in SUBSET idle :
           /\ Cardinality(K) = KillCount(Cardinality(idle), spare)
           /\ pool' = Healed \ (K \union gone)
  BY DEF ShutdownIdleOf
<1>2. /\ IsFiniteSet(Healed)
      /\ Cardinality(Healed) = Cardinality(Live)
      /\ Cardinality(Healed) \in Nat
  BY HealedCount, FS_CardinalityType
<1>3. IdleMin \in Nat
  BY SizeAssumption DEF IdleMin
<1>4. IsFiniteSet(idle) /\ Cardinality(idle) \in Nat
  <2>1. idle \subseteq Healed
    OBVIOUS
  <2>. HIDE DEF idle
  <2>. QED  BY <1>2, <2>1, FS_Subset, FS_CardinalityType
<1>5. /\ K \subseteq Healed /\ IsFiniteSet(K) /\ Cardinality(K) \in Nat
      /\ IsFiniteSet(gone) /\ Cardinality(gone) \in Nat
      /\ IsFiniteSet(Healed \ gone) /\ K \subseteq Healed \ gone
  <2>1. K \subseteq Healed /\ K \subseteq Healed \ gone /\ Healed \ gone \subseteq Healed
    OBVIOUS
  <2>. QED  BY <1>2, <2>1, FS_Subset, FS_CardinalityType
<1>6. Cardinality(pool') = Cardinality(Healed) - Cardinality(gone) - Cardinality(K)
  <2>1. Healed \cap gone = gone /\ (Healed \ gone) \cap K = K
    BY <1>5
  <2>2. Cardinality(Healed \ gone) = Cardinality(Healed) - Cardinality(gone)
    BY <1>2, <2>1, FS_Difference
  <2>3. Cardinality((Healed \ gone) \ K) = Cardinality(Healed \ gone) - Cardinality(K)
    BY <1>5, <2>1, FS_Difference
  <2>4. pool' = (Healed \ gone) \ K
    BY <1>1
  <2>. HIDE DEF idle, spare
  <2>. QED  BY <2>2, <2>3, <2>4
<1>7. /\ spare <= 0 => Cardinality(K) = 0 /\ gone = {}
      /\ spare > 0 => Cardinality(K) <= spare
  <2>1. spare \in Int
    BY <1>2, <1>3
  <2>2. spare <= 0 => gone = {}
    BY DEF ShutdownIdleOf
  <2>. HIDE DEF spare, idle
  <2>. QED  BY <1>1, <1>4, <2>1, <2>2, KillCountBound
<1>8. Cardinality({}) = 0
  BY FS_EmptySet
<1>. HIDE DEF idle
<1>. QED  BY <1>2, <1>3, <1>5, <1>6, <1>7, <1>8

(* IdleKeepsMinimum: the kills of a pass never take more than it has to     *)
(* spare, for every size of the pool, every minimum and every number of     *)
(* servers that die while it runs.                                          *)
THEOREM IdleShutdownKeepsMinimum == Spec => IdleKeepsMinimum
<1>1. PoolInv /\ [Next]_vars =>
        [\A gone \in SUBSET Healed :
            ShutdownIdleOf(gone)
               => \/ Cardinality(pool') + Cardinality(gone) >= IdleMin
                  \/ Cardinality(pool') = Cardinality(Live)]_vars
  BY IdleStep
<1>. QED  BY <1>1, PoolInvariant, PTL DEF Spec, IdleKeepsMinimum
=============================================================================
