-------------------------- MODULE DaemonLife_proofs --------------------------
(* What the registry is good for, with any number of daemons and commands:  *)
(* no daemon at work is ever missing from it, so start, stop and restart    *)
(* find every one of them, whatever has become of the pid file.             *)
EXTENDS DaemonLife, TLAPS

(* A pid about to be written or killed is a daemon's.                       *)
SawInv == \A u \in Users : at[u] \in {"record", "slay"} => saw[u] \in Daemons

DaemonInv == TypeOK /\ SawInv

LEMMA ProcsSplit ==
    /\ \A d \in Daemons : d \in Procs /\ d \notin Users
    /\ \A u \in Users : u \in Procs /\ u \notin Daemons
    /\ \A p \in Procs : p \in Daemons \/ p \in Users
BY ProcessesAssumption DEF Procs

-----------------------------------------------------------------------------
(* Types.                                                                   *)

LEMMA InitTypes == Init => DaemonInv
<1>. SUFFICES ASSUME Init PROVE DaemonInv
  OBVIOUS
<1>. QED
  BY ProcsSplit DEF Init, DaemonInv, TypeOK, SawInv, NoRun, DaemonPlaces, UserPlaces

LEMMA DaemonTypes ==
    ASSUME DaemonInv, NEW d \in Daemons, DaemonStep(d) \/ Interrupt(d) \/ Crash(d)
    PROVE  DaemonInv'
<1>. USE ProcsSplit DEF DaemonInv, TypeOK, SawInv
<1>1. CASE Look(d)
  BY <1>1 DEF Look
<1>2. CASE Claim(d) \/ Confirm(d) \/ LastRead(d)
  <2>1. pidFile' \in Daemons \union {Nobody}
    BY <1>2 DEF Claim, Confirm, LastRead, Cleaned
  <2>. QED
    BY <1>2, <2>1 DEF Claim, Confirm, LastRead, Moves, DaemonPlaces
<1>3. CASE Boot(d) \/ Register(d) \/ Tick(d) \/ Leave(d) \/ UnlinkOwn(d) \/ Reaped(d)
  BY <1>3 DEF Boot, TakesLock, Register, Tick, Leave, UnlinkOwn, Reaped, Moves, DaemonPlaces
<1>4. CASE Interrupt(d) \/ Crash(d)
  BY <1>4 DEF Interrupt, Crash, Moves, Unlocked, DaemonPlaces
<1>. QED  BY <1>1, <1>2, <1>3, <1>4 DEF DaemonStep

LEMMA UserTypes ==
    ASSUME DaemonInv, NEW u \in Users, UserStep(u) \/ Abort(u)
    PROVE  DaemonInv'
<1>. USE ProcsSplit DEF DaemonInv, TypeOK, SawInv
<1>1. CASE Look(u)
  BY <1>1 DEF Look, Reading
<1>2. CASE StopLock(u) \/ EnsureLock(u)
  BY <1>2 DEF StopLock, EnsureLock, TakesLock, Moves, UserPlaces
<1>3. CASE StopProcess(u)
  BY <1>3 DEF StopProcess, Looked, Found, IsStale, Terminates, Moves, UserPlaces, DaemonPlaces
<1>4. CASE ListOthers(u) \/ Unregister(u)
  BY <1>4 DEF ListOthers, Unregister, Moves, UserPlaces
<1>5. CASE Hunt(u) \/ KillTerm(u)
  BY <1>5 DEF Hunt, KillTerm, Terminates, Unlocked, UserPlaces, DaemonPlaces
<1>6. CASE HuntOver(u) \/ EnsureAlready(u) \/ KillUnlink(u) \/ Abort(u)
  BY <1>6 DEF HuntOver, EnsureAlready, KillUnlink, Abort, Ends, Moves, NoRun, Unlocked, UserPlaces
<1>7. CASE EnsureSpawn(u)
  BY <1>7 DEF EnsureSpawn, Cleaned, Unborn, UserPlaces, DaemonPlaces
<1>8. CASE EnsureRecord(u) \/ KillRead(u)
  BY <1>8 DEF EnsureRecord, KillRead, Ends, Moves, NoRun, UserPlaces
<1>. QED
  BY <1>1, <1>2, <1>3, <1>4, <1>5, <1>6, <1>7, <1>8 DEF UserStep

LEMMA BeginTypes ==
    ASSUME DaemonInv, NEW u \in Users, NEW c \in Commands, Begin(u, c)
    PROVE  DaemonInv'
BY ProcsSplit, CommandsAssumption
   DEF DaemonInv, TypeOK, SawInv, Begin, Begins, Moves, Served, UserPlaces

LEMMA NextTypes == DaemonInv /\ [Next]_vars => DaemonInv'
<1>1. DaemonInv /\ Next => DaemonInv'
  BY DaemonTypes, UserTypes, BeginTypes DEF Next
<1>2. DaemonInv /\ UNCHANGED vars => DaemonInv'
  BY DEF vars, DaemonInv, TypeOK, SawInv
<1>. QED  BY <1>1, <1>2

LEMMA DaemonInvariant == Spec => []DaemonInv
BY InitTypes, NextTypes, PTL DEF Spec

(* The pid file, the registry, the lock and every process are in a legal    *)
(* state.                                                                   *)
THEOREM TypeCorrect == Spec => []TypeOK
BY DaemonInvariant, PTL DEF DaemonInv

-----------------------------------------------------------------------------
(* Where daemons come from: a daemon enters service from "register" alone,  *)
(* and nothing takes it back there.                                         *)

Early == {"unborn", "boot", "claim", "register"}

LEMMA PlacesAdvance ==
    ASSUME DaemonInv, Next, NEW d \in Daemons
    PROVE  /\ at[d] \notin Early => at'[d] \notin Early
           /\ at'[d] \in Serving => at[d] \in Serving \/ Register(d)
<1>. USE ProcsSplit DEF DaemonInv, TypeOK, Early, Serving
<1>1. ASSUME NEW e \in Daemons, DaemonStep(e) \/ Interrupt(e) \/ Crash(e)
      PROVE  /\ at[d] \notin Early => at'[d] \notin Early
             /\ at'[d] \in Serving => at[d] \in Serving \/ Register(d)
  BY <1>1 DEF DaemonStep, Boot, TakesLock, Look, Claim, Register, Confirm, Tick, Leave,
     LastRead, UnlinkOwn, Reaped, Interrupt, Crash, Moves, Looked, Runs, Alive
<1>2. ASSUME NEW u \in Users, UserStep(u) \/ Abort(u)
      PROVE  \/ at'[d] = at[d]
             \/ at'[d] = "zombie"
             \/ at[d] = "unborn" /\ at'[d] = "boot"
  <2>1. CASE StopProcess(u)
    BY <1>2, <2>1 DEF StopProcess, Looked, Found, IsStale, Terminates, Moves
  <2>2. CASE Hunt(u) \/ KillTerm(u)
    BY <1>2, <2>2 DEF SawInv, Hunt, KillTerm, Terminates
  <2>3. CASE EnsureSpawn(u)
    BY <1>2, <2>3 DEF EnsureSpawn, Unborn
  <2>. QED
    BY <1>2, <2>1, <2>2, <2>3 DEF UserStep, Look, StopLock, EnsureLock, TakesLock, ListOthers,
       Unregister, HuntOver, EnsureAlready, EnsureRecord, KillRead, KillUnlink, Abort, Ends, Moves
<1>3. ASSUME NEW u \in Users, NEW c \in Commands, Begin(u, c)
      PROVE  at'[d] = at[d]
  BY <1>3 DEF Begin, Moves
<1>. QED  BY <1>1, <1>2, <1>3 DEF Next

(* What a step may take out of the registry.                                *)
LEMMA RegistryKeeps ==
    ASSUME DaemonInv, Next, NEW d \in registry, d \notin registry'
    PROVE  at'[d] \notin Serving
<1>. USE ProcsSplit DEF DaemonInv, TypeOK, Serving, Alive, Runs
<1>1. ASSUME NEW e \in Daemons, DaemonStep(e) \/ Interrupt(e) \/ Crash(e)
      PROVE  at'[d] \notin Serving
  BY <1>1 DEF DaemonStep, Boot, TakesLock, Look, Claim, Register, Confirm, Tick, Leave,
     LastRead, UnlinkOwn, Reaped, Interrupt, Crash, Moves
<1>2. ASSUME NEW u \in Users, UserStep(u) \/ Abort(u)
      PROVE  at'[d] \notin Serving
  <2>1. ListOthers(u) \/ Unregister(u)
    BY <1>2 DEF UserStep, Look, StopLock, EnsureLock, TakesLock, StopProcess, Hunt, HuntOver,
       EnsureAlready, EnsureSpawn, EnsureRecord, KillRead, KillTerm, KillUnlink, Abort, Ends
  <2>. QED  BY <2>1 DEF ListOthers, Unregister, Moves
<1>3. ASSUME NEW u \in Users, NEW c \in Commands, Begin(u, c)
      PROVE  FALSE
  BY <1>3 DEF Begin
<1>. QED  BY <1>1, <1>2, <1>3 DEF Next

LEMMA RegisteredStep ==
    DaemonInv /\ ServingAreRegistered /\ [Next]_vars => ServingAreRegistered'
<1>1. ASSUME DaemonInv, ServingAreRegistered, Next PROVE ServingAreRegistered'
  <2>. SUFFICES ASSUME NEW d \in Daemons, at'[d] \in Serving PROVE d \in registry'
    BY DEF ServingAreRegistered, Served
  <2>1. CASE Register(d)
    BY <2>1 DEF Register
  <2>2. CASE at[d] \in Serving
    <3>1. d \in registry
      BY <1>1, <2>2 DEF ServingAreRegistered, Served
    <3>. QED  BY <1>1, <3>1, RegistryKeeps
  <2>. QED  BY <1>1, <2>1, <2>2, PlacesAdvance
<1>2. ServingAreRegistered /\ UNCHANGED vars => ServingAreRegistered'
  BY DEF vars, ServingAreRegistered, Served
<1>. QED  BY <1>1, <1>2

(* No daemon at work is missing from the registry, whatever registers,      *)
(* prunes, exits, kills and crashes interleave.                             *)
THEOREM RegistryIsComplete == Spec => []ServingAreRegistered
<1>1. Init => ServingAreRegistered
  BY ProcsSplit DEF Init, ServingAreRegistered, Served, Serving
<1>. QED  BY <1>1, RegisteredStep, DaemonInvariant, PTL DEF Spec

-----------------------------------------------------------------------------
(* What start, stop and restart have seen off.                              *)

(* The daemons a command met stay past their start, and those still at work *)
(* are on its list.                                                         *)
MetInv == \A u \in Users : \A d \in run[u].old : at[d] \notin Early
HuntInv == \A u \in Users : at[u] = "hunt" => run[u].old \intersect Served \subseteq run[u].prey
PreyInv == DaemonInv /\ ServingAreRegistered /\ MetInv /\ HuntInv

LEMMA MetStep == ASSUME PreyInv, Next PROVE MetInv'
<1>. USE ProcsSplit DEF PreyInv, DaemonInv, TypeOK
<1>1. ASSUME NEW u \in Users PROVE run'[u].old \subseteq run[u].old \/ run'[u].old = Served
  <2>1. ASSUME NEW d \in Daemons, DaemonStep(d) \/ Interrupt(d) \/ Crash(d)
        PROVE  run' = run
    BY <2>1 DEF DaemonStep, Boot, TakesLock, Look, Claim, Register, Confirm, Tick, Leave,
       LastRead, UnlinkOwn, Reaped, Interrupt, Crash
  <2>2. ASSUME NEW v \in Users, UserStep(v) \/ Abort(v)
        PROVE  run'[u].old \subseteq run[u].old
    BY <2>2 DEF UserStep, Look, StopLock, EnsureLock, TakesLock, StopProcess, ListOthers, Hunt,
       Unregister, HuntOver, EnsureAlready, EnsureSpawn, EnsureRecord, KillRead, KillTerm,
       KillUnlink, Abort, Ends, NoRun
  <2>3. ASSUME NEW v \in Users, NEW c \in Commands, Begin(v, c)
        PROVE  run'[u].old = run[u].old \/ run'[u].old = Served
    BY <2>3 DEF Begin
  <2>. QED  BY <2>1, <2>2, <2>3 DEF Next
<1>2. \A d \in Served : at[d] \notin Early
  BY DEF Served, Serving, Early
<1>. SUFFICES ASSUME NEW u \in Users, NEW d \in run'[u].old PROVE at'[d] \notin Early
  BY DEF MetInv
<1>3. d \in Daemons /\ at[d] \notin Early
  BY <1>1, <1>2 DEF MetInv, Served
<1>. QED  BY <1>3, PlacesAdvance

LEMMA HuntStep == ASSUME PreyInv, Next PROVE HuntInv'
<1>. USE ProcsSplit DEF PreyInv, DaemonInv, TypeOK
<1>. SUFFICES ASSUME NEW u \in Users, at'[u] = "hunt",
                     NEW d \in Daemons, d \in run'[u].old, at'[d] \in Serving
              PROVE  d \in run'[u].prey
  BY MetStep DEF HuntInv, Served
<1>1. ASSUME NEW e \in Daemons, DaemonStep(e) \/ Interrupt(e) \/ Crash(e)
      PROVE  run' = run /\ at'[u] = at[u]
  BY <1>1 DEF DaemonStep, Boot, TakesLock, Look, Claim, Register, Confirm, Tick, Leave,
     LastRead, UnlinkOwn, Reaped, Interrupt, Crash, Moves
<1>2. ASSUME NEW v \in Users, UserStep(v) \/ Abort(v), v # u
      PROVE  run'[u] = run[u] /\ at'[u] = at[u]
  BY <1>2 DEF UserStep, Look, StopLock, EnsureLock, TakesLock, StopProcess, ListOthers, Hunt,
     Unregister, HuntOver, EnsureAlready, EnsureSpawn, EnsureRecord, KillRead, KillTerm,
     KillUnlink, Abort, Ends, Moves, Terminates, SawInv, Looked, Found, IsStale, Unborn
<1>3. ASSUME NEW v \in Users, NEW c \in Commands, Begin(v, c)
      PROVE  v # u /\ run'[u] = run[u] /\ at'[u] = at[u]
  BY <1>3, CommandsAssumption DEF Begin, Begins, Moves
<1>4. CASE run'[u] = run[u] /\ at'[u] = at[u]
  <2>1. at[d] \in Serving
    BY <1>4, PlacesAdvance DEF MetInv, Register, Early
  <2>. QED  BY <1>4, <2>1 DEF HuntInv, Served
<1>5. CASE ListOthers(u)
  <2>1. d \in run[u].old /\ at[d] \in Serving
    BY <1>5 DEF ListOthers, Moves
  <2>. QED  BY <1>5, <2>1 DEF ListOthers, ServingAreRegistered, Served, Serving, Alive
<1>6. CASE Unregister(u)
  <2>1. d \in run[u].prey /\ Runs(d)
    BY <1>6 DEF Unregister, HuntInv, Served, Serving, Runs, Alive
  <2>. QED  BY <1>6, <2>1 DEF Unregister
<1>7. CASE Hunt(u)
  BY <1>7 DEF Hunt, Terminates, HuntInv, Served, Serving, Runs, Alive
<1>8. ASSUME UserStep(u) \/ Abort(u)
      PROVE  ListOthers(u) \/ Unregister(u) \/ Hunt(u)
  BY <1>8 DEF UserStep, Look, Reading, StopLock, EnsureLock, TakesLock, StopProcess,
     HuntOver, EnsureAlready, EnsureSpawn, EnsureRecord, KillRead, KillTerm,
     KillUnlink, Abort, Ends, Moves, Terminates, SawInv, Looked, Found, IsStale, Unborn
<1>. QED  BY <1>1, <1>2, <1>3, <1>4, <1>5, <1>6, <1>7, <1>8 DEF Next

(* When start, stop or restart has gone through the registry, none of the   *)
(* daemons that served when it began serves any more.                       *)
THEOREM StopsFindEveryDaemon == Spec => []OldOnesAreGone
<1>1. Init => PreyInv
  BY InitTypes, ProcsSplit DEF Init, PreyInv, ServingAreRegistered, Served, Serving, MetInv,
     HuntInv, NoRun
<1>2. PreyInv /\ [Next]_vars => PreyInv'
  <2>1. PreyInv /\ Next => PreyInv'
    BY MetStep, HuntStep, NextTypes, RegisteredStep DEF PreyInv
  <2>2. PreyInv /\ UNCHANGED vars => PreyInv'
    BY NextTypes, RegisteredStep DEF PreyInv, vars, MetInv, HuntInv, Served
  <2>. QED  BY <2>1, <2>2
<1>3. PreyInv => OldOnesAreGone
  BY DEF PreyInv, HuntInv, OldOnesAreGone
<1>. QED  BY <1>1, <1>2, <1>3, PTL DEF Spec
=============================================================================
