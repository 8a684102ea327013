------------------------- MODULE TaskSentinel_proofs -------------------------
(* Who may complete, reap or unlink a sentinel, for any number of tasks,    *)
(* `owrap done` processes and reapers.                                      *)
EXTENDS TaskSentinel, TLAPS

(* A worker completes its own sentinel, and only once its run is over.      *)
WorkerInv ==
    \A t \in Tasks :
       /\ job[t] = t
       /\ at[t] # "idle" => at[t] \in Completing /\ stage[t] = "finishing"
       /\ stage[t] = "new" => file[t] = "none"
       /\ watch[t] # "idle" => stage[t] \in {"running", "exiting"}

(* A sender of SIGTERM completes the sentinel of a worker that stopped.     *)
CloserInv ==
    \A c \in Closers :
       /\ at[c] # "idle" => job[c] \in Tasks /\ stage[job[c]] # "new"
       /\ at[c] \in Completing => stage[job[c]] \in {"exiting", "exited"}

(* A reaper handles the sentinel of a dead worker.                          *)
ReaperInv ==
    \A r \in Reapers :
       reap[r].at # "idle" => reap[r].task \in Tasks /\ stage[reap[r].task] = "exited"

(* `owrap kill` records a task it found on file.                            *)
KillerInv == kill.at \in {"write", "unlink"} => kill.task \in Tasks

SentinelInv == TypeOK /\ WorkerInv /\ CloserInv /\ ReaperInv /\ KillerInv

-----------------------------------------------------------------------------
LEMMA ProcsSplit ==
    /\ \A t \in Tasks : t \in Procs /\ t \notin Closers
    /\ \A c \in Closers : c \in Procs /\ c \notin Tasks
    /\ \A p \in Procs : p \in Tasks \/ p \in Closers
BY NamesAssumption DEF Procs

(* Every step keeps the invariant; the steps are grouped by who takes them. *)
LEMMA InitInv == Init => SentinelInv
<1>. SUFFICES ASSUME Init PROVE SentinelInv
  OBVIOUS
<1>. USE DEF Init
<1>1. TypeOK
  BY BoundAssumption DEF TypeOK, Outcomes
<1>2. WorkerInv /\ CloserInv
  BY ProcsSplit DEF WorkerInv, CloserInv, Completing
<1>3. ReaperInv /\ KillerInv
  BY DEF ReaperInv, KillerInv
<1>. QED  BY <1>1, <1>2, <1>3 DEF SentinelInv

LEMMA WorkerStepInv ==
    ASSUME SentinelInv, NEW t \in Tasks, WorkerStep(t) \/ Crash(t)
    PROVE  SentinelInv'
<1>. USE DEF SentinelInv, Completing
<1>1. TypeOK'
  <2>1. CASE WriteSentinel(t) \/ RegisterRunningTask(t) \/ StartRun(t)
    BY <2>1 DEF TypeOK, WriteSentinel, RegisterRunningTask, StartRun
  <2>2. CASE EndRun(t)
    BY <2>2, ProcsSplit DEF TypeOK, EndRun
  <2>3. CASE Exit(t) \/ Crash(t)
    BY <2>3, ProcsSplit DEF TypeOK, Exit, Crash
  <2>. QED  BY <2>1, <2>2, <2>3 DEF WorkerStep
<1>2. WorkerInv'
  BY ProcsSplit DEF TypeOK, WorkerInv, WorkerStep, WriteSentinel, RegisterRunningTask, StartRun,
     EndRun, Exit, Crash
<1>3. CloserInv'
  BY ProcsSplit DEF TypeOK, CloserInv, WorkerStep, WriteSentinel, RegisterRunningTask, StartRun,
     EndRun, Exit, Crash, Alive
<1>4. ReaperInv' /\ KillerInv'
  BY DEF TypeOK, ReaperInv, KillerInv, WorkerStep, WriteSentinel, RegisterRunningTask, StartRun,
     EndRun, Exit, Crash, Alive
<1>. QED  BY <1>1, <1>2, <1>3, <1>4

LEMMA WatchStepInv ==
    ASSUME SentinelInv, NEW t \in Tasks, WatchStep(t)
    PROVE  SentinelInv'
<1>. USE DEF SentinelInv, Completing, WatchStep, WatchRead, WatchOpen, WatchWrite
<1>1. TypeOK'
  BY DEF TypeOK
<1>2. WorkerInv' /\ CloserInv' /\ ReaperInv' /\ KillerInv'
  BY DEF TypeOK, WorkerInv, CloserInv, ReaperInv, KillerInv
<1>. QED  BY <1>1, <1>2

LEMMA CompleteStepInv ==
    ASSUME SentinelInv, NEW p \in Procs, CompleteSentinel(p)
    PROVE  SentinelInv'
<1>. USE DEF SentinelInv, Completing, Goto
<1>1. at[p] # "idle" /\ at[p] \in Completing
  BY DEF CompleteSentinel, CompleteCheck, CompleteRead, CompleteMove, CompleteUnlink,
     ClearRunningTask, IncrementStats
<1>2. job[p] \in Tasks
  BY <1>1, ProcsSplit DEF WorkerInv, CloserInv
<1>3. UNCHANGED <<stage, job, reap, kill>>
  BY DEF CompleteSentinel, CompleteCheck, CompleteRead, CompleteMove, CompleteUnlink,
     ClearRunningTask, IncrementStats
<1>4. \E w \in Completing \union {"idle"} : at' = [at EXCEPT ![p] = w]
  BY DEF CompleteSentinel, CompleteCheck, CompleteRead, CompleteMove, CompleteUnlink,
     ClearRunningTask, IncrementStats
<1>5. \/ UNCHANGED <<file, watch>>
      \/ /\ file' = [file EXCEPT ![job[p]] = "none"]
         /\ watch' = Orphaned(job[p])
  BY DEF CompleteSentinel, CompleteCheck, CompleteRead, CompleteMove, CompleteUnlink,
     ClearRunningTask, IncrementStats, UnlinkSentinel
<1>6. TypeOK'
  <2>1. /\ file' \in [Tasks -> {"none", "whole", "torn"}]
        /\ watch' \in [Tasks -> {"idle", "read", "open", "gone"}]
    BY <1>5 DEF TypeOK, Orphaned
  <2>2. at' \in [Procs -> {"idle", "signal", "complete", "read", "move", "unlink",
                          "clear", "count"}]
    BY <1>4 DEF TypeOK
  <2>3. /\ young' \in [Tasks -> BOOLEAN] /\ old' \in [Tasks -> BOOLEAN]
        /\ listed' \in [Tasks -> BOOLEAN] /\ result' \in [Tasks -> Outcomes]
    BY <1>2 DEF TypeOK, CompleteSentinel, CompleteCheck, CompleteRead, CompleteMove,
       CompleteUnlink, ClearRunningTask, IncrementStats
  <2>4. record' \in [Tasks -> {"none", "aborted", "reaped", "killed"} \union Outcomes]
    BY <1>2 DEF TypeOK, CompleteSentinel, CompleteCheck, CompleteRead, CompleteMove,
       CompleteUnlink, ClearRunningTask, IncrementStats, Outcome
  <2>5. counted' \in [Tasks -> 0 .. CountBound]
    BY <1>2, BoundAssumption DEF TypeOK, CompleteSentinel, CompleteCheck, CompleteRead,
       CompleteMove, CompleteUnlink, ClearRunningTask, IncrementStats
  <2>. QED  BY <2>1, <2>2, <2>3, <2>4, <2>5, <1>3 DEF TypeOK
<1>7. WorkerInv'
  BY <1>1, <1>3, <1>4, <1>5, ProcsSplit DEF TypeOK, WorkerInv, Orphaned
<1>8. CloserInv'
  BY <1>1, <1>3, <1>4, ProcsSplit DEF TypeOK, CloserInv
<1>9. ReaperInv' /\ KillerInv'
  BY <1>3 DEF ReaperInv, KillerInv
<1>. QED  BY <1>6, <1>7, <1>8, <1>9

LEMMA DoneStepInv ==
    ASSUME SentinelInv, NEW c \in Closers, DoneStep(c)
    PROVE  SentinelInv'
<1>. USE DEF SentinelInv, Completing, Goto
<1>1. ASSUME NEW t \in Tasks, DoneMatch(c, t) PROVE SentinelInv'
  <2>1. TypeOK'
    BY <1>1, ProcsSplit DEF TypeOK, DoneMatch
  <2>2. WorkerInv' /\ CloserInv' /\ ReaperInv' /\ KillerInv'
    BY <1>1, ProcsSplit DEF TypeOK, WorkerInv, CloserInv, ReaperInv, KillerInv, DoneMatch
  <2>. QED  BY <2>1, <2>2
<1>2. CASE DoneAlready(c)
  <2>1. job[c] \in Tasks
    BY <1>2 DEF CloserInv, DoneAlready
  <2>2. TypeOK'
    BY <1>2, <2>1, ProcsSplit DEF TypeOK, DoneAlready, UnlinkSentinel, Orphaned
  <2>3. WorkerInv' /\ CloserInv' /\ ReaperInv' /\ KillerInv'
    BY <1>2, <2>1, ProcsSplit DEF TypeOK, WorkerInv, CloserInv, ReaperInv, KillerInv, DoneAlready,
       UnlinkSentinel, Orphaned
  <2>. QED  BY <2>2, <2>3
<1>3. CASE DoneSignal(c)
  <2>1. job[c] \in Tasks
    BY <1>3 DEF CloserInv, DoneSignal
  <2>2. TypeOK'
    BY <1>3, <2>1, ProcsSplit DEF TypeOK, DoneSignal, Terminated
  <2>3. WorkerInv'
    BY <1>3, <2>1, ProcsSplit DEF TypeOK, WorkerInv, DoneSignal, Terminated, Alive
  <2>4. CloserInv'
    BY <1>3, <2>1, ProcsSplit DEF TypeOK, CloserInv, DoneSignal, Terminated, Alive
  <2>5. ReaperInv' /\ KillerInv'
    BY <1>3, <2>1 DEF TypeOK, ReaperInv, KillerInv, DoneSignal, Terminated, Alive
  <2>. QED  BY <2>2, <2>3, <2>4, <2>5
<1>. QED  BY <1>1, <1>2, <1>3 DEF DoneStep

LEMMA ReapStepInv ==
    ASSUME SentinelInv, NEW r \in Reapers, ReapStep(r)
    PROVE  SentinelInv'
<1>. USE DEF SentinelInv, Reaping
<1>1. ASSUME NEW t \in Tasks, ReapLook(r, t) PROVE SentinelInv'
  <2>1. TypeOK'
    BY <1>1 DEF TypeOK, ReapLook
  <2>2. WorkerInv' /\ CloserInv' /\ KillerInv'
    BY <1>1 DEF WorkerInv, CloserInv, KillerInv, ReapLook
  <2>3. ReaperInv'
    BY <1>1 DEF TypeOK, WorkerInv, ReaperInv, ReapLook, Alive
  <2>. QED  BY <2>1, <2>2, <2>3
<1>2. CASE ReapCheck(r) \/ ReapWrite(r) \/ ReapUnlink(r)
  <2>. DEFINE t == reap[r].task
  <2>1. t \in Tasks /\ stage[t] = "exited"
    BY <1>2 DEF ReaperInv, ReapCheck, ReapWrite, ReapUnlink
  <2>2. UNCHANGED <<young, listed, counted, stage, result, at, job, kill>>
    BY <1>2 DEF ReapCheck, ReapWrite, ReapUnlink
  <2>3. \/ UNCHANGED <<file, watch>>
        \/ file' = [file EXCEPT ![t] = "none"] /\ watch' = Orphaned(t)
    BY <1>2 DEF ReapCheck, ReapWrite, ReapUnlink, UnlinkSentinel
  <2>4. \/ reap' = [reap EXCEPT ![r] = [at |-> "idle", task |-> NoTask]]
        \/ \E w \in {"write", "unlink"} :
              reap' = [reap EXCEPT ![r] = [at |-> w, task |-> t]]
    BY <1>2 DEF ReapCheck, ReapWrite, ReapUnlink
  <2>5. /\ record' \in [Tasks -> {"none", "aborted", "reaped", "killed"} \union Outcomes]
        /\ old' \in [Tasks -> BOOLEAN]
    BY <1>2, <2>1 DEF TypeOK, ReapCheck, ReapWrite, ReapUnlink
  <2>. HIDE DEF t
  <2>6. TypeOK'
    <3>1. /\ file' \in [Tasks -> {"none", "whole", "torn"}]
          /\ watch' \in [Tasks -> {"idle", "read", "open", "gone"}]
      BY <2>1, <2>3 DEF TypeOK, Orphaned
    <3>2. reap' \in [Reapers -> [at : {"idle", "check", "write", "unlink"},
                                task : Tasks \union {NoTask}]]
      BY <2>1, <2>4 DEF TypeOK
    <3>. QED  BY <2>2, <2>5, <3>1, <3>2 DEF TypeOK
  <2>7. WorkerInv' /\ CloserInv' /\ KillerInv'
    BY <2>1, <2>2, <2>3 DEF TypeOK, WorkerInv, CloserInv, KillerInv, Orphaned
  <2>8. ReaperInv'
    BY <2>1, <2>2, <2>4 DEF TypeOK, ReaperInv
  <2>. QED  BY <2>6, <2>7, <2>8
<1>. QED  BY <1>1, <1>2 DEF ReapStep

LEMMA KillStepInv ==
    ASSUME SentinelInv, KillStep
    PROVE  SentinelInv'
<1>. USE DEF SentinelInv, Completing
<1>1. ASSUME NEW t \in Tasks, KillUnreadable(t) PROVE SentinelInv'
  BY <1>1 DEF KillUnreadable, UnlinkSentinel, Orphaned, TypeOK, WorkerInv, CloserInv,
     ReaperInv, KillerInv
<1>2. ASSUME NEW t \in Tasks, KillSignal(t) PROVE SentinelInv'
  <2>1. TypeOK'
    BY <1>2, ProcsSplit DEF KillSignal, Terminated, Goto, TypeOK
  <2>2. WorkerInv' /\ KillerInv'
    BY <1>2, ProcsSplit DEF KillSignal, Terminated, Goto, Alive, TypeOK, WorkerInv, KillerInv
  <2>3. CloserInv'
    BY <1>2, ProcsSplit DEF KillSignal, Terminated, Goto, Alive, TypeOK, CloserInv
  <2>4. ReaperInv'
    BY <1>2 DEF KillSignal, Terminated, Alive, TypeOK, ReaperInv
  <2>. QED  BY <2>1, <2>2, <2>3, <2>4
<1>3. CASE KillBegin \/ KillWrite \/ KillEnd
  <2>1. TypeOK'
    <3>1. CASE KillBegin
      BY <3>1 DEF KillBegin, TypeOK
    <3>2. CASE KillWrite
      BY <3>2 DEF KillWrite, TypeOK, KillerInv
    <3>3. CASE KillEnd
      BY <3>3 DEF KillEnd, TypeOK
    <3>. QED  BY <1>3, <3>1, <3>2, <3>3
  <2>2. WorkerInv' /\ CloserInv' /\ ReaperInv' /\ KillerInv'
    BY <1>3 DEF KillBegin, KillWrite, KillEnd, TypeOK, WorkerInv, CloserInv, ReaperInv,
       KillerInv
  <2>. QED  BY <2>1, <2>2
<1>4. CASE KillUnlink
  <2>1. kill.task \in Tasks
    BY <1>4 DEF KillUnlink, KillerInv
  <2>. QED
    BY <1>4, <2>1 DEF KillUnlink, UnlinkSentinel, Orphaned, TypeOK, WorkerInv, CloserInv,
       ReaperInv, KillerInv
<1>. QED  BY <1>1, <1>2, <1>3, <1>4 DEF KillStep

LEMMA TimeStepInv ==
    ASSUME SentinelInv, NEW t \in Tasks, TimeStep(t) \/ Prune(t)
    PROVE  SentinelInv'
<1>. USE DEF SentinelInv, TimeStep, FileAges, RecordAges, Prune
<1>1. TypeOK'
  BY DEF TypeOK
<1>2. WorkerInv' /\ CloserInv' /\ ReaperInv' /\ KillerInv'
  BY DEF WorkerInv, CloserInv, ReaperInv, KillerInv
<1>. QED  BY <1>1, <1>2

LEMMA NextInv == SentinelInv /\ [Next]_vars => SentinelInv'
<1>1. SentinelInv /\ Next => SentinelInv'
  BY WorkerStepInv, WatchStepInv, CompleteStepInv, DoneStepInv, ReapStepInv, KillStepInv,
     TimeStepInv DEF Next
<1>2. SentinelInv /\ UNCHANGED vars => SentinelInv'
  BY DEF vars, SentinelInv, TypeOK, WorkerInv, CloserInv, ReaperInv, KillerInv
<1>. QED  BY <1>1, <1>2

(* The variables are typed and the roles around a sentinel hold.            *)
THEOREM SentinelInvariant == Spec => []SentinelInv
BY InitInv, NextInv, PTL DEF Spec

(* Type correctness.                                                        *)
THEOREM TypeCorrect == Spec => []TypeOK
BY SentinelInvariant, PTL DEF SentinelInv

(* The worker and the `owrap done` that signalled it never complete the     *)
(* sentinel at once, with any number of tasks, senders, reapers and with    *)
(* `owrap kill` running.                                                    *)
THEOREM CompletionIsHandedOver == Spec => []OneCompleter
<1>1. SentinelInv => OneCompleter
  BY DEF SentinelInv, WorkerInv, CloserInv, OneCompleter, Completing
<1>. QED  BY <1>1, SentinelInvariant, PTL

-----------------------------------------------------------------------------
(* Who may take a sentinel away.                                            *)

Working(t) == stage[t] \in {"named", "listed", "running"}

(* Without `owrap kill`, its pass never starts.                             *)
VisibleInv == SentinelInv /\ VisibleWhileRunning /\ kill.at = "off"

LEMMA VisibleStep ==
    ASSUME CanKill = FALSE, VisibleInv, [Next]_vars
    PROVE  VisibleWhileRunning' /\ kill'.at = "off"
<1>. USE DEF VisibleInv, SentinelInv
<1>1. CASE UNCHANGED vars
  BY <1>1 DEF vars, VisibleWhileRunning
<1>2. ~KillStep
  BY DEF KillStep, KillBegin, KillUnreadable, KillSignal, KillWrite, KillUnlink, KillEnd
<1>3. ASSUME NEW t \in Tasks, WorkerStep(t) \/ Crash(t) \/ WatchStep(t) \/ Prune(t) \/ TimeStep(t)
      PROVE  VisibleWhileRunning' /\ kill' = kill
  BY <1>3 DEF TypeOK, VisibleWhileRunning, WorkerStep, WriteSentinel, RegisterRunningTask,
     StartRun, EndRun, Exit, Crash, WatchStep, WatchRead, WatchOpen, WatchWrite, Prune,
     TimeStep, FileAges, RecordAges
<1>4. ASSUME NEW p \in Procs, CompleteSentinel(p)
      PROVE  VisibleWhileRunning' /\ kill' = kill
  <2>1. /\ UNCHANGED <<stage, kill>> /\ at[p] \in Completing
        /\ file' = file \/ file' = [file EXCEPT ![job[p]] = "none"]
        /\ listed' = listed \/ listed' = [listed EXCEPT ![job[p]] = FALSE]
    BY <1>4 DEF CompleteSentinel, CompleteCheck, CompleteRead, CompleteMove, CompleteUnlink,
       ClearRunningTask, IncrementStats, UnlinkSentinel, Completing
  <2>2. job[p] \in Tasks /\ ~Working(job[p])
    BY <2>1, ProcsSplit DEF WorkerInv, CloserInv, Completing, Working
  <2>. QED  BY <2>1, <2>2 DEF TypeOK, VisibleWhileRunning, Working
<1>5. ASSUME NEW c \in Closers, DoneStep(c)
      PROVE  VisibleWhileRunning' /\ kill' = kill
  <2>1. ASSUME NEW t \in Tasks, DoneMatch(c, t)
        PROVE  UNCHANGED <<stage, file, listed, kill>>
    BY <2>1 DEF DoneMatch
  <2>2. CASE DoneAlready(c)
    BY <2>2 DEF DoneAlready, UnlinkSentinel, Alive, CloserInv, TypeOK, VisibleWhileRunning
  <2>3. CASE DoneSignal(c)
    BY <2>3 DEF DoneSignal, Terminated, Alive, CloserInv, TypeOK, VisibleWhileRunning
  <2>. QED  BY <1>5, <2>1, <2>2, <2>3 DEF DoneStep, VisibleWhileRunning
<1>6. ASSUME NEW r \in Reapers, ReapStep(r)
      PROVE  VisibleWhileRunning' /\ kill' = kill
  <2>1. /\ UNCHANGED <<stage, listed, kill>>
        /\ \/ file' = file
           \/ reap[r].at # "idle" /\ file' = [file EXCEPT ![reap[r].task] = "none"]
    BY <1>6 DEF ReapStep, ReapLook, ReapCheck, ReapWrite, ReapUnlink, UnlinkSentinel
  <2>. QED  BY <2>1 DEF ReaperInv, TypeOK, VisibleWhileRunning
<1>. QED  BY <1>1, <1>2, <1>3, <1>4, <1>5, <1>6 DEF Next

(* As long as nobody runs `owrap kill`, a task at work that was not         *)
(* signalled is always found in RUNNING_DIR and in the running map.         *)
THEOREM RunningTasksAreVisible ==
    ASSUME CanKill = FALSE
    PROVE  Spec => []VisibleWhileRunning
<1>1. Init => VisibleInv
  BY InitInv DEF VisibleInv, Init, VisibleWhileRunning
<1>2. VisibleInv /\ [Next]_vars => VisibleInv'
  BY VisibleStep, NextInv DEF VisibleInv
<1>. QED  BY <1>1, <1>2, PTL DEF Spec, VisibleInv

-----------------------------------------------------------------------------
(* What a worker recorded of its own run.                                   *)

(* Its record is the result of its run, written once; a reaper about to     *)
(* write found no such record.                                              *)
OutcomeInv ==
    /\ \A t \in Tasks : record[t] \in Outcomes => record[t] = result[t]
                                               /\ stage[t] \in {"finishing", "exited"}
    /\ \A r \in Reapers : reap[r].at = "write" => record[reap[r].task] \notin Outcomes

LEMMA OutcomeStep ==
    ASSUME SentinelInv, OutcomeInv, Next
    PROVE  /\ OutcomeInv'
           /\ \A t \in Tasks :
                record[t] \in Outcomes /\ record'[t] # record[t]
                  => record'[t] \in {"aborted", "killed"} \/ (record'[t] = "none" /\ old[t])
<1>. DEFINE Goal == /\ OutcomeInv'
                    /\ \A t \in Tasks :
                         record[t] \in Outcomes /\ record'[t] # record[t]
                           => \/ record'[t] \in {"aborted", "killed"}
                              \/ record'[t] = "none" /\ old[t]
<1>. USE DEF SentinelInv
<1>1. ASSUME NEW t \in Tasks, WorkerStep(t) \/ Crash(t) PROVE Goal
  BY <1>1 DEF TypeOK, OutcomeInv, WorkerStep, WriteSentinel, RegisterRunningTask, StartRun,
     EndRun, Exit, Crash, Alive, ReaperInv
<1>2. ASSUME NEW t \in Tasks, WatchStep(t) \/ TimeStep(t) PROVE Goal
  BY <1>2 DEF OutcomeInv, WatchStep, WatchRead, WatchOpen, WatchWrite, TimeStep, FileAges,
     RecordAges
<1>3. ASSUME NEW t \in Tasks, Prune(t) PROVE Goal
  BY <1>3 DEF TypeOK, OutcomeInv, Prune, Prunable, Outcomes, ReaperInv
<1>4. ASSUME NEW p \in Procs, CompleteSentinel(p) PROVE Goal
  <2>1. UNCHANGED <<stage, result, reap, job>>
    BY <1>4 DEF CompleteSentinel, CompleteCheck, CompleteRead, CompleteMove, CompleteUnlink,
       ClearRunningTask, IncrementStats
  <2>2. CASE record' = record
    BY <2>1, <2>2 DEF OutcomeInv
  <2>3. CASE CompleteMove(p)
    <3>1. CASE p \in Tasks
      <4>1. job[p] = p /\ stage[p] = "finishing"
        BY <2>3, <3>1 DEF CompleteMove, WorkerInv
      <4>2. record' = [record EXCEPT ![p] = result[p]]
        BY <2>3, <3>1, <4>1 DEF CompleteMove, Outcome
      <4>. QED  BY <2>1, <3>1, <4>1, <4>2 DEF TypeOK, OutcomeInv, ReaperInv
    <3>2. CASE p \in Closers
      <4>1. job[p] \in Tasks /\ record' = [record EXCEPT ![job[p]] = "aborted"]
        BY <2>3, <3>2, ProcsSplit DEF CompleteMove, Outcome, CloserInv
      <4>. QED  BY <2>1, <4>1 DEF TypeOK, OutcomeInv, Outcomes, ReaperInv
    <3>. QED  BY <3>1, <3>2, ProcsSplit
  <2>. QED  BY <1>4, <2>2, <2>3 DEF CompleteSentinel, CompleteCheck, CompleteRead,
       CompleteUnlink, ClearRunningTask, IncrementStats
<1>5. ASSUME NEW c \in Closers, DoneStep(c) PROVE Goal
  <2>1. /\ UNCHANGED <<record, result, reap>>
        /\ \A t \in Tasks : stage'[t] = stage[t] \/ stage'[t] = "exited"
                             \/ (stage[t] = "running" /\ stage'[t] = "exiting")
    BY <1>5 DEF DoneStep, DoneMatch, DoneAlready, DoneSignal, Terminated, CloserInv, TypeOK
  <2>. QED  BY <2>1 DEF OutcomeInv
<1>6. ASSUME NEW r \in Reapers, ReapStep(r) PROVE Goal
  <2>1. CASE ReapWrite(r)
    BY <2>1 DEF ReapWrite, Reaping, TypeOK, OutcomeInv, ReaperInv, Outcomes
  <2>2. CASE ReapCheck(r) \/ ReapUnlink(r) \/ \E t \in Tasks : ReapLook(r, t)
    BY <2>2 DEF ReapCheck, ReapUnlink, ReapLook, Reaping, TypeOK, OutcomeInv, ReaperInv,
       Outcomes
  <2>. QED  BY <1>6, <2>1, <2>2 DEF ReapStep
<1>7. CASE KillStep
  <2>1. /\ UNCHANGED <<result, reap>>
        /\ \A t \in Tasks : stage'[t] = stage[t] \/ stage'[t] = "exited"
                             \/ (stage[t] = "running" /\ stage'[t] = "exiting")
    BY <1>7 DEF KillStep, KillBegin, KillUnreadable, KillSignal, KillWrite, KillUnlink,
       KillEnd, Terminated, TypeOK
  <2>2. record' = record \/ \E t \in Tasks : record' = [record EXCEPT ![t] = "killed"]
    BY <1>7 DEF KillStep, KillBegin, KillUnreadable, KillSignal, KillWrite, KillUnlink,
       KillEnd, KillerInv
  <2>. QED  BY <2>1, <2>2 DEF TypeOK, OutcomeInv, ReaperInv, Outcomes
<1>. QED  BY <1>1, <1>2, <1>3, <1>4, <1>5, <1>6, <1>7 DEF Next

(* A worker's own outcome is never replaced by "reaped" and stays for the   *)
(* whole retention, whatever kills, aborts and reaps around it.             *)
THEOREM OwnOutcomesStand == Spec => OwnOutcomeStands
<1>. DEFINE A == \A t \in Tasks :
                   record[t] \in Outcomes /\ record'[t] # record[t]
                     => record'[t] \in {"aborted", "killed"} \/ (record'[t] = "none" /\ old[t])
<1>1. Init => OutcomeInv
  BY DEF Init, OutcomeInv, Outcomes
<1>2. SentinelInv /\ OutcomeInv /\ [Next]_vars => OutcomeInv' /\ [A]_vars
  <2>1. CASE Next
    BY <2>1, OutcomeStep
  <2>2. CASE UNCHANGED vars
    BY <2>2 DEF vars, OutcomeInv
  <2>. QED  BY <2>1, <2>2
<1>. QED  BY <1>1, <1>2, SentinelInvariant, PTL DEF Spec, OwnOutcomeStands

-----------------------------------------------------------------------------
(* How often a completion is counted.                                       *)

(* Who has found a sentinel to complete, and will count it.                 *)
Counting == {"read", "move", "unlink", "clear", "count"}

(* Without a watchdog a sentinel is torn by nobody and gone for good; who   *)
(* has taken it away, or found it taken away, counts it, and nobody does    *)
(* after it was counted.                                                    *)
CountInv ==
    \A t \in Tasks \ Watched :
       /\ file[t] # "torn" /\ watch[t] = "idle" /\ counted[t] <= 1
       /\ counted[t] # 0 => file[t] = "none" /\ stage[t] # "new"
       /\ \A p \in Procs : job[p] = t /\ at[p] \in Counting =>
             /\ counted[t] = 0
             /\ at[p] \in {"clear", "count"} => file[t] = "none"

(* Two processes that will count one sentinel are one.                      *)
LEMMA OneCounts ==
    ASSUME SentinelInv, \A c, d \in Closers : c = d,
           NEW p \in Procs, NEW q \in Procs, job[p] = job[q],
           at[p] \in Counting, at[q] \in Counting
    PROVE  p = q
<1>1. at[p] \in Completing /\ at[q] \in Completing
  BY DEF Counting, Completing
<1>2. CASE p \in Tasks /\ q \in Tasks
  BY <1>2 DEF SentinelInv, WorkerInv
<1>3. CASE p \in Tasks /\ q \in Closers
  BY <1>1, <1>3, ProcsSplit DEF SentinelInv, WorkerInv, CloserInv, Completing
<1>4. CASE p \in Closers /\ q \in Tasks
  BY <1>1, <1>4, ProcsSplit DEF SentinelInv, WorkerInv, CloserInv, Completing
<1>. QED  BY <1>2, <1>3, <1>4, ProcsSplit

(* A step that counts nothing, writes no sentinel and sends nobody past the *)
(* look at it keeps the invariant.                                          *)
LEMMA CountsStay ==
    ASSUME SentinelInv, CountInv,
           \A t \in Tasks \ Watched :
              /\ counted'[t] = counted[t] /\ watch'[t] = "idle"
              /\ file'[t] \in {file[t], "none"} /\ (stage[t] # "new" => stage'[t] # "new"),
           \A p \in Procs : at'[p] \in Counting => at'[p] = at[p] /\ job'[p] = job[p]
    PROVE  CountInv'
BY DEF CountInv, Counting

LEMMA CountStep ==
    ASSUME \A c, d \in Closers : c = d, SentinelInv, CountInv, Next
    PROVE  CountInv'
<1>. USE DEF SentinelInv
<1>1. ASSUME NEW t \in Tasks, WorkerStep(t) \/ Crash(t) PROVE CountInv'
  <2>1. CASE WriteSentinel(t)
    <3>1. stage[t] = "new" /\ file' = [file EXCEPT ![t] = "whole"]
          /\ stage' = [stage EXCEPT ![t] = "named"] /\ UNCHANGED <<counted, watch, at, job>>
      BY <2>1 DEF WriteSentinel
    <3>2. \A p \in Procs : at[p] \in Counting => job[p] # t
      BY <3>1, ProcsSplit DEF WorkerInv, CloserInv, Counting
    <3>. QED  BY <3>1, <3>2 DEF CountInv, TypeOK
  <2>2. CASE ~WriteSentinel(t)
    <3>1. /\ UNCHANGED <<counted, job, file>>
          /\ \A s \in Tasks : watch'[s] \in {watch[s], "idle"}
                              /\ (stage[s] # "new" => stage'[s] # "new")
          /\ \A p \in Procs : at'[p] \in {at[p], "idle", "complete"}
      BY <1>1, <2>2, ProcsSplit DEF WorkerStep, RegisterRunningTask, StartRun, EndRun, Exit, Crash,
         TypeOK
    <3>. QED  BY <3>1, CountsStay DEF CountInv, Counting
  <2>. QED  BY <2>1, <2>2
<1>2. ASSUME NEW t \in Tasks, WatchStep(t) PROVE CountInv'
  <2>1. t \in Watched
    BY <1>2 DEF WatchStep, WatchRead, WatchOpen, WatchWrite, CountInv
  <2>2. /\ UNCHANGED <<counted, job, at, stage>>
        /\ \A s \in Tasks \ {t} : file'[s] = file[s] /\ watch'[s] = watch[s]
    BY <1>2 DEF WatchStep, WatchRead, WatchOpen, WatchWrite, TypeOK
  <2>. QED  BY <2>1, <2>2, CountsStay DEF CountInv
<1>3. ASSUME NEW t \in Tasks, Prune(t) \/ TimeStep(t) PROVE CountInv'
  BY <1>3 DEF Prune, TimeStep, FileAges, RecordAges, CountInv
<1>4. ASSUME NEW p \in Procs, CompleteSentinel(p) PROVE CountInv'
  <2>. DEFINE t == job[p]
  <2>1. t \in Tasks /\ UNCHANGED <<stage, job>>
    BY <1>4, ProcsSplit DEF CompleteSentinel, CompleteCheck, CompleteRead, CompleteMove,
       CompleteUnlink, ClearRunningTask, IncrementStats, WorkerInv, CloserInv
  <2>2. CASE t \in Watched
    <3>1. /\ \A s \in Tasks \ {t} : /\ counted'[s] = counted[s]
                                    /\ file'[s] = file[s] /\ watch'[s] = watch[s]
          /\ \A q \in Procs \ {p} : at'[q] = at[q]
      BY <1>4, <2>1 DEF CompleteSentinel, CompleteCheck, CompleteRead, CompleteMove, CompleteUnlink,
         ClearRunningTask, IncrementStats, UnlinkSentinel, Orphaned, Goto, TypeOK
    <3>. QED  BY <2>1, <2>2, <3>1 DEF CountInv
  <2>3. CASE t \notin Watched
    <3>1. CASE CompleteCheck(p)
      BY <2>1, <2>3, <3>1 DEF CompleteCheck, Goto, CountInv, TypeOK, Counting
    <3>2. CASE CompleteRead(p)
      BY <2>1, <2>3, <3>2 DEF CompleteRead, Goto, CountInv, TypeOK, Counting
    <3>3. CASE CompleteMove(p)
      BY <2>1, <2>3, <3>3 DEF CompleteMove, Goto, CountInv, TypeOK, Counting
    <3>4. CASE CompleteUnlink(p)
      BY <2>1, <2>3, <3>4 DEF CompleteUnlink, UnlinkSentinel, Orphaned, Goto, CountInv, TypeOK,
         Counting
    <3>5. CASE ClearRunningTask(p)
      BY <2>1, <2>3, <3>5 DEF ClearRunningTask, Goto, CountInv, TypeOK, Counting
    <3>6. CASE IncrementStats(p)
      <4>1. at[p] = "count" /\ at' = [at EXCEPT ![p] = "idle"] /\ UNCHANGED <<file, watch>>
        BY <3>6 DEF IncrementStats, Goto
      <4>2. \A q \in Procs \ {p} : at[q] \in Counting => job[q] # t
        BY <4>1, OneCounts DEF Counting
      <4>3. counted[t] = 0 /\ file[t] = "none" /\ stage[t] # "new"
        <5>1. counted[t] = 0 /\ file[t] = "none"
          BY <2>1, <2>3, <4>1 DEF CountInv, Counting
        <5>2. stage[t] # "new"
          BY <4>1, ProcsSplit DEF WorkerInv, CloserInv
        <5>. QED  BY <5>1, <5>2
      <4>4. counted'[t] <= 1 /\ \A s \in Tasks \ {t} : counted'[s] = counted[s]
        BY <2>1, <3>6, <4>3 DEF IncrementStats, TypeOK
      <4>. HIDE DEF t
      <4>. QED  BY <2>1, <4>1, <4>2, <4>3, <4>4 DEF CountInv, TypeOK, Counting, t
    <3>. QED  BY <1>4, <3>1, <3>2, <3>3, <3>4, <3>5, <3>6 DEF CompleteSentinel
  <2>. QED  BY <2>2, <2>3
<1>5. ASSUME NEW c \in Closers, DoneStep(c) PROVE CountInv'
  <2>1. ASSUME NEW t \in Tasks, DoneMatch(c, t) PROVE CountInv'
    BY <2>1, ProcsSplit DEF DoneMatch, Goto, CountInv, TypeOK, Counting
  <2>2. CASE DoneAlready(c)
    <3>1. /\ UNCHANGED <<counted, stage, job>> /\ at' = [at EXCEPT ![c] = "idle"]
          /\ \A t \in Tasks : file'[t] \in {file[t], "none"}
          /\ \A t \in Tasks : watch[t] = "idle" => watch'[t] = "idle"
      BY <2>2 DEF DoneAlready, UnlinkSentinel, Orphaned, Goto, TypeOK
    <3>. QED  BY <3>1, ProcsSplit, CountsStay DEF CountInv, TypeOK, Counting
  <2>3. CASE DoneSignal(c)
    <3>1. /\ UNCHANGED <<counted, job, file>>
          /\ \A q \in Procs : at'[q] \in {at[q], "idle", "complete"}
          /\ \A t \in Tasks : /\ watch'[t] \in {watch[t], "idle"}
                              /\ stage[t] # "new" => stage'[t] # "new"
      BY <2>3, ProcsSplit DEF DoneSignal, Terminated, TypeOK
    <3>. QED  BY <3>1, CountsStay DEF CountInv, Counting
  <2>. QED  BY <1>5, <2>1, <2>2, <2>3 DEF DoneStep
<1>6. ASSUME NEW r \in Reapers, ReapStep(r) PROVE CountInv'
  <2>1. /\ UNCHANGED <<counted, job, at, stage>>
        /\ \A t \in Tasks : file'[t] \in {file[t], "none"}
        /\ \A t \in Tasks : watch[t] = "idle" => watch'[t] = "idle"
    BY <1>6 DEF ReapStep, ReapLook, ReapCheck, ReapWrite, ReapUnlink, UnlinkSentinel, Orphaned,
       TypeOK
  <2>. QED  BY <2>1, CountsStay DEF CountInv
<1>7. CASE KillStep
  <2>1. /\ UNCHANGED <<counted, job>>
        /\ \A t \in Tasks : file'[t] \in {file[t], "none"}
        /\ \A t \in Tasks : watch[t] = "idle" => watch'[t] = "idle"
        /\ \A t \in Tasks : stage[t] # "new" => stage'[t] # "new"
    <3>1. CASE KillBegin \/ KillWrite \/ KillEnd
      BY <3>1 DEF KillBegin, KillWrite, KillEnd
    <3>2. CASE KillUnlink
      BY <3>2 DEF KillUnlink, UnlinkSentinel, Orphaned, TypeOK
    <3>3. ASSUME NEW t \in Tasks, KillUnreadable(t)
          PROVE  /\ UNCHANGED <<counted, job, stage>>
                 /\ file' = [file EXCEPT ![t] = "none"] /\ watch' = Orphaned(t)
      BY <3>3 DEF KillUnreadable, UnlinkSentinel
    <3>4. ASSUME NEW t \in Tasks, KillSignal(t)
          PROVE  /\ UNCHANGED <<counted, job, file>> /\ stage[t] # "new"
                 /\ UNCHANGED <<stage, watch>> \/ Terminated(t)
      BY <3>4 DEF KillSignal, WorkerInv
    <3>. QED  BY <1>7, <3>1, <3>2, <3>3, <3>4 DEF KillStep, Terminated, Orphaned, TypeOK
  <2>2. \A q \in Procs : at'[q] \in {at[q], "idle"}
    <3>1. UNCHANGED at \/ \E t \in Tasks : at' = [at EXCEPT ![t] = "idle"]
      BY <1>7 DEF KillStep, KillBegin, KillUnreadable, KillSignal, KillWrite, KillUnlink,
         KillEnd, Goto
    <3>. QED  BY <3>1 DEF TypeOK
  <2>. QED  BY <2>1, <2>2, CountsStay DEF CountInv, Counting
<1>. QED  BY <1>1, <1>2, <1>3, <1>4, <1>5, <1>6, <1>7 DEF Next

(* However SIGTERM, cleanup, `owrap kill` and a repeated `owrap done`       *)
(* interleave, the completion of a task without a watchdog is counted once  *)
(* at most.  Two `owrap done` at a time would both count it, so there is    *)
(* one.                                                                     *)
THEOREM CompletionsCountOnce ==
    ASSUME \A c, d \in Closers : c = d
    PROVE  Spec => []CountedOnce
<1>1. Init => CountInv
  BY ProcsSplit DEF Init, CountInv, Counting
<1>2. SentinelInv /\ CountInv /\ [Next]_vars => CountInv'
  <2>1. SentinelInv /\ CountInv /\ Next => CountInv'
    BY CountStep
  <2>2. CountInv /\ UNCHANGED vars => CountInv'
    BY DEF vars, CountInv
  <2>. QED  BY <2>1, <2>2
<1>3. CountInv => CountedOnce
  BY DEF CountInv, CountedOnce
<1>. QED  BY <1>1, <1>2, <1>3, SentinelInvariant, PTL DEF Spec
=============================================================================
