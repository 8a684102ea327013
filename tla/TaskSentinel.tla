---------------------------- MODULE TaskSentinel ----------------------------
(* The sentinel file of a dispatched task: written by the worker, rewritten *)
(* by its watchdog thread, moved to the recently-done records by whoever    *)
(* completes it (the worker, `owrap done`), reaped when its process died,   *)
(* and removed by `owrap kill`.  No lock covers any of it, so every read,   *)
(* write and unlink is a step of its own:                                   *)
(* src/owrap/dispatch/work.py, kind/dispatch/task.py, kind/run/daemon.py,   *)
(* utils/dispatch/watchdog.py, utils/dispatch/terminal.py, ctx/state.py.    *)
EXTENDS Naturals, FiniteSets

CONSTANTS
    Tasks,       \* tasks; each is dispatched once and owns one sentinel name
    Closers,     \* processes running `owrap done <target>`, again and again
    Reapers,     \* processes running cleanup_recently_done, again and again
    Watched,     \* the tasks with a watchdog (no disablewd)
    CanKill,     \* whether somebody runs `owrap kill`
    CountBound   \* completions of one task are told apart up to this many

NoTask == "no task"

ASSUME NamesAssumption ==
    Tasks \intersect Closers = {} /\ Watched \subseteq Tasks /\ NoTask \notin Tasks
ASSUME BoundAssumption == CanKill \in BOOLEAN /\ CountBound \in Nat \ {0}

VARIABLES
    file,     \* RUNNING_DIR/<name>.json: "none", "whole" or "torn" (truncated)
    young,    \* the file's mtime is less than 5 s old
    record,   \* RECENTLY_DONE_DIR/<name>.json, by its outcome
    old,      \* the record is older than RECENT_TASK_RETENTION_S
    listed,   \* the task is in its session's running map (ctx_state.json)
    counted,  \* times the stats file counted the task as dispatched
    stage,    \* the worker
    result,   \* the outcome its run had
    watch,    \* the watchdog thread's write_sentinel_health
    at,       \* where a process is in completing a sentinel
    job,      \* whose sentinel that is
    reap,     \* where each reaper is, and with which task
    kill      \* `owrap kill`'s pass over RUNNING_DIR

vars == <<file, young, record, old, listed, counted, stage, result, watch,
          at, job, reap, kill>>

-----------------------------------------------------------------------------
Procs == Tasks \union Closers
Outcomes == {"ok", "failed"}

Alive(t) == stage[t] \notin {"new", "exited"}

(* The file disappears: a thread that has it open writes to nothing.        *)
Orphaned(t) == [watch EXCEPT ![t] = IF @ = "open" THEN "gone" ELSE @]
UnlinkSentinel(t) ==
    /\ file' = [file EXCEPT ![t] = "none"]
    /\ watch' = Orphaned(t)

Init ==
    /\ file = [t \in Tasks |-> "none"]
    /\ young = [t \in Tasks |-> FALSE]
    /\ record = [t \in Tasks |-> "none"]
    /\ old = [t \in Tasks |-> FALSE]
    /\ listed = [t \in Tasks |-> FALSE]
    /\ counted = [t \in Tasks |-> 0]
    /\ stage = [t \in Tasks |-> "new"]
    /\ result = [t \in Tasks |-> "failed"]
    /\ watch = [t \in Tasks |-> "idle"]
    /\ at = [p \in Procs |-> "idle"]
    /\ job = [p \in Procs |-> IF p \in Tasks THEN p ELSE NoTask]
    /\ reap = [r \in Reapers |-> [at |-> "idle", task |-> NoTask]]
    /\ kill = [at |-> "off", task |-> NoTask, todo |-> {}]

-----------------------------------------------------------------------------
(* The worker.                                                              *)

(* write_sentinel: the file appears in one rename ...                       *)
WriteSentinel(t) ==
    /\ stage[t] = "new"
    /\ stage' = [stage EXCEPT ![t] = "named"]
    /\ file' = [file EXCEPT ![t] = "whole"]
    /\ young' = [young EXCEPT ![t] = TRUE]
    /\ UNCHANGED <<record, old, listed, counted, result, watch, at, job, reap, kill>>

(* ... and then the running map gets the task.                              *)
RegisterRunningTask(t) ==
    /\ stage[t] = "named"
    /\ stage' = [stage EXCEPT ![t] = "listed"]
    /\ listed' = [listed EXCEPT ![t] = TRUE]
    /\ UNCHANGED <<file, young, record, old, counted, result, watch, at, job, reap, kill>>

(* The SIGTERM handler is installed, the watchdog and the run start.        *)
StartRun(t) ==
    /\ stage[t] = "listed"
    /\ stage' = [stage EXCEPT ![t] = "running"]
    /\ UNCHANGED <<file, young, record, old, listed, counted, result, watch,
                   at, job, reap, kill>>

(* The run is over and the watchdog joined; finish_dispatch has an outcome. *)
EndRun(t) ==
    /\ stage[t] = "running" /\ watch[t] = "idle"
    /\ \E o \in Outcomes : result' = [result EXCEPT ![t] = o]
    /\ stage' = [stage EXCEPT ![t] = "finishing"]
    /\ at' = [at EXCEPT ![t] = "complete"]
    /\ UNCHANGED <<file, young, record, old, listed, counted, watch, job, reap, kill>>

(* The worker has completed its sentinel (or, after SIGTERM, has left it to *)
(* the sender: `externally_killed`), and exits.                             *)
Exit(t) ==
    /\ \/ stage[t] = "finishing" /\ at[t] = "idle"
       \/ stage[t] = "exiting" /\ watch[t] = "idle"
    /\ stage' = [stage EXCEPT ![t] = "exited"]
    /\ UNCHANGED <<file, young, record, old, listed, counted, result, watch,
                   at, job, reap, kill>>

(* SIGTERM.  During the run the handler unwinds through the `finally`, which *)
(* joins the watchdog and completes nothing; before the run and inside the   *)
(* `finally` the process just ends, its daemon thread with it.               *)
Terminated(t) ==
    /\ stage' = [stage EXCEPT ![t] = IF @ = "running" THEN "exiting" ELSE "exited"]
    /\ watch' = [watch EXCEPT ![t] = IF stage[t] = "running" THEN @ ELSE "idle"]

(* The worker dies without a word (SIGKILL, power loss).                    *)
Crash(t) ==
    /\ Alive(t)
    /\ stage' = [stage EXCEPT ![t] = "exited"]
    /\ watch' = [watch EXCEPT ![t] = "idle"]
    /\ at' = [at EXCEPT ![t] = "idle"]
    /\ UNCHANGED <<file, young, record, old, listed, counted, result, job, reap, kill>>

-----------------------------------------------------------------------------
(* write_sentinel_health, in the watchdog's thread: read the JSON, truncate *)
(* the file, or create it anew if it is gone, and write it back.            *)

WatchRead(t) ==
    /\ t \in Watched /\ stage[t] \in {"running", "exiting"}
    /\ watch[t] = "idle" /\ file[t] = "whole"
    /\ watch' = [watch EXCEPT ![t] = "read"]
    /\ UNCHANGED <<file, young, record, old, listed, counted, stage, result,
                   at, job, reap, kill>>

WatchOpen(t) ==
    /\ watch[t] = "read"
    /\ file' = [file EXCEPT ![t] = "torn"]
    /\ young' = [young EXCEPT ![t] = TRUE]
    /\ watch' = [watch EXCEPT ![t] = "open"]
    /\ UNCHANGED <<record, old, listed, counted, stage, result, at, job, reap, kill>>

WatchWrite(t) ==
    /\ watch[t] \in {"open", "gone"}
    /\ file' = [file EXCEPT ![t] = IF watch[t] = "open" THEN "whole" ELSE @]
    /\ watch' = [watch EXCEPT ![t] = "idle"]
    /\ UNCHANGED <<young, record, old, listed, counted, stage, result, at, job, reap, kill>>

-----------------------------------------------------------------------------
(* complete_sentinel, by the worker itself or by `owrap done`.  An exception *)
(* on the way skips to the stats, which are counted all the same.            *)

Goto(p, where) == at' = [at EXCEPT ![p] = where]

(* sentinel_path.exists(): a missing file ends the call.                    *)
CompleteCheck(p) ==
    /\ at[p] = "complete"
    /\ Goto(p, IF file[job[p]] = "none" THEN "idle" ELSE "read")
    /\ UNCHANGED <<file, young, record, old, listed, counted, stage, result,
                   watch, job, reap, kill>>

CompleteRead(p) ==
    /\ at[p] = "read"
    /\ Goto(p, IF file[job[p]] = "whole" THEN "move" ELSE "count")
    /\ UNCHANGED <<file, young, record, old, listed, counted, stage, result,
                   watch, job, reap, kill>>

(* The record is renamed into place, whatever was there.                    *)
(* Mutant: an `owrap done` that records a bare exit code.                   *)
OutcomeCode(p) == IF p \in Tasks THEN result[p] ELSE "143"
Outcome(p) == IF p \in Tasks THEN result[p] ELSE "aborted"
CompleteMove(p) ==
    /\ at[p] = "move"
    /\ record' = [record EXCEPT ![job[p]] = Outcome(p)]
    /\ old' = [old EXCEPT ![job[p]] = FALSE]
    /\ Goto(p, "unlink")
    /\ UNCHANGED <<file, young, listed, counted, stage, result, watch, job, reap, kill>>

CompleteUnlink(p) ==
    /\ at[p] = "unlink"
    /\ Goto(p, IF file[job[p]] = "none" THEN "count" ELSE "clear")
    /\ UnlinkSentinel(job[p])
    /\ UNCHANGED <<young, record, old, listed, counted, stage, result, job, reap, kill>>

ClearRunningTask(p) ==
    /\ at[p] = "clear"
    /\ listed' = [listed EXCEPT ![job[p]] = FALSE]
    /\ Goto(p, "count")
    /\ UNCHANGED <<file, young, record, old, counted, stage, result, watch, job, reap, kill>>

IncrementStats(p) ==
    /\ at[p] = "count"
    /\ counted' = [counted EXCEPT ![job[p]] = IF @ < CountBound THEN @ + 1 ELSE @]
    /\ Goto(p, "idle")
    /\ UNCHANGED <<file, young, record, old, listed, stage, result, watch, job, reap, kill>>

CompleteSentinel(p) ==
    \/ CompleteCheck(p) \/ CompleteRead(p) \/ CompleteMove(p)
    \/ CompleteUnlink(p) \/ ClearRunningTask(p) \/ IncrementStats(p)

-----------------------------------------------------------------------------
(* Task.done: match a readable sentinel, signal its process, complete it.   *)

DoneMatch(c, t) ==
    /\ at[c] = "idle" /\ file[t] = "whole"
    /\ Goto(c, "signal")
    /\ job' = [job EXCEPT ![c] = t]
    /\ UNCHANGED <<file, young, record, old, listed, counted, stage, result,
                   watch, reap, kill>>

(* The process is gone already: drop the sentinel.                          *)
DoneAlready(c) ==
    /\ at[c] = "signal" /\ ~Alive(job[c])
    /\ UnlinkSentinel(job[c])
    /\ Goto(c, "idle")
    /\ UNCHANGED <<young, record, old, listed, counted, stage, result, job, reap, kill>>

(* Mutant: the signalled worker completes its sentinel as well.             *)
DoneSignalNoHandover(c) ==
    /\ at[c] = "signal" /\ Alive(job[c])
    /\ Terminated(job[c])
    /\ at' = [at EXCEPT ![job[c]] = IF stage[job[c]] = "running" THEN "complete" ELSE "idle",
                        ![c] = "complete"]
    /\ UNCHANGED <<file, young, record, old, listed, counted, result, job, reap, kill>>
DoneSignal(c) ==
    /\ at[c] = "signal" /\ Alive(job[c])
    /\ Terminated(job[c])
    /\ at' = [at EXCEPT ![job[c]] = "idle", ![c] = "complete"]
    /\ UNCHANGED <<file, young, record, old, listed, counted, result, job, reap, kill>>

-----------------------------------------------------------------------------
(* cleanup_recently_done.                                                   *)

Reaping(r, where, t) == reap' = [reap EXCEPT ![r] = [at |-> where, task |-> t]]

(* A readable sentinel of a dead process, last written 5 s ago or more.     *)
(* Mutants: no liveness check; the grace period inverted.                   *)
ReapLookAny(r, t) ==
    /\ reap[r].at = "idle"
    /\ file[t] = "whole" /\ ~young[t]
    /\ Reaping(r, "check", t)
    /\ UNCHANGED <<file, young, record, old, listed, counted, stage, result,
                   watch, at, job, kill>>
ReapLookRecent(r, t) ==
    /\ reap[r].at = "idle"
    /\ file[t] = "whole" /\ ~Alive(t) /\ young[t]
    /\ Reaping(r, "check", t)
    /\ UNCHANGED <<file, young, record, old, listed, counted, stage, result,
                   watch, at, job, kill>>
ReapLook(r, t) ==
    /\ reap[r].at = "idle"
    /\ file[t] = "whole" /\ ~Alive(t) /\ ~young[t]
    /\ Reaping(r, "check", t)
    /\ UNCHANGED <<file, young, record, old, listed, counted, stage, result,
                   watch, at, job, kill>>

(* "Already completed; don't clobber."                                      *)
(* Mutant: no look at the record.                                           *)
ReapCheckBlind(r) ==
    /\ reap[r].at = "check"
    /\ Reaping(r, "write", reap[r].task)
    /\ UNCHANGED <<file, young, record, old, listed, counted, stage, result,
                   watch, at, job, kill>>
ReapCheck(r) ==
    /\ reap[r].at = "check"
    /\ LET t == reap[r].task
       IN  IF record[t] # "none"
           THEN UnlinkSentinel(t) /\ Reaping(r, "idle", NoTask)
           ELSE UNCHANGED <<file, watch>> /\ Reaping(r, "write", t)
    /\ UNCHANGED <<young, record, old, listed, counted, stage, result, at, job, kill>>

ReapWrite(r) ==
    /\ reap[r].at = "write"
    /\ record' = [record EXCEPT ![reap[r].task] = "reaped"]
    /\ old' = [old EXCEPT ![reap[r].task] = FALSE]
    /\ Reaping(r, "unlink", reap[r].task)
    /\ UNCHANGED <<file, young, listed, counted, stage, result, watch, at, job, kill>>

ReapUnlink(r) ==
    /\ reap[r].at = "unlink"
    /\ UnlinkSentinel(reap[r].task)
    /\ Reaping(r, "idle", NoTask)
    /\ UNCHANGED <<young, record, old, listed, counted, stage, result, at, job, kill>>

(* The second loop: a record past the retention goes.  `owrap kill` writes  *)
(* no "finished" time, which counts as 1970.                                *)
Prunable(t) == old[t] \/ record[t] = "killed"
Prune(t) ==
    /\ Reapers # {} /\ record[t] # "none" /\ Prunable(t)
    /\ record' = [record EXCEPT ![t] = "none"]
    /\ UNCHANGED <<file, young, old, listed, counted, stage, result, watch,
                   at, job, reap, kill>>

-----------------------------------------------------------------------------
(* Daemon._kill_running_tasks: one pass over the sentinels found at first.  *)

KillBegin ==
    /\ CanKill /\ kill.at = "off"
    /\ kill' = [at |-> "scan", task |-> NoTask, todo |-> {t \in Tasks : file[t] # "none"}]
    /\ UNCHANGED <<file, young, record, old, listed, counted, stage, result,
                   watch, at, job, reap>>

(* An unreadable sentinel is unlinked and its process left alone.           *)
KillUnreadable(t) ==
    /\ kill.at = "scan" /\ t \in kill.todo /\ file[t] # "whole"
    /\ UnlinkSentinel(t)
    /\ kill' = [kill EXCEPT !.todo = @ \ {t}]
    /\ UNCHANGED <<young, record, old, listed, counted, stage, result, at, job, reap>>

KillSignal(t) ==
    /\ kill.at = "scan" /\ t \in kill.todo /\ file[t] = "whole"
    /\ kill' = [kill EXCEPT !.at = "write", !.task = t]
    /\ IF Alive(t) THEN Terminated(t) /\ Goto(t, "idle")
                   ELSE UNCHANGED <<stage, watch, at>>
    /\ UNCHANGED <<file, young, record, old, listed, counted, result, job, reap>>

KillWrite ==
    /\ kill.at = "write"
    /\ record' = [record EXCEPT ![kill.task] = "killed"]
    /\ old' = [old EXCEPT ![kill.task] = FALSE]
    /\ kill' = [kill EXCEPT !.at = "unlink"]
    /\ UNCHANGED <<file, young, listed, counted, stage, result, watch, at, job, reap>>

KillUnlink ==
    /\ kill.at = "unlink"
    /\ UnlinkSentinel(kill.task)
    /\ kill' = [at |-> "scan", task |-> NoTask, todo |-> kill.todo \ {kill.task}]
    /\ UNCHANGED <<young, record, old, listed, counted, stage, result, at, job, reap>>

KillEnd ==
    /\ kill.at = "scan" /\ kill.todo = {}
    /\ kill' = [kill EXCEPT !.at = "off"]
    /\ UNCHANGED <<file, young, record, old, listed, counted, stage, result,
                   watch, at, job, reap>>

-----------------------------------------------------------------------------
(* Time.                                                                    *)

FileAges(t) ==
    /\ young[t]
    /\ young' = [young EXCEPT ![t] = FALSE]
    /\ UNCHANGED <<file, record, old, listed, counted, stage, result, watch,
                   at, job, reap, kill>>

RecordAges(t) ==
    /\ record[t] # "none" /\ ~old[t]
    /\ old' = [old EXCEPT ![t] = TRUE]
    /\ UNCHANGED <<file, young, record, listed, counted, stage, result, watch,
                   at, job, reap, kill>>

-----------------------------------------------------------------------------
WorkerStep(t) ==
    \/ WriteSentinel(t) \/ RegisterRunningTask(t) \/ StartRun(t) \/ EndRun(t)
    \/ Exit(t)
WatchStep(t) == WatchRead(t) \/ WatchOpen(t) \/ WatchWrite(t)
DoneStep(c) == (\E t \in Tasks : DoneMatch(c, t)) \/ DoneAlready(c) \/ DoneSignal(c)
ReapStep(r) ==
    (\E t \in Tasks : ReapLook(r, t)) \/ ReapCheck(r) \/ ReapWrite(r) \/ ReapUnlink(r)
KillStep ==
    \/ KillBegin \/ KillWrite \/ KillUnlink \/ KillEnd
    \/ \E t \in Tasks : KillUnreadable(t) \/ KillSignal(t)
TimeStep(t) == FileAges(t) \/ RecordAges(t)

Next ==
    \/ \E t \in Tasks : WorkerStep(t) \/ WatchStep(t) \/ Crash(t) \/ Prune(t) \/ TimeStep(t)
    \/ \E p \in Procs : CompleteSentinel(p)
    \/ \E c \in Closers : DoneStep(c)
    \/ \E r \in Reapers : ReapStep(r)
    \/ KillStep

Spec == Init /\ [][Next]_vars

(* Processes finish what they began, cleanup is run now and then (every     *)
(* dispatch and every `owrap stat` starts with it), and time passes.        *)
FairSpec ==
    /\ Spec
    /\ \A t \in Tasks : /\ WF_vars(stage[t] # "new" /\ WorkerStep(t))
                        /\ WF_vars(WatchOpen(t) \/ WatchWrite(t))
                        /\ WF_vars(TimeStep(t))
    /\ \A p \in Procs : WF_vars(CompleteSentinel(p))
    /\ \A c \in Closers : WF_vars(DoneAlready(c) \/ DoneSignal(c))
    /\ \A r \in Reapers : WF_vars(ReapStep(r))

-----------------------------------------------------------------------------
(* Every variable has its type.                                             *)
TypeOK ==
    /\ file \in [Tasks -> {"none", "whole", "torn"}]
    /\ young \in [Tasks -> BOOLEAN]
    /\ record \in [Tasks -> {"none", "aborted", "reaped", "killed"} \union Outcomes]
    /\ old \in [Tasks -> BOOLEAN]
    /\ listed \in [Tasks -> BOOLEAN]
    /\ counted \in [Tasks -> 0 .. CountBound]
    /\ stage \in [Tasks -> {"new", "named", "listed", "running", "finishing",
                            "exiting", "exited"}]
    /\ result \in [Tasks -> Outcomes]
    /\ watch \in [Tasks -> {"idle", "read", "open", "gone"}]
    /\ at \in [Procs -> {"idle", "signal", "complete", "read", "move", "unlink",
                         "clear", "count"}]
    /\ job \in [Procs -> Tasks \union {NoTask}]
    /\ reap \in [Reapers -> [at : {"idle", "check", "write", "unlink"},
                             task : Tasks \union {NoTask}]]
    /\ kill \in [at : {"off", "scan", "write", "unlink"},
                 task : Tasks \union {NoTask}, todo : SUBSET Tasks]

(* A task at work, not yet signalled, is in RUNNING_DIR and, once entered,  *)
(* in its session's running map for everybody to see: no reaper and no late *)
(* `owrap done` takes it out of either.                                     *)
VisibleWhileRunning ==
    \A t \in Tasks :
       /\ stage[t] \in {"named", "listed", "running"} => file[t] # "none"
       /\ stage[t] \in {"listed", "running"} => listed[t]

(* The `externally_killed` hand-over (work.py:174-178): the worker and the  *)
(* `owrap done` that signalled it never complete the sentinel at once, and  *)
(* a worker that was signalled has left it to the sender.                   *)
Completing == {"complete", "read", "move", "unlink", "clear", "count"}
OneCompleter ==
    \A t \in Tasks, c \in Closers :
       at[t] \in Completing => ~(at[c] \in Completing /\ job[c] = t)

(* A worker's own outcome is never replaced by "reaped", and it stays in    *)
(* the recently-done records for the whole retention.                       *)
OwnOutcomeStands ==
    [][\A t \in Tasks :
          record[t] \in Outcomes /\ record'[t] # record[t]
             => record'[t] \in {"aborted", "killed"} \/ (record'[t] = "none" /\ old[t])]_vars

(* A task's completion is counted in the stats at most once, however        *)
(* SIGTERM, cleanup and a repeated `owrap done` interleave.  A watchdog can *)
(* bring a completed sentinel back, and two `owrap done` of one task both   *)
(* count it: the runs keep those two out.                                   *)
CountedOnce == \A t \in Tasks \ Watched : counted[t] <= 1

(* The readable sentinel of a dead process leaves RUNNING_DIR.              *)
Stale(t) == stage[t] = "exited" /\ file[t] = "whole"
StaleIsReaped == \A t \in Tasks : Stale(t) ~> file[t] = "none"

=============================================================================
