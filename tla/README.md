# A verification development of owrap

owrap runs coding-agent work in the background for a person who plans in Claude
or Codex: it keeps a pool of `opencode serve` processes, dispatches tasks and
reads to them, watches them, and keeps each session's context and project
records up to date by having a model summarise what was said. Almost all of its
state is in files, touched by many short-lived processes (every `owrap` command,
every dispatch, every hook) and one daemon. Some files have a lock, several have
none, and most locks cover one read or write and not the decision taken between
them. That is what these modules are about.

Everything here is translated from `src/owrap`; line numbers in comments and in
`PROJECT.json` refer to it.


## 1. Inventory

| Component | State it keeps | Operations | Concurrency and failure |
|---|---|---|---|
| Server pool (`utils/dispatch/pool.py`) | `runtime/pool.json`: per server url, pid, reserved, request count, silence count, draining, last_used | `pick_server`, `release_server`, `update_last_used`, `record_unresponsive`, `record_responsive`, `get_pool`, `shutdown_idle`, `ensure_min_servers` | one file lock per call; a pick takes it twice; servers die, hang and fail to start; load is counted from other processes' sentinels |
| Server start (`dispatch/manager.py`) | the process on each port, manager state file | start, stop, kill the port's occupant, housekeeping | a start may fail and leave the server behind |
| Task dispatch (`kind/dispatch/task.py`) | one process per dispatch | start, done, wait | killed at any point; SIGTERM hand-over to `owrap done` |
| Read dispatch (`kind/dispatch/read.py`) | the same, without URL and watchdog | start | as above |
| Sentinels and stats (`dispatch/work.py`) | `RUNNING_DIR`, `RECENTLY_DONE_DIR`, stats file | `write_sentinel`, `complete_sentinel`, `cleanup_recently_done` | no lock on sentinels; rename, unlink and rewrite race |
| Watchdog (`utils/dispatch/watchdog.py`) | a thread per dispatch, its clocks, the sentinel's health | watch the log, report silence, rewrite health, stop a silent run | polls while the main thread reads and ends; kills the child of the other thread; rewrites the sentinel in place |
| Terminal (`utils/dispatch/terminal.py`) | the child process and its pipe | spawn, read and log, deadline, drain, terminate | two threads and a signal handler can end the child |
| Daemon (`kind/run/daemon.py`) | pid file, registry, two worker threads | run loop, start, stop, restart, kill, clean | pid file read outside its lock |
| Context dispatch (`ctx/dispatch.py`) | the jobs, `dispatch.lock` per window | sweep, hook, manual job; detach of stale windows | minutes between reading the counters and writing them |
| Context state (`ctx/state.py`) | `ctx_state.json`: windows (cursor, touched, cooldown), status, running map | read, write, queue, clear, prune | lock per read or write |
| Manual updates (`ctx/manual.py`) | the same counters | `owrap ctx done` | does not take the dispatch.lock |
| Excerpts, merges (`ctx/excerpt.py`, `ctx/records.py`, `ctx/context.py`) | context.md, records | excerpt by cursor and attach marker; merge by section | records changed by others meanwhile |
| Sessions and anchors (`utils/session/resolver.py`, `session/*`) | `.session` files, window pointers | start, attach, detach, resolve, stop, trash | no lock at all |
| Branch sessions (`session/workflow.py`) | worktrees, refs, session file | create, merge, collapse, clean | git may fail between any two steps |
| Project records (`kind/run/project.py`, `kind/record/*`, `utils/memory/*`) | YAML and Markdown records | add, rename, remove, link, branch, merge, select | one lock per record, which some writers do not take |
| Entries (`kind/entry/*`) | lists in the Markdown documents | add, update, done, remove | a document's lock, then the record's |
| Proposals, backups, fallback runs | proposal files, snapshots, a status file | add, make, restore, poll, done | locks that cover part of the operation |
| Commands, staging, logs, parsing | configuration, generated files | front ends | sequential |

How they meet. A dispatch picks a server (pool), writes a sentinel, runs
attached to the server, completes its sentinel, and releases the server; pool
decisions of everybody else depend on that sentinel. The daemon's tick reaps and
refills the pool and sweeps every attached window for context jobs. A context
job runs behind its window's lock and writes the counters that hooks, `owrap ctx
done`, attach and detach also write; its report goes to the session's context and
to the documents of the project the session targets. A session is a directory,
named by the anchors of its windows; a branch session adds worktrees and branches
in every repository of its project. Housekeeping, run by many commands, removes
directories of sessions it does not know. `owrap kill` and cleanup act on the
sentinels of everyone.

What makes each part correct:

* pool: one entry per port; a draining server stays out of service; nobody's
  in-flight server is killed; no kill takes it below the minimum; leaked
  reservations heal;
* sentinels: visible while running, completed once, outcomes neither overwritten nor
  lost early, dead ones reaped;
* context dispatch: nothing said is skipped that a report can hold, nothing is
  merged twice, one job per window, the cursor moves forward, growth is summarised
  in the end;
* daemon: none at work is unknown to the registry; stop finds them all; one, the
  owner of the pid file, in the end;
* a dispatch run: it ends whatever its child does; its verdict is what its log shows
  when it has ended, not what a thread saw before, unless that thread ended it; a
  silence is counted once; what was acquired is given back;
* sessions: no stale copy of a session file claims what has not happened; a window
  is not taken from its session behind its back; the trash loses nothing;
* branch sessions: no work is lost, and a branch goes only after its code was merged
  and its context collapsed, whatever fails or interleaves;
* records: a subproject has its document and a goal survives merges, rollbacks and
  renames; sessions target what exists; commands never wait for each other in a
  circle.

The hazards, each with its line and the properties aimed at it, are listed in
`PROJECT.json`.


## 2. Modules

Seven machines are modelled, each in a module with its properties and an `MC`
module with values for TLC; `BranchSession` extends `SessionFiles`, and
`DispatchPromise` is an abstract specification that `DispatchRun` implements.
Each of the seven has a `_proofs` module; what a project record names is proved
in a second one, `ProjectRecordFiles_proofs`.

### ServerPool

One action per function of `pool.py` (each runs under the pool's file lock, so
it is atomic), the steps of a dispatch around them, the daemon's tick, and the
servers' own faults.

| Variable | In the program |
|---|---|
| `pool` | the entries of pool.json |
| `proc`, `hung` | the process listening on each port, and whether it still answers |
| `pc`, `url`, `on`, `out` | a dispatch: where it is, the server it was given, the process it is attached to, how its run ended |
| `torn` | sentinels their watchdog has truncated and not yet rewritten |

`pick_server` is two actions, `BeginPick` (the first lock section, which is
`ensure_min_servers`) and `PickServer` (the second), since anybody may get in
between. `PickServer` is the disjunction of its five ways out. `StartFresh` is
`Manager.start` as the pool uses it: the port's occupant is killed, and a failed
start leaves nothing or an untracked server behind. `EndRun` is the part of
`finish_dispatch` that the pool sees, which for a run its watchdog has cut is
nothing at all. `ShutdownIdle` looks at the servers and kills later: those in `gone`
died in between, and lose their entry without counting as killed. A slot in
`Dispatches` is reused by later dispatches.

Abstractions: a server is its port; a time stamp is one of three ages (within
the heal grace, past it, past the idle limit); the silence count saturates at
its threshold; the load matters only as zero or not; which loaded server has the
least estimated work is any of them.

### TaskSentinel

The life of a sentinel file with no atomicity beyond one file operation: the
worker's `write_sentinel` ... `complete_sentinel`, its watchdog's read, truncate
and write, `owrap done` (match, signal, complete), `cleanup_recently_done` (look,
check, write, unlink, prune) and `owrap kill`.

| Variable | In the program |
|---|---|
| `file`, `young` | the sentinel: absent, whole, truncated; written within 5 s |
| `record`, `old` | the recently-done record by its outcome; past its retention |
| `listed` | the session's running map |
| `counted` | the stats file, per task |
| `stage`, `result`, `watch` | the worker, its outcome, its watchdog thread |
| `at`, `job` | where a worker or an `owrap done` is in `complete_sentinel` |
| `reap`, `kill` | each cleanup, and the pass of `owrap kill` |

Abstractions: health and the other fields of the JSON; one sentinel name per
task; process ids are not reused; stats count "dispatched" alone.

### CtxDispatch

The context jobs of one owrap session with several windows: job creation by the
sweep, the hook and the planner; the lock; snapshot of the counters; excerpt;
model; merge into context and record; cursor; clearing of touched paths; `owrap
ctx done`; attach, detach and the stale sweep; crashes and exceptions.

| Variable | In the program |
|---|---|
| `transcript` | the window's transcript: texts, tool calls, attach markers |
| `attached` | the windows whose pointer names the session |
| `win` | the windows map: cursor, touched paths, cooldown |
| `status`, `lock` | `ctx.status`; the holder of each `dispatch.lock` |
| `job`, `hand` | the jobs; `owrap ctx done` |
| `modified` | the record's mtime, in events |
| `queued`, `summed`, `recorded`, `finished`, `passed`, `unasked` | history: what was queued, merged, recorded, finished by hand, applied, read for no record |

Abstractions: a text event and a touched path each count as one unit of
`CTX_MIN_CHARS` and of `MAX_EXCERPT_CHARS`, and `WriteTask` drops whole ones, the
oldest, from an excerpt over the limit; creating a job is one step with the check
that allows it. Whether the session has a record to report to matters only where
it has none (`SkipUnasked`), and may change from job to job. Left out: the global
backoff after failures, opencode's status file, high-risk sessions, migration of
old counters, and record edits by the planner itself.

### DaemonLife

Who is the daemon. Every daemon process (start, claim, register, loop, exit) and
every command that starts or ends one, in shells that run one command after
another, step by step where a lock is not held.

| Variable | In the program |
|---|---|
| `pidFile` | `DAEMON_PID_FILE` |
| `registry` | `daemons.json`, every daemon process |
| `lock` | the holder of `DAEMON_LOCK_FILE` |
| `at` | where each daemon or shell is; a dead daemon is a zombie until it is reaped, and counts as alive for `is_alive` |
| `saw` | what a process has read from the pid file and not yet used; the child a command has spawned |
| `run` | the command of each shell, the registered daemons it has yet to see off, and (history) those that served when it began |

`_read_pid` is two steps, a read (`Look`) and a use, since the loop and the exit
call it without the lock and it unlinks a file whose pid is dead by then.
`_stop_process` and `ensure_daemon` hold the lock throughout, so their steps
after the read are one, except that the child spawned by `EnsureSpawn` runs on
while its parent writes its pid (`EnsureRecord`). `_kill_other_daemons` locks for
the list and for each removal only. A daemon has no SIGTERM handler: it ends
without its `finally`; SIGINT and exceptions run it.

Abstractions: process ids are not reused; a signal that is waited for has been
delivered; a command is aborted only once it has done something; a disabled
configuration is a crash at boot, or a command that does nothing; the daemon's
state and start files and what a tick does are left out.


### DispatchRun and DispatchPromise

One dispatch of each kind (`--msg`, task, exec, agent, read), from its sentinel to
its exit: the main thread in `Terminal.run` and in the `finally` after it, the
watchdog's thread, the child, the clock, and the SIGTERM of `owrap done`.

| Variable | In the program |
|---|---|
| `job` | the kind of the dispatch, and whether it has a watchdog |
| `now` | whole seconds, up to `Horizon` |
| `child` | the process, its unread output, how often it wrote |
| `log` | what the log file shows: banner, answer, script; its size and time |
| `handle` | `Terminal._process` is set |
| `main` | where the main thread is |
| `dog` | the watchdog: where it is, its clocks, what it has noticed, the health; (history) what the log showed when it judged the run |
| `flag` | the signal state, the stop event, and (history) how the run was left |
| `result`, `verdict`, `record` | what `Terminal.run` returned, what `finish_dispatch` made of it, what `complete_sentinel` recorded |
| `holds` | the server, sentinel, registered entry and task file not yet given back |
| `streak` | silences this dispatch has reported of its server, since a reset |

The watchdog's poll is `DogPoll` (size and stall clock), `DogCheck` (output and
deadline), `DogReport`, `DogFlag`, `DogKill`, since the main thread may be anywhere
at each; stopping it is `Stop` (the event) and `Join`, which gives up on a thread at
work for too long. `FinishDispatch` refreshes the watchdog's look at the log,
which is where a late answer is found. `SignalLate` is a SIGTERM inside the
`finally`, which leaves the rest of it undone.

`DispatchPromise` has four steps: somebody takes the completion over, the dispatch
settles with at most one verdict and none after a take-over, gives its server back
once and only then, or ends with it. `KeepsPromise` maps the places of the main
thread to its three phases.

Abstractions: output is at most `MaxChunks` pieces, a banner, text or the mark of
a running script; the times are small numbers with the configuration's order; a
detached or interactive run is not this code path.

### SessionFiles and BranchSession

`SessionFiles` has the directories, files, anchors and trash of sessions under
start, refresh, attach, detach, stop, `stop force`, restart, restore, `clean`,
entries recorded in contexts, housekeeping and the daemon's stale sweep.
`BranchSession` adds create (spawn, branch, temp), merge, collapse and cleanup,
with Git and the user at work in the checkouts, and is the module that is run.

| Variable | In the program |
|---|---|
| `live`, `trash` | a session's directory: `.session` (windows, target, parent, what was merged, collapsed and cleaned), `context.md`, and what is nested in it |
| `ptr` | the anchor of each window |
| `known` | history: the ids minted |
| `ctxlock`, `mdlock` | the holders of `context.lock` and of `context.md.lock` |
| `cmd` | the command each window runs: its place, the session, the copy of the session file it has read, the texts it has read |
| `left` | how many commands and acts of the user remain |
| `base`, `other`, `head`, `unclean` | the base branch, another branch, which of them the checkout is on, whether it is clean |
| `tree` | each session's worktrees and branches: committed and uncommitted work |
| `made`, `past` | history: all work made; what happened to each child |

A session file is read in one step and written back in another (`WriteBack`,
`Write`), since nothing locks it; each command of the workflow works on the copy it
read when it began. Git's refusals are guards (`Removable`, `Deletable`), and it
may fail at every call (`GitMergeFails`, `DropFails`, `CreateFails`).

Abstractions: ids are minted once; a context is a set of entries; old enough for
housekeeping is any session it could be; files are read whole; in `collapse`, what
other headings hold is left out; OpenCode and Codex windows differ by `KindOf`
only. Work is what a branch or a worktree's tracked files hold: commits on a detached
HEAD and ignored files are outside the module.

### ProjectRecord

One project: its YAML, the Markdown documents, the catalogue of repositories, and
what its sessions target, under eighteen kinds of command. Each is the sequence
of its reads and writes, under the lock the code takes, or none.

| Variable | In the program |
|---|---|
| `yaml` | `<id>.yaml`: subprojects (kind, parent, document, archived, repository), linked repositories |
| `doc` | the documents: open and finished goals, whether there is a Goals section |
| `catalog` | the repositories with a record |
| `sess` | each session's subproject and repositories |
| `ylock`, `mlock` | the locks of the record and of each document |
| `cmd` | each process: its command, its step, and everything it has read |
| `left` | commands that can still begin |
| `wanted`, `overlap`, `killed` | history: goals not yet finished; whether a command that takes no lock ran beside another; the commands killed |

A merge whose step fails (`MergeFail`, with a half-written archive perhaps) puts back
the parent, the record and the archive in three writes (`MergeRestore`,
`MergeRevert`, `MergeDiscard`), each of which can fail or be killed in turn; a killed
command undoes nothing and its locks end with it. `MergeLock` locks both documents,
each anew: when branch and parent are one file, the second waits for the first.

Abstractions: a goal is its text; decisions, logs and dates change nothing here; a
rewrite of all sessions' files is one step. `Start` is the projects a run begins with;
the fourth kind has an entry whose document a killed rename has moved
(`subproject.py:33-41`), which takes two commands more than the run has.


## 3. Runs

`tlc -config <name>.cfg <MC module>`; with two workers most take under a minute,
`sessions`, `records` and `outcome` one and a half and `daemon` two and a half.

| Run | Question | Bounds |
|---|---|---|
| `pool` | Is the file sound, and does nobody in flight lose a server, whatever starts fail, sentinels are rewritten and servers die? `TypeOK`, `OneEntryPerPort`, `DrainingIsFinal`, `SentinelProtects`, `IdleKeepsMinimum` | a task and an oread, 1 to 2 servers, 4 pids, quota 1, threshold 1 |
| `pool_faults` | When starts fail, servers hang, sentinels tear and the runner is off, do leaked reservations heal? `LeaksAreHealed` | one dispatch slot, 1 to 2 servers, 3 pids, fairness |
| `sentinel` | Is a task at work visible, and counted at most once? `TypeOK`, `VisibleWhileRunning`, `CountedOnce` | two tasks, one watched; one `owrap done`, one cleanup |
| `sentinel_live` | Is a sentinel completed by one process, does a worker's outcome stand, does a dead worker's sentinel go? `OneCompleter`, `OwnOutcomeStands`, `StaleIsReaped` | one watched task, two `owrap done`, two cleanups, `owrap kill`, fairness |
| `ctx` | Is anything skipped or merged twice, does the cursor go back? `TypeOK`, `NothingSkipped`, `OneJobPerWindow`, `MergedOnce`, `CursorNeverBack` | one window, three jobs, three events, one touched path, every half; a report holds two (`MaxExcerpt`) |
| `ctx_faults` | With crashes, exceptions, detaches and `owrap ctx done`, is growth summarised in the end? `GrowthIsSummarised` | one window, the sweep and another job, two events, a report of two, fairness |
| `daemon` | Does anybody lose track of a daemon, and do all races end with one? `TypeOK`, `ServingAreRegistered`, `OldOnesAreGone`, `SettlesOnOne` | three daemon pids, two shells, every command, fairness |
| `outcome` | Does a late answer count, is silence counted once, what is not given back, is only the silent killed, does every dispatch end, and is the promise kept? `TypeOK`, `AnswerStands`, `SilenceCountedOnce`, `NothingLeftBehind`, `KillsOnlyTheSilent`, `Settles`, `KeepsPromise` | every kind, with and without watchdog; timeout 3, stall 1, kill 1, no output 2, infrastructure 3, script factor 2, clock to 4, two pieces of output; fairness |
| `sessions` | Is work lost, does a file claim what did not happen, does a branch go too early, does the trash lose entries, is a window taken? `TypeOK`, `WorkIsKept`, `ClaimsHold`, `GoneOnlyAfter`, `MovesKeep`, `WindowsKeepTheirSession` | a root, a branch child, an id to mint; two Claude windows, and one of OpenCode that only attaches (`OthersAttach`); two repositories, one piece of work, one entry; two commands and one act (an edit, commit, checkout or kill); symmetry |
| `records` | Do documents, goals and targets survive, and does nobody wait in a circle? `TypeOK`, `EntriesHaveDocs`, `GoalsStay`, `TargetsExist`, `NoneWaitInACircle` | two names, one reserved; two repositories, a goal, a session; four kinds of project to begin with (`Start`); three commands, two at a time, one kind killed; symmetry |

`pool_faults` and `ctx_faults` check liveness only. The safety properties under
their constants are theorems of section 5, where they hold.

Why these bounds are enough to be interesting. The pool's hazards need two
dispatches (one in flight, one that picks), two ports (one draining, one fresh), a
quota that one request exhausts, and enough process ids that a port gets a new
process while an old one is remembered; starts wait at most for an id to be
forgotten. A leaked reservation needs one dispatch, whose slot is reused. Sentinel
races are between one task and one or two others of each kind. Context hazards need
a job that runs, a job that waits with an older ceiling, and events on both sides of
each; three events overflow a report of two. Daemons need an old one, its successor
and the one that is started while they meet, and two shells that start and end them;
a command begins only while every command under way finds a pid to spawn. A dispatch
needs a deadline after the stall and kill times together, so that every one of the
three ways to end a run can be first. Sessions need a branch session with two
repositories (one cleaned, one not), its parent, and two commands on them, both of
which may be under way with old copies; the initial states have edits in the
worktrees and branches that are merged already, so that a cleanup is within two
commands. The OpenCode window attaches to sessions that have Claude windows, which
is where harnesses differ; what else it can do is in the theorems. Three commands on
a record are a branch made, a goal added to it and the merge, or any two that race
after a third. The proofs of section 5 do not depend on any of these.

Two runs state what a comment or a document of the program says and find the code
doing something else (quotes under "findings" in `PROJECT.json`):

| Run | What happens |
|---|---|
| `outcome_streak` (`ResetNeedsOutput`) | a dispatch that printed nothing, and has just been counted as silent, sets its server's count back to zero |
| `sessions_collapse` (`CollapsedIsKept`) | an entry recorded in the parent's context while a child collapses into it drops what the collapse brought, since each takes another lock |

Other places where the modelled code differs from what its comments say, or does
what its user may not expect, seen while modelling. The models do these things too:
where a property would deny one, its statement names the exception.

Pool, sentinels, dispatches:

* a draining or idle server is killed under an oread, whose sentinel has no URL
  and so counts as no load (`pool.py:219`); `SentinelProtects` is about dispatches
  whose sentinel names the server;
* a server that dies between `shutdown_idle`'s look at it and its kill is dropped
  without being counted (`pool.py:472`), so that another may be killed and fewer than
  `min_servers` remain until the next tick, as many fewer as died
  (`IdleKeepsMinimum` adds them up);
* cleanup overwrites the record `owrap done` has just written (`work.py:432`);
* a truncated sentinel counts as no load for an instant (`pool.py:488`,
  `watchdog.py:39`): its dispatch can lose its server in that instant, and
  `SentinelProtects` is about sentinels that can be read;
* with every port held by a draining server there is no port for the fresh one
  that `pool.py:274` promises "even past max_servers";
* `register_task` and `complete_task` read and write the running map without a
  lock around both; `exec` keeps its server's reservation when it is left by an
  exception or a SIGTERM (`exec.py:160`), a prompt that is refused or a SIGTERM inside
  the `finally` keep more (`NothingLeftBehind` lists who may keep what);
* an answer that arrives after the watchdog has decided that a run is silent does
  not save it: it is killed, and recorded as unresponsive from what the watchdog had
  seen (`work.py:257-265`); `AnswerStands` excepts just that;
* a main thread that gives up on a watchdog at work (`watchdog.py:122`) counts the
  same silence a second time, if its child ended with success (`work.py:280`);
  `SilenceCountedOnce` says that this is the only way;
* `owrap kill` records a task without "finished", and cleanup prunes such a
  record at once (`daemon.py:474`); it unlinks a sentinel it cannot read without
  signalling its process (`daemon.py:478`);
* a reaped or killed task stays in its session's running map (`work.py:436`);

Context dispatch and daemon:

* an excerpt over `MAX_EXCERPT_CHARS` loses its oldest text, and the cursor moves to
  the end of it all the same (`ctx/dispatch.py:752`, `892`): no report has that text.
  A job for the record alone moves the cursor when the session has no record to report
  to (`ctx/dispatch.py:794-799`), past text that the context was not given either.
  `NothingSkipped` names both;
* touched paths are read before the model runs and cleared after it, so one queued
  meanwhile is cleared unapplied (`ctx/dispatch.py:674`, against
  `ctx/state.py:321-322`);
* what was said while a model worked is older than that job's write of the project
  record, so the next report, on just that text, is not recorded
  (`ctx/records.py:76`); the cursor moves past it all the same;
* a job that outlives its window's detach writes the window back into the map
  (`ctx/dispatch.py:893`, against `state.py:51-54`); `owrap ctx done` and a
  running job overwrite each other's cursor (`manual.py:182`);
* the status is one per session, the lock one per window: the first of two jobs
  to end says "ok" for both (`ctx/dispatch.py:625`); the halves `--ctx` and
  `--updr` share a cursor, so the second does not see the excerpt of the first;
* `owrap kill` unlinks the pid file without the lock, whoever it names by then
  (`daemon.py:508`), and the loop and the exit call `_read_pid`, which may unlink
  it too, without the lock it asks its callers to hold (`daemon.py:249`, `266`,
  against line 614): a daemon started in between loses its file, and two can be
  in their loops until the loser's next look at the file (`SettlesOnOne` says
  that this ends);
* `owrap daemon start` kills a daemon that is registered and running before it
  looks for one (`daemon.py:286`), so it says "already running" only of one it
  did not find in the registry or that is not yet reaped.

Sessions and branch sessions:

* housekeeping's list of ids races a session being created, whose fresh directory
  it deletes (`manager.py:787`); a session file seen truncated is not in the list
  either; `owrap daemon clean` unlinks a `.session` only, and the next housekeeping
  deletes the rest;
* a stale write recreates the directory of a session in the trash; a second stop
  then nests it there, and a third fails (`trash.py:22`); a restore overwrites a
  live `context.md`;
* commits made after a merge leave a branch that can be neither merged again nor
  cleaned up; a cleanup that fails between `worktree remove` and its write of the
  session file cannot be run again; `worktree.py:96` speaks of "merged (or
  abandoned)" worktrees, but cleanup refuses unmerged ones;
* minting a session for another project clears the anchors of all windows of the
  old one, where `start.py:41` says "Detach the current window"; re-attaching one
  of several windows clears the field although it records another
  (`resolver.py:236`);
* `create_context` rewrites `context.md` under no lock (`ctx/context.py:79`); the
  locks are in the session's directory, so a move to the trash splits one in two;
  `cap_sections` says "oldest entries first" and keeps the first lines.

Records:

* a merge whose branch and parent are one file waits for itself for ever, with the
  record's lock held (`branch.py:154-157`, `filelock.py:17-19`), so that every later
  command on the project that needs the record waits too. The way there is a rename
  killed after it moved the document, or one that ran beside another command, and a
  branch made under the old name with the renamed entry as its parent; `records`
  begins one command after such a rename, and `NoneWaitInACircle` says that there is
  no other way and no other circle;
* `remove` does not look for children of the subproject; a merge leaves sessions
  on the archived branch, and a job makes the document of an archived branch again;
  `unlink` of a branch's repository leaves a branch that does not resolve;
* `rename` and `create_branch` accept names that `add` refuses;
* a merge that is killed leaves its archive, which refuses the next one; a goal
  being added while its branch is merged can go to the leftover document;
* `rename`, `remove`, `link`, `unlink`, `relink` and `drop` take no lock, so one
  that overlaps any other writer of the record loses an update (this is `overlap`
  in the module, under which its properties say nothing); a report killed between
  truncation and write leaves an empty document (`ctx/records.py:93`);
* between the write of the record and the removal of the merged document a goal is
  in a document the record no longer names; a rename or remove that is killed
  leaves an entry without its document, and a renamed entry keeps its old file name
  (`subproject.py:35-41`), so that a branch made later under the old name shares one
  document with it, which is lost for both when making the branch fails
  (`branch.py:116-118`). `GoalsStay` says where the
  goal is in the first case and leaves the second out. Four and five commands show
  them: the run has three, the invariant that the property rests on needs them;
* a rollback that fails or is killed in the middle leaves the record naming an
  archive and the branch's document both, or an archive the record does not name.

Deadlock is checked in the pool runs and in `sentinel_live`. Elsewhere the system
may really stop: a task is dispatched once, a transcript has at most `MaxEvents`
events, a daemon's pid is used once, a dispatch exits, and the session and record
runs begin a bounded number of commands. That commands on a record do not stop for
each other is `NoneWaitInACircle`.


## 4. Fairness

* `ServerPool`: weak fairness of `shutdown_idle` (the daemon's loop calls it on
  every tick) and of the clock. No dispatch, start or crash is promised.
* `TaskSentinel`: a process that has begun something goes on (weak fairness of
  the worker, the watchdog's open and write, completion, `owrap done` once
  matched), cleanup is run now and then (every dispatch and every `owrap stat`
  begin with it), and time passes. Nobody is obliged to run `owrap done` or
  `owrap kill`; no crash is promised.
* `CtxDispatch`: jobs make progress and cooldowns end (weak); the sweep gets its
  turn (strong, since a cooldown or another job may disable it between ticks);
  flock lets a waiter in that is often enough able to enter (strong); a model
  chain tried again and again answers once (strong). The last is an assumption
  on the models: without it nothing can be summarised.
* `DaemonLife`: a daemon or command that has begun goes on, and flock lets every
  waiter in that is often enough able to enter (strong fairness of each
  process's steps); owrap goes on being used, so commands that begin with the
  watchdog tick are begun again and again (strong, since pids and shells may be
  busy between). No other command, interrupt, crash or abort is promised.
* `DispatchRun`: the main thread and the watchdog's are scheduled and time passes
  (weak, each). Nothing is asked of the child, which may be silent or hang for
  ever, and no signal is promised.
* `SessionFiles`, `BranchSession` and `ProjectRecord` state no liveness: each
  command is a loop-free sequence of steps, or waits for a lock whose holder is, or
  waits for itself.


## 5. Proofs

`tlapm <Module>_proofs.tla`. Constants are arbitrary subject to the named
assumptions in each module.

**ServerPool.** `PoolInv` = `TypeOK` + `OneEntryPerPort` + `UrlGiven`.
`OneEntryPerPort` is not inductive alone: a dispatch must have been given a real
port before it releases (`UrlGiven`), and rewriting, marking and healing must keep
ports (`RewrittenEntry`). `DrainingServersStayOut` compares each entry of the new
file with the one it continues (`Continues`) or shows its process to be unknown to
the old file (`Brand`). `SentinelsProtectServers` shows that the server of such a
dispatch is live, kept and loaded (`ProtectedIsKept`), so every step that kills
processes spares its port. It needs no assumption on who rewrites sentinels: the
property is about a dispatch whose own can be read at that moment, since an
unreadable one protects nobody. `IdleShutdownKeepsMinimum` counts: the pool is
finite, since it maps one to one into the ports (`PoolIsFinite`, from
`OneEntryPerPort`); healing reservations keeps its size, for the same reason
(`HealedCount`); and what is killed is at most what there is to spare
(`KillCountBound`). What died meanwhile is added to what is left, since the code
counts it as left.

**TaskSentinel.** The inductive invariant ties each place in
`complete_sentinel`, each reaper and each kill to the worker's stage: who is
past the signal has ended the worker's own completion, and who reaps has seen it
dead. From it: `CompletionIsHandedOver`, `RunningTasksAreVisible` (without
`owrap kill`, which removes sentinels of live processes on purpose) and
`OwnOutcomesStand`. `CompletionsCountOnce` adds `CountInv`: whoever has taken a
task's sentinel away, or found it gone under its own hands, is the one that will
count it, and once it is counted the sentinel is gone for good. It assumes one
`owrap done` at a time, as `CountedOnce` says: two both read the sentinel and
both count.

**CtxDispatch.** Three invariants on top of the types: `LockInvariant` (a job
inside holds its window's lock), which gives `JobsTakeTurns`; `CoverInvariant`
(every cursor in the map, in a snapshot or about to be written covers only
accounted texts, or texts of the job's excerpt), which gives `NothingIsSkipped` for
all crashes, detaches and manual updates and any limit: a text cut from an excerpt is
older than all the rest of it (`TaskCovers`), and once that is merged, as much as a
report can hold has been merged after it (`CutIsCrowded`), which nothing takes back
(`CrowdedStays`); and `FreshInvariant` (a job's snapshot has the map's cursor
while it holds the lock), which gives `CursorsAdvance` when nobody detaches or
runs `owrap ctx done`, both of which write the counters without the lock.
`TextsMergeOnce` adds `OnceInv`: an excerpt on its way to the merge has nothing
merged in it, and what was merged is behind the cursor or in the hands of the one
job that merged it and has yet to move the cursor. It assumes no crash, no detach
and no `owrap ctx done`, after each of which the code does merge a text again.

**DaemonLife.** `RegistryIsComplete`: a daemon enters service by registering
only (`PlacesAdvance`), and what a step removes from the registry is dead, ended
or leaving (`RegistryKeeps`, for which a zombie must not count as at work).
`StopsFindEveryDaemon` adds `MetInv` (the daemons a command met have left their
start for good, so they cannot enter service again behind its back) and
`HuntInv` (those still at work are on its list), both inductive.

**BranchSession.** `NoWorkIsLost`, `NoFalseClaims` and `BranchesGoLast`, for any
sessions, windows of any harness, repositories and numbers of commands and acts.
The three properties need each other and five more facts. A command that writes
back an old copy is harmless only because what it claims stays true (`Honest`): so
no step may undo what a file claims, and every step brings into the files and
hands of commands old copies only, or claims it has just made true (`Effects`,
`Old`). A session not yet minted, or whose branches are still being made, is
untouched by everybody else (`Fresh`, `Growing`), and each has one maker (`Makers`):
otherwise an undone creation could remove another's branches. A collapse under way
has written the parent before it claims so (`Carried`), and a removed worktree
holds nothing uncommitted (`LooseIn`), which is what `branch -d`, looking at commits
only, does not see. `WorkIsKept` and `GoneOnlyAfter` then rest on Git's own guards:
a worktree is removed only when clean, and a branch only when HEAD has its work
(`Spares`, `Proceeds`). No lock and no re-check in the workflow commands is used,
which is the point: they have none.

The two action properties need the types and shapes of commands only.
`MovesLoseNothing`: a move to the trash happens when the trash has no inner
directory of the session (`CanMove`), so the one it makes hides nothing
(`TrashedHolds`), and a restore unites the inner directories (`RestoredHolds`).
`WindowsStayAttached` goes through every command that writes an anchor: resolving
moves the window of the command itself only (`AnchorsOf`), and those that reach
other windows are the ones of `TakenBy`, each with the session it concerns. That the
window taken was that session's is the point: a stop clears the anchors that name
its session, a start for another project those of the session it leaves
(`StartTakes`), and neither may reach further. A command must be known by its
operation at each later place (`Shape`: who is removing was asked to stop or
restart, who anchors to create).

**DispatchRun.** Four safety properties, the types and the refinement rest on one
invariant, `Inv`, for any deadlines, limits, multiplier and horizon. `Counts`: the
streak rises once at most before the verdict, and what the watchdog can be doing
when it rises again. `Looked`: when the watchdog judges the run it has seen every
answer that is in the log by then, since one it has not makes the log longer than at
its last look. `VerdictsSound`: a verdict agrees with the log when it is made, or
with what that judgement was based on, and the log does not change any more; that
covers the runs that are cut short as well. `Silenced`: the streak is what the
watchdog has reported, until the main thread judges, so that the verdict knows
whether the silence was counted already, unless it gave the thread up before the
flag was raised (`SilencesCountOnce` is an action property: it looks at each rise).
`Holding`: what a dispatch of each kind can still hold at each place, a refused
input and a late SIGTERM included. `Ended`: a child runs only while somebody reads
it. `Clocks`: as long as the watchdog has seen all of the log, the last line is not
younger than its clocks, without which a silence it measures would not be one of the
log. `PromiseIsKept` is the refinement: initial states map to initial ones, and
under `Inv` every step of the main thread, the watchdog, the child or the clock maps
to a step of `DispatchPromise` or to none.

**ProjectRecord.** `TypeCorrect` rests on what a command must have been asked and
have found at each place (`Shape`): without it a stale copy written back, a merge's
rollback or a rename could leave a record that is none. `CirclesAreSelves` rests on
`LockInv`: a command holds the record's lock exactly at the places listed in
`Recording`, and a document's only at those in `Writing`. Whoever waits for the
record then holds nothing, and whoever waits for a document while holding something
is a merge, of which the record's lock admits one: a circle, of any length, has a
merge that waits for itself.

`ProjectRecordFiles_proofs` says what the record is worth to those who act on it,
as long as no command without a lock overlapped another. `CommandsHold` (`HoldInv`):
what each command has in hand is true of the record, namely that the copy it will
write back is the record as it is, or as it is with the one entry it makes, and
that a command without a lock runs alone. `SubprojectsHaveDocuments` adds `DocInv`: a
document is named after its entry, the copy in the archive exists before the record
names it, and only the entry a rename or remove has in hand may lack its document.
`NobodyWaitsInACircle` then says when a merge waits for itself: as long as every
document is named after its entry, two entries have two documents, so a rename or
remove was killed or a command that skips the lock overlapped another.
`TargetsStayThere` adds `TargetInv`: what the record and the sessions name exists,
or is what a relink or rename that runs alone is just replacing. Both use
`NothingAssumption`: "no entry" is not an entry, and "no document" is not one.

`GoalsSurvive` adds `GoalInv`. Where a goal is (`Lists`): in a document, or in the
hands of the report that has just truncated it. Whose documents count (`Counts`):
those the record lists, the branch whose merge has yet to remove it (`Going`), the
new name of a rename that has yet to write the record (`Coming`). And what commands
rely on (`Keeps`): who has read a document under its lock has its goals as they are;
who would add one writes to a document that counts, or there is no Goals section to
add it to (`Fits`); a merge has both documents as it read them, and takes over what
the parent lacks (`Pending`), and as its rollback goes on, the parent has what it
had or what the merge gave it (`Passed`) while the branch still counts; creating
finds no goal where it writes. Each step of another command keeps that
(`KeepsElsewhere`). A merge works on two different documents because no subproject
that leads to main is its own parent (`NotOwnParent`): the first step up that led
elsewhere would be a least counterexample.

**Model-checked only.** The liveness properties `LeaksAreHealed`, `StaleIsReaped`,
`GrowthIsSummarised`, `SettlesOnOne` and `Settles`: liveness under fairness is beyond
the prover. Every safety and action property of the passing runs is a theorem, under
the hypotheses its definition or this section states.


## 6. What is not modelled, and the plan

Logging, formatting, prompts, parsing and configuration are left out for good;
so are staging, the shell scripts and retention of logs, on which no modelled
state depends. Within the modelled components these parts are not there yet:
session files seen half written, a list of windows gone stale while `detach` works
on it, what resolving does for commands that fail early, `session do`, project
rename and scratch projects, `owrap kill`'s pass over the pool, and detached runs
of `Terminal`. In this order, next:

1. `Fallback` and `Proposal`: two small machines for the two hazards listed without
   a property there; then `Backup`, which is sequential.
2. The pool and the sentinels composed, so that a sentinel without a URL or a torn
   one is not a flag but a consequence; `owrap kill`'s pass over the pool file with
   them.
3. An abstract specification of the context log ("every text is summarised once,
   in order"), implemented by `CtxDispatch`; one of the sentinel ("a task is
   running, then done"), implemented by `TaskSentinel`.
4. Pure operators with reference definitions: the goal and decision lists, section
   merge, server log retention, name matching.

Theorems to prove next: that `TaskSentinel` and `CtxDispatch` implement the
abstract specifications of item 3, once those are stated and checked.
