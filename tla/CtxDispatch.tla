----------------------------- MODULE CtxDispatch -----------------------------
(* Background context dispatches of one owrap session: what has been said   *)
(* in an attached window since its cursor is excerpted, summarised by a     *)
(* model and merged into the session's context and project record, and only *)
(* then the cursor moves.  Jobs come from the daemon's sweep, the PreCompact *)
(* hook and the planner, and queue behind the window's dispatch.lock, while *)
(* the window keeps talking, queues touched paths, detaches, or closes the  *)
(* update by hand.  ctx_state.json has a lock held for one read or write:   *)
(* src/owrap/ctx/dispatch.py, ctx/state.py, ctx/manual.py, ctx/excerpt.py.  *)
EXTENDS Naturals, FiniteSets, Sequences

CONSTANTS
    Windows,       \* windows (Claude or Codex sessions) of the owrap session
    Jobs,          \* slots for job processes
    Sweeper,       \* the slots of the daemon's sweep; it runs its jobs itself
    NoJob,         \* nobody holds the dispatch.lock
    MinChars,      \* CTX_MIN_CHARS; an event or a touched path counts for one
    MaxExcerpt,    \* MAX_EXCERPT_CHARS, likewise: what a report can be about
    Halves,        \* what the planner asks for: "both", "ctx", "updr"
    CanDetach,     \* whether windows detach
    CanCrash,      \* whether a job may be killed, or raise while it merges
    CanFinish,     \* whether the planner runs `owrap ctx done`
    MaxEvents,     \* bound on a transcript's events
    MaxTouched     \* bound on the paths a window queues

ASSUME WindowsAssumption == Windows # {}
ASSUME JobsAssumption == Sweeper \subseteq Jobs /\ NoJob \notin Jobs
ASSUME HalvesAssumption == Halves \subseteq {"both", "ctx", "updr"}
ASSUME BoundsAssumption == MinChars \in Nat \ {0} /\ MaxEvents \in Nat /\ MaxTouched \in Nat
ASSUME ExcerptAssumption == MaxExcerpt \in Nat /\ MinChars <= MaxExcerpt
ASSUME FlagsAssumption == {CanDetach, CanCrash, CanFinish} \subseteq BOOLEAN

VARIABLES
    transcript,   \* each window's events; event i has timestamp i
    attached,     \* the windows whose pointer names this session
    win,          \* ctx_state.json: the windows map
    status,       \* ctx_state.json: ctx.status
    lock,         \* the holder of each window's dispatch.lock
    job,          \* the jobs
    hand,         \* `owrap ctx done` in each window
    queued,       \* paths each window has queued so far
    modified,     \* project record's mtime: the events of each window before it
    summed,       \* how often an event was in a merged report
    recorded,     \* the events a report of which reached the project record
    finished,     \* the events covered by `owrap ctx done`
    passed,       \* the touched paths that were in a merged report
    unasked       \* the texts read for a record the session does not have

vars == <<transcript, attached, win, status, lock, job, hand, queued, modified,
          summed, recorded, finished, passed, unasked>>

-----------------------------------------------------------------------------
Events == 1 .. MaxEvents
Kinds == {"text", "tool", "marker"}   \* a marker: __OWRAP_EXPORT__ SESSION_ID=
Paths == 1 .. MaxTouched

NoWindow == [there |-> FALSE, cursor |-> 0, touched |-> {}, cool |-> FALSE]
Free == [at |-> "free", win |-> CHOOSE w \in Windows : TRUE, half |-> "both",
         limit |-> 0, snap |-> NoWindow, texts |-> {}, touched |-> {}, upto |-> 0]
Idle == [at |-> "idle", snap |-> NoWindow]

Init ==
    /\ transcript = [w \in Windows |-> <<>>]
    /\ attached = {}
    /\ win = [w \in Windows |-> NoWindow]
    /\ status = "never run"
    /\ lock = [w \in Windows |-> NoJob]
    /\ job = [j \in Jobs |-> Free]
    /\ hand = [w \in Windows |-> Idle]
    /\ queued = [w \in Windows |-> 0]
    /\ modified = [w \in Windows |-> 0]
    /\ summed = [w \in Windows |-> [i \in Events |-> 0]]
    /\ recorded = [w \in Windows |-> {}]
    /\ finished = [w \in Windows |-> 0]
    /\ passed = [w \in Windows |-> {}]
    /\ unasked = [w \in Windows |-> {}]

-----------------------------------------------------------------------------
(* Excerpts.                                                                *)

Last(w) == Len(transcript[w])
Later(a, b) == IF a < b THEN b ELSE a

(* The recognised entries after the cursor and after the last attach        *)
(* (last_attach_ts_ns), when the first n events are read.                   *)
(* Mutant: the last attach alone counts.                                    *)
AfterAttach(w, cursor, n) ==
    {i \in 1 .. n : \A m \in i .. n : transcript[w][m] # "marker"}
After(w, cursor, n) ==
    {i \in 1 .. n : i > cursor /\ \A m \in i .. n : transcript[w][m] # "marker"}

(* extract_excerpt_lines.                                                   *)
Texts(w, cursor, n) == {i \in After(w, cursor, n) : transcript[w][i] = "text"}

(* _pending_excerpt_len.                                                    *)
Pending(w) ==
    Cardinality(Texts(w, win[w].cursor, Last(w))) + Cardinality(win[w].touched)

-----------------------------------------------------------------------------
(* The window.                                                              *)

Hear(w, kind) == transcript' = [transcript EXCEPT ![w] = Append(@, kind)]

Speak(w) ==
    /\ Last(w) < MaxEvents
    /\ \E kind \in {"text", "tool"} : Hear(w, kind)
    /\ UNCHANGED <<attached, win, status, lock, job, hand, queued, modified,
                   summed, recorded, finished, passed, unasked>>

(* owrap session attach: pointer, register_ctx_state_window, marker.        *)
Attach(w) ==
    /\ Last(w) < MaxEvents
    /\ Hear(w, "marker")
    /\ attached' = attached \union {w}
    /\ win' = [win EXCEPT ![w].there = TRUE]
    /\ UNCHANGED <<status, lock, job, hand, queued, modified, summed, recorded,
                   finished, passed, unasked>>

(* owrap session detach: pointer, prune_ctx_state_window.                   *)
Detach(w) ==
    /\ CanDetach /\ w \in attached
    /\ attached' = attached \ {w}
    /\ win' = [win EXCEPT ![w] = NoWindow]
    /\ UNCHANGED <<transcript, status, lock, job, hand, queued, modified, summed,
                   recorded, finished, passed, unasked>>

(* detach_stale_attached, after days of silence: the pointer only.          *)
DetachStale(w) ==
    /\ CanDetach /\ w \in attached
    /\ \A j \in Jobs : job[j].at = "free" \/ job[j].win # w
    /\ attached' = attached \ {w}
    /\ UNCHANGED <<transcript, win, status, lock, job, hand, queued, modified,
                   summed, recorded, finished, passed, unasked>>

(* The window attaches to another session: its pointer names that one.      *)
AttachElsewhere(w) ==
    /\ CanDetach /\ w \in attached
    /\ attached' = attached \ {w}
    /\ UNCHANGED <<transcript, win, status, lock, job, hand, queued, modified,
                   summed, recorded, finished, passed, unasked>>

(* queue_touched_paths.                                                     *)
QueueTouched(w) ==
    /\ w \in attached /\ queued[w] < MaxTouched
    /\ queued' = [queued EXCEPT ![w] = @ + 1]
    /\ win' = [win EXCEPT ![w].there = TRUE, ![w].touched = @ \union {queued[w] + 1}]
    /\ UNCHANGED <<transcript, attached, status, lock, job, hand, modified,
                   summed, recorded, finished, passed, unasked>>

(* CTX_MIN_INTERVAL_S have passed since last_ctx_attempt_ts.                *)
CoolsDown(w) ==
    /\ win[w].cool
    /\ win' = [win EXCEPT ![w].cool = FALSE]
    /\ UNCHANGED <<transcript, attached, status, lock, job, hand, queued,
                   modified, summed, recorded, finished, passed, unasked>>

-----------------------------------------------------------------------------
(* Job creation.  The transcript, or its latest timestamp, is taken now and *)
(* bounds what the job reads when the lock lets it in.                      *)

Create(j, w, half, at) ==
    /\ job[j].at = "free" /\ w \in attached
    /\ job' = [job EXCEPT ![j] = [Free EXCEPT !.at = at, !.win = w, !.half = half,
                                              !.limit = Last(w)]]
    /\ UNCHANGED <<transcript, attached, win, status, lock, hand, queued,
                   modified, summed, recorded, finished, passed, unasked>>

(* Mutant: more than the minimum is asked for.                              *)
DueAbove(w) == ~win[w].cool /\ Pending(w) > MinChars
Due(w) == ~win[w].cool /\ Pending(w) >= MinChars

(* check_all_attached, one window of the sweep: it dispatches in-process.   *)
CheckAttached(j, w) == j \in Sweeper /\ Due(w) /\ Create(j, w, "both", "waiting")

(* hook_run, with window_busy.                                              *)
HookRun(j, w) ==
    /\ j \notin Sweeper /\ Due(w)
    /\ \A i \in Jobs : job[i].at = "free" \/ job[i].win # w
    /\ Create(j, w, "both", "queued")

(* run_manual: no look at the cooldown or at other jobs.                    *)
RunManual(j, w) == j \notin Sweeper /\ \E half \in Halves : Create(j, w, half, "queued")

-----------------------------------------------------------------------------
(* One job: run, _dispatch_tracked and _dispatch.                           *)

Becomes(j, at) == job' = [job EXCEPT ![j].at = at]

(* The spawned worker looks its session up again before it takes the lock.  *)
LookUp(j) ==
    /\ job[j].at = "queued"
    /\ IF job[j].win \in attached THEN Becomes(j, "waiting")
                                  ELSE job' = [job EXCEPT ![j] = Free]
    /\ UNCHANGED <<transcript, attached, win, status, lock, hand, queued,
                   modified, summed, recorded, finished, passed, unasked>>

(* Mutant: the lock is not waited for.                                      *)
EnterAnyway(j) ==
    /\ job[j].at = "waiting"
    /\ lock' = [lock EXCEPT ![job[j].win] = j]
    /\ status' = "pending"
    /\ Becomes(j, "entered")
    /\ UNCHANGED <<transcript, attached, win, hand, queued, modified, summed,
                   recorded, finished, passed, unasked>>
Enter(j) ==
    /\ job[j].at = "waiting" /\ lock[job[j].win] = NoJob
    /\ lock' = [lock EXCEPT ![job[j].win] = j]
    /\ status' = "pending"
    /\ Becomes(j, "entered")
    /\ UNCHANGED <<transcript, attached, win, hand, queued, modified, summed,
                   recorded, finished, passed, unasked>>

(* counters = read_window_state(...), and the cooldown.                     *)
Snapshot(j) ==
    /\ job[j].at = "entered"
    /\ LET s == win[job[j].win]
       IN  job' = [job EXCEPT ![j].snap = s, ![j].at = IF s.cool THEN "ok" ELSE "read"]
    /\ UNCHANGED <<transcript, attached, win, status, lock, hand, queued,
                   modified, summed, recorded, finished, passed, unasked>>

(* How many events the job reads: no ceiling when there was none to take.   *)
Ceiling(j) ==
    IF job[j].limit = 0 /\ j \notin Sweeper THEN Last(job[j].win) ELSE job[j].limit

(* The cursor to write: never behind the snapshot's.                        *)
(* Mutants: one too far; the ceiling ignored; the snapshot ignored.         *)
UptoNext(j) == Later(Ceiling(j), job[j].snap.cursor) + 1
UptoLatest(j) == Later(Last(job[j].win), job[j].snap.cursor)
UptoCeiling(j) == Ceiling(j)
Upto(j) == Later(Ceiling(j), job[j].snap.cursor)

(* The excerpt and the touched entries: nothing, too little, or a task.     *)
ReadExcerpt(j) ==
    /\ job[j].at = "read"
    /\ LET w == job[j].win
           cursor == job[j].snap.cursor
           texts == Texts(w, cursor, Ceiling(j))
           touched == win[w].touched
           size == Cardinality(texts) + Cardinality(touched)
       IN  job' = [job EXCEPT ![j].texts = texts, ![j].touched = touched,
                     ![j].limit = Ceiling(j), ![j].upto = Upto(j),
                     ![j].at = IF texts = {} /\ touched = {}
                               THEN IF After(w, cursor, Ceiling(j)) # {} THEN "skip" ELSE "ok"
                               ELSE IF size < MinChars THEN "ok" ELSE "trim"]
    /\ UNCHANGED <<transcript, attached, win, status, lock, hand, queued,
                   modified, summed, recorded, finished, passed, unasked>>

(* The end of an excerpt that is over the limit: the texts are in order and *)
(* the touched entries follow them, so the oldest are dropped.              *)
Trimmed(r, texts, touched) ==
    IF Cardinality(r.texts) + Cardinality(r.touched) <= MaxExcerpt
    THEN texts = r.texts /\ touched = r.touched
    ELSE /\ Cardinality(texts) + Cardinality(touched) = MaxExcerpt
         /\ touched = r.touched \/ texts = {}
         /\ \A i \in r.texts \ texts, k \in texts : i < k

(* The task is written: what the model is asked for.  A job for the record  *)
(* alone has nothing to ask when the session names no project and none of   *)
(* its repositories was touched.                                            *)
WriteTask(j) ==
    /\ job[j].at = "trim"
    /\ \/ job[j].half = "updr" /\ Becomes(j, "bare")
       \/ \E texts \in SUBSET job[j].texts, touched \in SUBSET job[j].touched :
            /\ Trimmed(job[j], texts, touched)
            /\ job' = [job EXCEPT ![j].texts = texts, ![j].touched = touched,
                                  ![j].at = "model"]
    /\ UNCHANGED <<transcript, attached, win, status, lock, hand, queued,
                   modified, summed, recorded, finished, passed, unasked>>

(* write_window_state of the snapshot taken at the start, the cursor moved. *)
Rewrite(j, cool) ==
    win' = [win EXCEPT ![job[j].win] = [job[j].snap EXCEPT !.there = TRUE,
                                        !.cursor = job[j].upto, !.cool = @ \/ cool]]

(* Nothing to summarise, but recognised entries: the cursor moves on.       *)
SkipEmpty(j) ==
    /\ job[j].at = "skip"
    /\ Rewrite(j, FALSE)
    /\ Becomes(j, "ok")
    /\ UNCHANGED <<transcript, attached, status, lock, hand, queued, modified,
                   summed, recorded, finished, passed, unasked>>

(* Nothing to ask: the cursor moves on all the same.                        *)
SkipUnasked(j) ==
    /\ job[j].at = "bare"
    /\ Rewrite(j, FALSE)
    /\ unasked' = [unasked EXCEPT ![job[j].win] = @ \union job[j].texts]
    /\ Becomes(j, IF job[j].touched = {} THEN "ok" ELSE "clear")
    /\ UNCHANGED <<transcript, attached, status, lock, hand, queued, modified,
                   summed, recorded, finished, passed>>

(* The models of the chain are tried in turn: one answers, or none does.    *)
ModelAnswers(j) ==
    /\ job[j].at = "model"
    /\ Becomes(j, "merge")
    /\ UNCHANGED <<transcript, attached, win, status, lock, hand, queued,
                   modified, summed, recorded, finished, passed, unasked>>

(* Mutant: a failed run moves the cursor.                                   *)
ModelsFailWriting(j) ==
    /\ job[j].at = "model"
    /\ Becomes(j, "write")
    /\ UNCHANGED <<transcript, attached, win, status, lock, hand, queued,
                   modified, summed, recorded, finished, passed, unasked>>
ModelsFail(j) ==
    /\ job[j].at = "model"
    /\ Becomes(j, "failed")
    /\ UNCHANGED <<transcript, attached, win, status, lock, hand, queued,
                   modified, summed, recorded, finished, passed, unasked>>

(* merge_context.  A report reaches the session once it is merged.          *)
MergeContext(j) ==
    /\ job[j].at = "merge"
    /\ summed' = [summed EXCEPT ![job[j].win] =
                    [i \in Events |-> IF i \in job[j].texts /\ @[i] < 2 THEN @[i] + 1 ELSE @[i]]]
    /\ passed' = [passed EXCEPT ![job[j].win] = @ \union job[j].touched]
    /\ Becomes(j, IF job[j].half = "ctx" THEN "write" ELSE "record")
    /\ UNCHANGED <<transcript, attached, win, status, lock, hand, queued,
                   modified, recorded, finished, unasked>>

(* merge_record_project: a record modified after the excerpt's last event   *)
(* is left alone.                                                           *)
MergeRecord(j) ==
    /\ job[j].at = "record"
    /\ IF modified[job[j].win] >= job[j].upto /\ job[j].upto > 0
       THEN UNCHANGED <<modified, recorded>>
       ELSE /\ modified' = [w \in Windows |-> Last(w)]
            /\ recorded' = [recorded EXCEPT ![job[j].win] = @ \union job[j].texts]
    /\ Becomes(j, "write")
    /\ UNCHANGED <<transcript, attached, win, status, lock, hand, queued,
                   summed, finished, passed, unasked>>

WriteCounters(j) ==
    /\ job[j].at = "write"
    /\ Rewrite(j, TRUE)
    /\ Becomes(j, IF job[j].touched = {} THEN "ok" ELSE "clear")
    /\ UNCHANGED <<transcript, attached, status, lock, hand, queued, modified,
                   summed, recorded, finished, passed, unasked>>

ClearTouched(j) ==
    /\ job[j].at = "clear"
    /\ win' = [win EXCEPT ![job[j].win].touched = {}]
    /\ Becomes(j, "ok")
    /\ UNCHANGED <<transcript, attached, status, lock, hand, queued, modified,
                   summed, recorded, finished, passed, unasked>>

Unlocked(j) == [w \in Windows |-> IF lock[w] = j THEN NoJob ELSE lock[w]]

(* set_ctx_dispatch_result, the lock released, context_jobs.finish.         *)
Finish(j) ==
    /\ job[j].at \in {"ok", "failed"}
    /\ status' = job[j].at
    /\ lock' = Unlocked(j)
    /\ job' = [job EXCEPT ![j] = Free]
    /\ UNCHANGED <<transcript, attached, win, hand, queued, modified, summed,
                   recorded, finished, passed, unasked>>

(* An exception on the way: "failed", and nothing more.                     *)
Raise(j) ==
    /\ CanCrash
    /\ job[j].at \in {"entered", "read", "trim", "skip", "bare", "merge", "record", "write", "clear"}
    /\ Becomes(j, "failed")
    /\ UNCHANGED <<transcript, attached, win, status, lock, hand, queued,
                   modified, summed, recorded, finished, passed, unasked>>

(* The process dies; the kernel releases its lock.                          *)
Crash(j) ==
    /\ CanCrash /\ job[j].at # "free"
    /\ lock' = Unlocked(j)
    /\ job' = [job EXCEPT ![j] = Free]
    /\ UNCHANGED <<transcript, attached, win, status, hand, queued, modified,
                   summed, recorded, finished, passed, unasked>>

-----------------------------------------------------------------------------
(* manual.done: the planner has edited the files itself and closes the      *)
(* update; it takes no dispatch.lock.                                       *)

DoneRead(w) ==
    /\ CanFinish /\ w \in attached /\ hand[w].at = "idle"
    /\ hand' = [hand EXCEPT ![w] = [at |-> "write",
                  snap |-> [win[w] EXCEPT !.cursor = Later(@, Last(w))]]]
    /\ finished' = [finished EXCEPT ![w] = Last(w)]
    /\ UNCHANGED <<transcript, attached, win, status, lock, job, queued,
                   modified, summed, recorded, passed, unasked>>

DoneWrite(w) ==
    /\ hand[w].at = "write"
    /\ win' = [win EXCEPT ![w] = [hand[w].snap EXCEPT !.there = TRUE]]
    /\ hand' = [hand EXCEPT ![w].at = "status"]
    /\ UNCHANGED <<transcript, attached, status, lock, job, queued, modified,
                   summed, recorded, finished, passed, unasked>>

DoneStatus(w) ==
    /\ hand[w].at = "status"
    /\ \E outcome \in {"ok", "failed"} : status' = outcome
    /\ hand' = [hand EXCEPT ![w].at = "clear"]
    /\ UNCHANGED <<transcript, attached, win, lock, job, queued, modified,
                   summed, recorded, finished, passed, unasked>>

DoneClear(w) ==
    /\ hand[w].at = "clear"
    /\ win' = [win EXCEPT ![w].touched = {}]
    /\ hand' = [hand EXCEPT ![w] = Idle]
    /\ UNCHANGED <<transcript, attached, status, lock, job, queued, modified,
                   summed, recorded, finished, passed, unasked>>

-----------------------------------------------------------------------------
WindowStep(w) ==
    \/ Speak(w) \/ Attach(w) \/ Detach(w) \/ DetachStale(w) \/ AttachElsewhere(w)
    \/ QueueTouched(w) \/ CoolsDown(w)
CreateStep(j) == \E w \in Windows : CheckAttached(j, w) \/ HookRun(j, w) \/ RunManual(j, w)
JobStep(j) ==
    \/ LookUp(j) \/ Enter(j) \/ Snapshot(j) \/ ReadExcerpt(j) \/ WriteTask(j)
    \/ SkipEmpty(j) \/ SkipUnasked(j)
    \/ ModelAnswers(j) \/ ModelsFail(j) \/ MergeContext(j) \/ MergeRecord(j)
    \/ WriteCounters(j) \/ ClearTouched(j) \/ Finish(j)
DoneStep(w) == DoneRead(w) \/ DoneWrite(w) \/ DoneStatus(w) \/ DoneClear(w)

Next ==
    \/ \E w \in Windows : WindowStep(w) \/ DoneStep(w)
    \/ \E j \in Jobs : CreateStep(j) \/ JobStep(j) \/ Raise(j) \/ Crash(j)

Spec == Init /\ [][Next]_vars

(* The daemon sweeps for ever, jobs run, flock lets every waiter in, the    *)
(* cooldown ends, and models asked again and again answer in the end.       *)
FairSpec ==
    /\ Spec
    /\ \A w \in Windows : /\ WF_vars(CoolsDown(w))
                          /\ \A j \in Sweeper : SF_vars(CheckAttached(j, w))
    /\ \A j \in Jobs : /\ WF_vars(JobStep(j))
                       /\ SF_vars(Enter(j))
                       /\ SF_vars(ModelAnswers(j))

-----------------------------------------------------------------------------
Stages == {"free", "queued", "waiting", "entered", "read", "trim", "skip", "bare",
           "model", "merge", "record", "write", "clear", "ok", "failed"}
WindowStates == [there : BOOLEAN, cursor : 0 .. MaxEvents, touched : SUBSET Paths,
                 cool : BOOLEAN]
JobStates == [at : Stages, win : Windows, half : {"both", "ctx", "updr"},
              limit : 0 .. MaxEvents, snap : WindowStates, texts : SUBSET Events,
              touched : SUBSET Paths, upto : 0 .. MaxEvents]

(* Every variable has its type.                                             *)
TypeOK ==
    /\ transcript \in [Windows -> Seq(Kinds)] /\ \A w \in Windows : Last(w) <= MaxEvents
    /\ attached \subseteq Windows
    /\ win \in [Windows -> WindowStates]
    /\ status \in {"never run", "pending", "ok", "failed"}
    /\ lock \in [Windows -> Jobs \union {NoJob}]
    /\ job \in [Jobs -> JobStates]
    /\ hand \in [Windows -> [at : {"idle", "write", "status", "clear"}, snap : WindowStates]]
    /\ queued \in [Windows -> 0 .. MaxTouched]
    /\ modified \in [Windows -> 0 .. MaxEvents]
    /\ summed \in [Windows -> [Events -> 0 .. 2]]
    /\ recorded \in [Windows -> SUBSET Events]
    /\ finished \in [Windows -> 0 .. MaxEvents]
    /\ passed \in [Windows -> SUBSET Paths]
    /\ unasked \in [Windows -> SUBSET Events]

(* One job at a time works on a window, however it was started.             *)
Inside == Stages \ {"free", "queued", "waiting"}
OneJobPerWindow ==
    \A j, k \in Jobs :
       job[j].at \in Inside /\ job[k].at \in Inside /\ job[j].win = job[k].win => j = k

(* A text the cursor has passed was in a merged report, was covered by      *)
(* `owrap ctx done`, or came before an attach: nothing said is skipped by   *)
(* failed models, queued jobs, stale counters, crashes or a detach.  Two    *)
(* kinds of text are passed unmerged (see README): the oldest of an excerpt *)
(* over the limit, so that as much as a report can hold was merged of what  *)
(* is later than it; and what a job for the record alone read when the      *)
(* session had no record.                                                   *)
Crowded(w, i) ==
    Cardinality({k \in Events : k > i /\ summed[w][k] > 0}) + Cardinality(passed[w])
        >= MaxExcerpt
Accounted(w, i) ==
    \/ summed[w][i] > 0
    \/ i <= finished[w]
    \/ \E m \in i .. Last(w) : transcript[w][m] = "marker"
    \/ Crowded(w, i)
    \/ i \in unasked[w]
NothingSkipped ==
    \A w \in Windows :
       \A i \in 1 .. win[w].cursor : transcript[w][i] = "text" => Accounted(w, i)

(* No text is merged twice, unless a job died between merging its report    *)
(* and moving the cursor, or the window detached.                           *)
MergedOnce == \A w \in Windows, i \in Events : summed[w][i] <= 1

(* The cursor of a window never moves backward (dispatch.py:694), whatever  *)
(* order jobs are queued, admitted and finished in.                         *)
CursorNeverBack == [][\A w \in Windows : win'[w].cursor >= win[w].cursor]_vars

(* Once processes stop dying and raising, what is said in a window that     *)
(* stays attached gets summarised as soon as there is enough of it, past    *)
(* failing models, cooldowns, competing jobs and whatever the dead left.    *)
FaultsStop == <>[][\A j \in Jobs : ~Crash(j) /\ ~Raise(j)]_vars
GrowthIsSummarised ==
    FaultsStop =>
        \A w \in Windows :
            w \in attached /\ Pending(w) >= MinChars
                ~> Pending(w) < MinChars \/ w \notin attached
=============================================================================
