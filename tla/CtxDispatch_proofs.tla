------------------------- MODULE CtxDispatch_proofs --------------------------
(* What a cursor promises, for any number of windows, jobs and events.      *)
EXTENDS CtxDispatch, FiniteSetTheorems, TLAPS

LEMMA FreeIsAJob == Free \in JobStates /\ NoWindow \in WindowStates
<1>1. NoWindow \in WindowStates
  BY BoundsAssumption DEF NoWindow, WindowStates
<1>. QED  BY <1>1, WindowsAssumption, BoundsAssumption DEF Free, JobStates, Stages

(* The records of the windows map and of the jobs keep their type.          *)
LEMMA WindowEdits ==
    ASSUME NEW r \in WindowStates, NEW c \in 0 .. MaxEvents, NEW b \in BOOLEAN,
           NEW t \in SUBSET Paths
    PROVE  /\ [r EXCEPT !.there = TRUE] \in WindowStates
           /\ [r EXCEPT !.there = TRUE, !.touched = t] \in WindowStates
           /\ [r EXCEPT !.touched = t] \in WindowStates
           /\ [r EXCEPT !.cool = FALSE] \in WindowStates
           /\ [r EXCEPT !.cursor = c] \in WindowStates
           /\ [r EXCEPT !.there = TRUE, !.cursor = c, !.cool = @ \/ b] \in WindowStates
BY DEF WindowStates

LEMMA JobEdits ==
    ASSUME NEW r \in JobStates, NEW a \in Stages, NEW s \in WindowStates,
           NEW x \in SUBSET Events, NEW t \in SUBSET Paths,
           NEW n \in 0 .. MaxEvents, NEW u \in 0 .. MaxEvents
    PROVE  /\ [r EXCEPT !.at = a] \in JobStates
           /\ [r EXCEPT !.snap = s, !.at = a] \in JobStates
           /\ [r EXCEPT !.texts = x, !.touched = t, !.at = a] \in JobStates
           /\ [r EXCEPT !.texts = x, !.touched = t, !.limit = n, !.upto = u, !.at = a]
                \in JobStates
BY DEF JobStates

(* The transcript of a window is read up to a bound.                        *)
LEMMA LastIsANumber == ASSUME TypeOK, NEW w \in Windows
                       PROVE  Last(w) \in 0 .. MaxEvents
<1>1. transcript[w] \in Seq(Kinds)
  BY DEF TypeOK
<1>2. Len(transcript[w]) \in Nat
  BY <1>1
<1>3. Last(w) <= MaxEvents
  BY DEF TypeOK
<1>. QED  BY <1>2, <1>3, BoundsAssumption DEF Last

LEMMA NextLastIsANumber == ASSUME TypeOK', NEW w \in Windows
                           PROVE  Last(w)' \in 0 .. MaxEvents
<1>1. transcript'[w] \in Seq(Kinds)
  BY DEF TypeOK
<1>2. Len(transcript'[w]) \in Nat
  BY <1>1
<1>3. Last(w)' <= MaxEvents
  BY DEF TypeOK
<1>. QED  BY <1>2, <1>3, BoundsAssumption DEF Last

LEMMA InitType == Init => TypeOK
<1>. SUFFICES ASSUME Init PROVE TypeOK
  OBVIOUS
<1>1. /\ transcript \in [Windows -> Seq(Kinds)] /\ \A w \in Windows : Last(w) <= MaxEvents
  <2>1. <<>> \in Seq(Kinds) /\ Len(<<>>) = 0
    OBVIOUS
  <2>2. transcript \in [Windows -> Seq(Kinds)] /\ \A w \in Windows : transcript[w] = <<>>
    BY <2>1 DEF Init
  <2>3. 0 <= MaxEvents
    BY BoundsAssumption
  <2>. QED  BY <2>1, <2>2, <2>3 DEF Last
<1>2. summed \in [Windows -> [Events -> 0 .. 2]]
  <2>1. [i \in Events |-> 0] \in [Events -> 0 .. 2]
    OBVIOUS
  <2>. QED  BY <2>1 DEF Init
<1>3. hand \in [Windows -> [at : {"idle", "write", "status", "clear"}, snap : WindowStates]]
  <2>1. Idle \in [at : {"idle", "write", "status", "clear"}, snap : WindowStates]
    BY FreeIsAJob DEF Idle
  <2>. QED  BY <2>1 DEF Init
<1>4. /\ win \in [Windows -> WindowStates] /\ job \in [Jobs -> JobStates]
      /\ lock \in [Windows -> Jobs \union {NoJob}]
  BY FreeIsAJob DEF Init
<1>5. /\ queued \in [Windows -> 0 .. MaxTouched] /\ modified \in [Windows -> 0 .. MaxEvents]
      /\ finished \in [Windows -> 0 .. MaxEvents]
      /\ recorded \in [Windows -> SUBSET Events] /\ passed \in [Windows -> SUBSET Paths]
      /\ unasked \in [Windows -> SUBSET Events]
  <2>1. 0 \in 0 .. MaxTouched /\ 0 \in 0 .. MaxEvents
    BY BoundsAssumption
  <2>. QED  BY <2>1 DEF Init
<1>6. attached \subseteq Windows /\ status \in {"never run", "pending", "ok", "failed"}
  BY DEF Init
<1>. QED  BY <1>1, <1>2, <1>3, <1>4, <1>5, <1>6 DEF TypeOK

LEMMA WindowStepType ==
    ASSUME TypeOK, NEW w \in Windows, WindowStep(w)
    PROVE  TypeOK'
<1>0. win[w] \in WindowStates /\ win \in [Windows -> WindowStates]
  BY DEF TypeOK
<1>1. CASE Speak(w) \/ Attach(w)
  <2>1. PICK kind \in Kinds : transcript' = [transcript EXCEPT ![w] = Append(@, kind)]
    BY <1>1 DEF Speak, Attach, Hear, Kinds
  <2>2. transcript[w] \in Seq(Kinds) /\ Last(w) < MaxEvents
    BY <1>1 DEF TypeOK, Speak, Attach
  <2>3. /\ Append(transcript[w], kind) \in Seq(Kinds)
        /\ Len(Append(transcript[w], kind)) = Len(transcript[w]) + 1
        /\ Len(transcript[w]) \in Nat
    BY <2>2
  <2>4. transcript' \in [Windows -> Seq(Kinds)]
    BY <2>1, <2>3 DEF TypeOK
  <2>5. \A v \in Windows : Last(v)' <= MaxEvents
    <3>. SUFFICES ASSUME NEW v \in Windows PROVE Len(transcript'[v]) <= MaxEvents
      BY DEF Last
    <3>1. Last(v) <= MaxEvents /\ transcript \in [Windows -> Seq(Kinds)]
      BY DEF TypeOK
    <3>2. Last(w) + 1 <= MaxEvents
      BY <2>2, <2>3, BoundsAssumption DEF Last
    <3>. QED  BY <2>1, <2>3, <3>1, <3>2 DEF Last
  <2>6. win' \in [Windows -> WindowStates]
    <3>1. [win[w] EXCEPT !.there = TRUE] \in WindowStates
      BY <1>0, WindowEdits, FreeIsAJob, BoundsAssumption DEF WindowStates
    <3>. QED  BY <1>0, <1>1, <3>1 DEF Speak, Attach
  <2>. QED  BY <1>1, <2>4, <2>5, <2>6 DEF TypeOK, Speak, Attach
<1>2. CASE Detach(w) \/ DetachStale(w) \/ AttachElsewhere(w)
  BY <1>2, FreeIsAJob DEF TypeOK, Detach, DetachStale, AttachElsewhere, Last
<1>3. CASE QueueTouched(w)
  <2>0. queued[w] \in 0 .. MaxTouched /\ queued[w] + 1 \in Paths
    <3>1. queued[w] \in 0 .. MaxTouched
      BY DEF TypeOK
    <3>2. queued[w] < MaxTouched
      BY <1>3 DEF QueueTouched
    <3>. QED  BY <3>1, <3>2, BoundsAssumption DEF Paths
  <2>1. win[w].touched \union {queued[w] + 1} \in SUBSET Paths
        /\ queued' \in [Windows -> 0 .. MaxTouched]
    <3>1. win[w].touched \subseteq Paths
      BY <1>0 DEF WindowStates
    <3>2. queued' \in [Windows -> 0 .. MaxTouched]
      <4>1. queued[w] + 1 \in 0 .. MaxTouched
        BY <2>0, BoundsAssumption DEF Paths
      <4>2. queued \in [Windows -> 0 .. MaxTouched]
        BY DEF TypeOK
      <4>. QED  BY <1>3, <4>1, <4>2 DEF QueueTouched
    <3>. QED  BY <2>0, <3>1, <3>2
  <2>2. [win[w] EXCEPT !.there = TRUE, !.touched = win[w].touched \union {queued[w] + 1}]
          \in WindowStates
    BY <1>0, <2>1 DEF WindowStates
  <2>3. win' \in [Windows -> WindowStates]
    BY <1>0, <1>3, <2>2, Zenon DEF QueueTouched
  <2>. QED  BY <1>3, <2>1, <2>3 DEF TypeOK, QueueTouched, Last
<1>4. CASE CoolsDown(w)
  <2>1. [win[w] EXCEPT !.cool = FALSE] \in WindowStates
    BY <1>0 DEF WindowStates
  <2>2. win' \in [Windows -> WindowStates]
    BY <1>0, <1>4, <2>1 DEF CoolsDown
  <2>. QED  BY <1>4, <2>2 DEF TypeOK, CoolsDown, Last
<1>. QED  BY <1>1, <1>2, <1>3, <1>4 DEF WindowStep

LEMMA DoneStepType ==
    ASSUME TypeOK, NEW w \in Windows, DoneStep(w)
    PROVE  TypeOK'
<1>0. /\ win[w] \in WindowStates /\ win \in [Windows -> WindowStates]
      /\ hand[w].snap \in WindowStates
  BY DEF TypeOK
<1>1. win' \in [Windows -> WindowStates]
  <2>1. /\ [hand[w].snap EXCEPT !.there = TRUE] \in WindowStates
        /\ [win[w] EXCEPT !.touched = {}] \in WindowStates
    BY <1>0 DEF WindowStates
  <2>. QED  BY <1>0, <2>1 DEF DoneStep, DoneRead, DoneWrite, DoneStatus, DoneClear
<1>2. hand' \in [Windows -> [at : {"idle", "write", "status", "clear"}, snap : WindowStates]]
  <2>1. Later(win[w].cursor, Last(w)) \in 0 .. MaxEvents
    BY <1>0, LastIsANumber DEF Later, WindowStates
  <2>2. [win[w] EXCEPT !.cursor = Later(win[w].cursor, Last(w))] \in WindowStates
    BY <1>0, <2>1 DEF WindowStates
  <2>. DEFINE Hands == [at : {"idle", "write", "status", "clear"}, snap : WindowStates]
  <2>3. hand \in [Windows -> Hands] /\ hand[w] \in Hands
    BY DEF TypeOK
  <2>4. /\ [at |-> "write", snap |-> [win[w] EXCEPT !.cursor = Later(win[w].cursor, Last(w))]]
             \in Hands
        /\ [hand[w] EXCEPT !.at = "status"] \in Hands
        /\ [hand[w] EXCEPT !.at = "clear"] \in Hands
        /\ Idle \in Hands
    BY <2>2, <2>3, FreeIsAJob DEF Idle
  <2>. HIDE DEF Hands
  <2>5. hand' \in [Windows -> Hands]
    BY <2>3, <2>4 DEF DoneStep, DoneRead, DoneWrite, DoneStatus, DoneClear
  <2>. QED  BY <2>5 DEF Hands
<1>3. finished' \in [Windows -> 0 .. MaxEvents]
  BY LastIsANumber DEF TypeOK, DoneStep, DoneRead, DoneWrite, DoneStatus, DoneClear
<1>. QED  BY <1>1, <1>2, <1>3 DEF TypeOK, DoneStep, DoneRead, DoneWrite, DoneStatus,
             DoneClear, Last

(* A job reads no more than there is, and never goes behind its snapshot.   *)
LEMMA CeilingIsANumber ==
    ASSUME TypeOK, NEW j \in Jobs
    PROVE  Ceiling(j) \in 0 .. MaxEvents /\ Upto(j) \in 0 .. MaxEvents
<1>1. /\ job[j].win \in Windows /\ job[j].limit \in 0 .. MaxEvents
      /\ job[j].snap.cursor \in 0 .. MaxEvents
  BY DEF TypeOK, JobStates, WindowStates
<1>. QED  BY <1>1, LastIsANumber DEF Ceiling, Upto, Later

LEMMA CreateStepType ==
    ASSUME TypeOK, NEW j \in Jobs, CreateStep(j)
    PROVE  TypeOK'
<1>1. PICK w \in Windows : CheckAttached(j, w) \/ HookRun(j, w) \/ RunManual(j, w)
  BY DEF CreateStep
<1>2. PICK half \in {"both", "ctx", "updr"}, a \in Stages : Create(j, w, half, a)
  BY <1>1, HalvesAssumption DEF CheckAttached, HookRun, RunManual, Stages
<1>3. [Free EXCEPT !.at = a, !.win = w, !.half = half, !.limit = Last(w)] \in JobStates
  BY FreeIsAJob, LastIsANumber DEF JobStates
<1>4. job' \in [Jobs -> JobStates]
  BY <1>2, <1>3 DEF TypeOK, Create
<1>. QED  BY <1>2, <1>4 DEF TypeOK, Create, Last

(* What writing the task makes of a job: a request for a model about the    *)
(* texts of the excerpt that fit, or none.                                  *)
LEMMA TaskWritten ==
    ASSUME TypeOK, NEW j \in Jobs, WriteTask(j)
    PROVE  /\ job[j].at = "trim"
           /\ \E r \in JobStates :
                /\ job' = [job EXCEPT ![j] = r]
                /\ r.win = job[j].win /\ r.snap = job[j].snap /\ r.limit = job[j].limit
                /\ r.upto = job[j].upto /\ r.texts \subseteq job[j].texts
                /\ \/ r.at = "bare" /\ r.texts = job[j].texts
                   \/ r.at = "model" /\ Trimmed(job[j], r.texts, r.touched)
<1>0. job[j] \in JobStates
  BY DEF TypeOK
<1>1. CASE Becomes(j, "bare")
  <2>. DEFINE r == [job[j] EXCEPT !.at = "bare"]
  <2>1. r \in JobStates /\ job' = [job EXCEPT ![j] = r]
    BY <1>0, <1>1 DEF Becomes, JobStates, Stages
  <2>2. /\ r.win = job[j].win /\ r.snap = job[j].snap /\ r.limit = job[j].limit
        /\ r.upto = job[j].upto /\ r.texts = job[j].texts /\ r.at = "bare"
    BY <1>0 DEF JobStates
  <2>. HIDE DEF r
  <2>. QED  BY <2>1, <2>2 DEF WriteTask
<1>2. CASE \E texts \in SUBSET job[j].texts, touched \in SUBSET job[j].touched :
             /\ Trimmed(job[j], texts, touched)
             /\ job' = [job EXCEPT ![j].texts = texts, ![j].touched = touched, ![j].at = "model"]
  <2>1. PICK texts \in SUBSET job[j].texts, touched \in SUBSET job[j].touched :
             /\ Trimmed(job[j], texts, touched)
             /\ job' = [job EXCEPT ![j].texts = texts, ![j].touched = touched, ![j].at = "model"]
    BY <1>2
  <2>. DEFINE r == [job[j] EXCEPT !.texts = texts, !.touched = touched, !.at = "model"]
  <2>2. r \in JobStates /\ job' = [job EXCEPT ![j] = r]
    BY <1>0, <2>1 DEF JobStates, Stages
  <2>3. /\ r.win = job[j].win /\ r.snap = job[j].snap /\ r.limit = job[j].limit
        /\ r.upto = job[j].upto /\ r.texts = texts /\ r.touched = touched /\ r.at = "model"
    BY <1>0 DEF JobStates
  <2>. HIDE DEF r
  <2>. QED  BY <2>1, <2>2, <2>3 DEF WriteTask
<1>. QED  BY <1>1, <1>2 DEF WriteTask

LEMMA JobStepType ==
    ASSUME TypeOK, NEW j \in Jobs, JobStep(j) \/ Raise(j) \/ Crash(j)
    PROVE  TypeOK'
<1>0. /\ job[j] \in JobStates /\ job \in [Jobs -> JobStates]
      /\ job[j].win \in Windows /\ job[j].snap \in WindowStates
      /\ win \in [Windows -> WindowStates] /\ win[job[j].win] \in WindowStates
      /\ \A a \in Stages : [job[j] EXCEPT !.at = a] \in JobStates
  <2>1. job[j] \in JobStates /\ job \in [Jobs -> JobStates] /\ win \in [Windows -> WindowStates]
    BY DEF TypeOK
  <2>2. job[j].win \in Windows /\ job[j].snap \in WindowStates
    BY <2>1 DEF JobStates
  <2>3. \A a \in Stages : [job[j] EXCEPT !.at = a] \in JobStates
    BY <2>1 DEF JobStates
  <2>. QED  BY <2>1, <2>2, <2>3
<1>1. CASE LookUp(j) \/ Enter(j) \/ ModelAnswers(j) \/ ModelsFail(j)
           \/ Finish(j) \/ Raise(j) \/ Crash(j)
  <2>1. job' = [job EXCEPT ![j] = Free]
        \/ \E a \in Stages : job' = [job EXCEPT ![j] = [job[j] EXCEPT !.at = a]]
    BY <1>1 DEF Stages, Becomes, LookUp, Enter, ModelAnswers, ModelsFail, Finish, Raise, Crash
  <2>2. job' \in [Jobs -> JobStates]
    BY <1>0, <2>1, FreeIsAJob
  <2>3. lock' \in [Windows -> Jobs \union {NoJob}]
    BY <1>0, <1>1 DEF TypeOK, Unlocked, LookUp, Enter, ModelAnswers, ModelsFail, Finish,
       Raise, Crash
  <2>4. status' \in {"never run", "pending", "ok", "failed"}
    BY <1>1 DEF TypeOK, LookUp, Enter, ModelAnswers, ModelsFail, Finish, Raise, Crash
  <2>. QED  BY <1>1, <2>2, <2>3, <2>4 DEF TypeOK, Last, LookUp, Enter, ModelAnswers,
               ModelsFail, Finish, Raise, Crash
<1>2. CASE Snapshot(j)
  <2>1. PICK a \in Stages :
          job' = [job EXCEPT ![j] = [job[j] EXCEPT !.snap = win[job[j].win], !.at = a]]
    BY <1>2 DEF Snapshot, Stages
  <2>2. [job[j] EXCEPT !.snap = win[job[j].win], !.at = a] \in JobStates
    BY <1>0 DEF JobStates
  <2>3. job' \in [Jobs -> JobStates]
    BY <1>0, <2>1, <2>2
  <2>. QED  BY <1>2, <2>3 DEF TypeOK, Last, Snapshot
<1>3. CASE ReadExcerpt(j)
  <2>. DEFINE x == Texts(job[j].win, job[j].snap.cursor, Ceiling(j))
              t == win[job[j].win].touched
  <2>1. x \in SUBSET Events /\ t \in SUBSET Paths
    <3>1. Ceiling(j) \in 0 .. MaxEvents
      BY CeilingIsANumber
    <3>2. 1 .. Ceiling(j) \subseteq Events
      BY <3>1, BoundsAssumption DEF Events
    <3>. QED  BY <1>0, <3>2 DEF Texts, After, WindowStates
  <2>2. PICK a \in Stages :
          job' = [job EXCEPT ![j] = [job[j] EXCEPT !.texts = x, !.touched = t,
                                       !.limit = Ceiling(j), !.upto = Upto(j), !.at = a]]
    BY <1>3 DEF ReadExcerpt, Stages
  <2>3. [job[j] EXCEPT !.texts = x, !.touched = t, !.limit = Ceiling(j), !.upto = Upto(j),
                       !.at = a] \in JobStates
    <3>. HIDE DEF x, t
    <3>. QED  BY <1>0, <2>1, CeilingIsANumber DEF JobStates
  <2>4. job' \in [Jobs -> JobStates]
    <3>. HIDE DEF x, t
    <3>. QED  BY <1>0, <2>2, <2>3
  <2>. QED  BY <1>3, <2>4 DEF TypeOK, ReadExcerpt, Last
<1>7. CASE WriteTask(j)
  <2>1. job' \in [Jobs -> JobStates]
    BY <1>0, <1>7, TaskWritten
  <2>. QED  BY <1>7, <2>1 DEF TypeOK, WriteTask, Last
<1>4. CASE SkipEmpty(j) \/ SkipUnasked(j) \/ WriteCounters(j) \/ ClearTouched(j)
  <2>1. PICK a \in Stages : job' = [job EXCEPT ![j] = [job[j] EXCEPT !.at = a]]
    BY <1>4 DEF Stages, Becomes, SkipEmpty, SkipUnasked, WriteCounters, ClearTouched
  <2>2. job' \in [Jobs -> JobStates]
    BY <1>0, <2>1
  <2>3. win' \in [Windows -> WindowStates]
    <3>1. job[j].upto \in 0 .. MaxEvents
      BY <1>0 DEF JobStates
    <3>2. \A b \in BOOLEAN : [job[j].snap EXCEPT !.there = TRUE, !.cursor = job[j].upto,
                                               !.cool = @ \/ b] \in WindowStates
      BY <1>0, <3>1, WindowEdits
    <3>3. [win[job[j].win] EXCEPT !.touched = {}] \in WindowStates
      BY <1>0 DEF WindowStates
    <3>. QED  BY <1>0, <1>4, <3>2, <3>3 DEF SkipEmpty, SkipUnasked, WriteCounters, ClearTouched,
                 Rewrite
  <2>4. unasked' \in [Windows -> SUBSET Events]
    <3>1. unasked[job[j].win] \union job[j].texts \in SUBSET Events
      BY <1>0 DEF TypeOK, JobStates
    <3>. QED  BY <1>0, <1>4, <3>1 DEF TypeOK, SkipEmpty, SkipUnasked, WriteCounters, ClearTouched
  <2>. QED  BY <1>4, <2>2, <2>3, <2>4 DEF TypeOK, Last, SkipEmpty, SkipUnasked, WriteCounters,
               ClearTouched
<1>5. CASE MergeContext(j)
  <2>1. PICK a \in Stages : job' = [job EXCEPT ![j] = [job[j] EXCEPT !.at = a]]
    BY <1>5 DEF Stages, Becomes, MergeContext
  <2>2. job' \in [Jobs -> JobStates]
    BY <1>0, <2>1
  <2>3. summed' \in [Windows -> [Events -> 0 .. 2]]
    <3>0. /\ summed \in [Windows -> [Events -> 0 .. 2]] /\ job[j].win \in Windows
          /\ job[j].texts \subseteq Events
      BY <1>0 DEF TypeOK, JobStates
    <3>1. \A i \in Events : summed[job[j].win][i] \in 0 .. 2
      BY <3>0
    <3>2. [i \in Events |-> IF i \in job[j].texts /\ summed[job[j].win][i] < 2
                            THEN summed[job[j].win][i] + 1 ELSE summed[job[j].win][i]]
            \in [Events -> 0 .. 2]
      BY <3>1
    <3>. QED  BY <1>0, <1>5, <3>2 DEF TypeOK, MergeContext
  <2>4. passed' \in [Windows -> SUBSET Paths]
    <3>1. passed[job[j].win] \union job[j].touched \in SUBSET Paths
      BY <1>0 DEF TypeOK, JobStates
    <3>. QED  BY <1>0, <1>5, <3>1 DEF TypeOK, MergeContext
  <2>. QED  BY <1>5, <2>2, <2>3, <2>4 DEF TypeOK, Last, MergeContext
<1>6. CASE MergeRecord(j)
  <2>1. job' = [job EXCEPT ![j] = [job[j] EXCEPT !.at = "write"]]
    BY <1>6 DEF Becomes, MergeRecord
  <2>2. job' \in [Jobs -> JobStates]
    BY <1>0, <2>1 DEF Stages
  <2>3. modified' \in [Windows -> 0 .. MaxEvents]
    <3>1. \A w \in Windows : Last(w) \in 0 .. MaxEvents
      BY LastIsANumber
    <3>2. modified' = modified \/ modified' = [w \in Windows |-> Last(w)]
      BY <1>6 DEF MergeRecord
    <3>3. modified \in [Windows -> 0 .. MaxEvents]
      BY DEF TypeOK
    <3>. QED  BY <3>1, <3>2, <3>3
  <2>4. recorded' \in [Windows -> SUBSET Events]
    <3>1. recorded[job[j].win] \union job[j].texts \in SUBSET Events
      BY <1>0 DEF TypeOK, JobStates
    <3>. QED  BY <1>0, <1>6, <3>1 DEF TypeOK, MergeRecord
  <2>. QED  BY <1>6, <2>2, <2>3, <2>4 DEF TypeOK, Last, MergeRecord
<1>. QED  BY <1>1, <1>2, <1>3, <1>4, <1>5, <1>6, <1>7 DEF JobStep

LEMMA NextType == TypeOK /\ [Next]_vars => TypeOK'
<1>. SUFFICES ASSUME TypeOK, [Next]_vars PROVE TypeOK'
  OBVIOUS
<1>1. CASE UNCHANGED vars
  BY <1>1 DEF TypeOK, vars, Last
<1>2. CASE Next
  BY <1>2, WindowStepType, DoneStepType, CreateStepType, JobStepType DEF Next
<1>. QED  BY <1>1, <1>2

(* TypeOK is an invariant.                                                  *)
THEOREM TypeCorrect == Spec => []TypeOK
BY InitType, NextType, PTL DEF Spec

-----------------------------------------------------------------------------
(* A job inside its window's lock holds it.                                 *)
LockInv == \A j \in Jobs : job[j].at \in Inside => lock[job[j].win] = j

(* How a step of job j changes the jobs and the locks.                      *)
Moves(j) ==
    /\ lock' = lock
    /\ \E r \in JobStates :
         /\ job' = [job EXCEPT ![j] = r]
         /\ r.at \in Inside => job[j].at \in Inside /\ r.win = job[j].win
Leaves(j) == job' = [job EXCEPT ![j] = Free] /\ lock' = Unlocked(j)
Enters(j) ==
    /\ lock[job[j].win] = NoJob
    /\ lock' = [lock EXCEPT ![job[j].win] = j]
    /\ \E r \in JobStates : job' = [job EXCEPT ![j] = r] /\ r.win = job[j].win

LEMMA JobMoves ==
    ASSUME TypeOK, TypeOK', NEW j \in Jobs,
           CreateStep(j) \/ JobStep(j) \/ Raise(j) \/ Crash(j)
    PROVE  Moves(j) \/ Leaves(j) \/ Enters(j)
<1>0. /\ job[j] \in JobStates /\ job \in [Jobs -> JobStates]
      /\ job' \in [Jobs -> JobStates] /\ job'[j] \in JobStates
  BY DEF TypeOK
<1>1. CASE CreateStep(j)
  <2>1. PICK w \in Windows : CheckAttached(j, w) \/ HookRun(j, w) \/ RunManual(j, w)
    BY <1>1 DEF CreateStep
  <2>2. PICK half \in {"both", "ctx", "updr"}, a \in {"waiting", "queued"} :
          Create(j, w, half, a)
    BY <2>1, HalvesAssumption DEF CheckAttached, HookRun, RunManual
  <2>. DEFINE r == [Free EXCEPT !.at = a, !.win = w, !.half = half, !.limit = Last(w)]
  <2>3. r \in JobStates
    BY FreeIsAJob, LastIsANumber DEF JobStates, Stages
  <2>4. r.at \notin Inside
    BY DEF Free, Inside
  <2>5. job' = [job EXCEPT ![j] = r] /\ lock' = lock
    BY <2>2 DEF Create
  <2>. QED  BY <2>3, <2>4, <2>5 DEF Moves
<1>2. CASE Enter(j)
  <2>1. [job[j] EXCEPT !.at = "entered"] \in JobStates
    BY <1>0 DEF JobStates, Stages
  <2>. QED  BY <1>0, <1>2, <2>1 DEF Enters, Enter, Becomes, JobStates
<1>3. CASE Finish(j) \/ Crash(j)
  BY <1>3 DEF Leaves, Finish, Crash
<1>4. CASE LookUp(j)
  <2>1. job'[j].at \notin Inside
    <3>1. job'[j] = Free \/ job'[j] = [job[j] EXCEPT !.at = "waiting"]
      BY <1>0, <1>4 DEF LookUp, Becomes
    <3>2. Free.at = "free" /\ [job[j] EXCEPT !.at = "waiting"].at = "waiting"
      BY <1>0 DEF Free, JobStates
    <3>. QED  BY <3>1, <3>2 DEF Inside
  <2>2. lock' = lock /\ job' = [job EXCEPT ![j] = job'[j]]
    BY <1>0, <1>4 DEF LookUp, Becomes
  <2>. QED  BY <1>0, <2>1, <2>2 DEF Moves
<1>6. CASE WriteTask(j)
  <2>1. job[j].at \in Inside /\ lock' = lock
    BY <1>6 DEF Inside, Stages, WriteTask
  <2>. QED  BY <1>6, <2>1, TaskWritten DEF Moves
<1>5. CASE Snapshot(j) \/ ReadExcerpt(j) \/ SkipEmpty(j) \/ SkipUnasked(j) \/ ModelAnswers(j)
           \/ ModelsFail(j) \/ MergeContext(j) \/ MergeRecord(j) \/ WriteCounters(j)
           \/ ClearTouched(j) \/ Raise(j)
  <2>1. job[j].at \in Inside /\ lock' = lock
    BY <1>5 DEF Inside, Stages, Snapshot, ReadExcerpt, SkipEmpty, SkipUnasked, ModelAnswers, ModelsFail,
       MergeContext, MergeRecord, WriteCounters, ClearTouched, Raise
  <2>2. job' = [job EXCEPT ![j] = job'[j]] /\ job'[j].win = job[j].win
    <3>1. CASE Snapshot(j)
      BY <1>0, <3>1 DEF JobStates, Snapshot
    <3>2. CASE ReadExcerpt(j)
      <4>. DEFINE x == Texts(job[j].win, job[j].snap.cursor, Ceiling(j))
                  t == win[job[j].win].touched
      <4>1. PICK a \in Stages :
              job' = [job EXCEPT ![j] = [job[j] EXCEPT !.texts = x, !.touched = t,
                                           !.limit = Ceiling(j), !.upto = Upto(j), !.at = a]]
        BY <3>2 DEF ReadExcerpt, Stages
      <4>. HIDE DEF x, t
      <4>. QED  BY <1>0, <4>1 DEF JobStates
    <3>3. CASE ~Snapshot(j) /\ ~ReadExcerpt(j)
      <4>1. PICK a : job' = [job EXCEPT ![j] = [job[j] EXCEPT !.at = a]]
        BY <1>5, <3>3 DEF Becomes, SkipEmpty, SkipUnasked, ModelAnswers, ModelsFail, MergeContext,
           MergeRecord, WriteCounters, ClearTouched, Raise
      <4>. QED  BY <1>0, <4>1 DEF JobStates
    <3>. QED  BY <3>1, <3>2, <3>3
  <2>. QED  BY <1>0, <2>1, <2>2 DEF Moves
<1>. QED  BY <1>1, <1>2, <1>3, <1>4, <1>5, <1>6 DEF JobStep

LEMMA OthersStay ==
    ASSUME TypeOK, NEW w \in Windows, WindowStep(w) \/ DoneStep(w)
    PROVE  job' = job /\ lock' = lock
BY DEF WindowStep, Speak, Attach, Detach, DetachStale, AttachElsewhere, QueueTouched, CoolsDown,
   DoneStep,
   DoneRead, DoneWrite, DoneStatus, DoneClear

LEMMA LockStep ==
    ASSUME TypeOK, TypeOK', LockInv, [Next]_vars
    PROVE  LockInv'
<1>0. job \in [Jobs -> JobStates] /\ lock \in [Windows -> Jobs \union {NoJob}]
  BY DEF TypeOK
<1>1. ASSUME NEW j \in Jobs, CreateStep(j) \/ JobStep(j) \/ Raise(j) \/ Crash(j)
      PROVE  LockInv'
  <2>1. job[j].win \in Windows /\ \A k \in Jobs : job[k].win \in Windows
    BY <1>0 DEF JobStates
  <2>2. CASE Moves(j)
    BY <1>0, <2>2 DEF Moves, LockInv
  <2>3. CASE Leaves(j)
    <3>1. Free.at \notin Inside
      BY DEF Free, Inside
    <3>. QED  BY <1>0, <2>1, <2>3, <3>1 DEF Leaves, LockInv, Unlocked
  <2>4. CASE Enters(j)
    <3>1. NoJob \notin Jobs
      BY JobsAssumption
    <3>. QED  BY <1>0, <2>1, <2>4, <3>1 DEF Enters, LockInv
  <2>. QED  BY <1>1, <2>2, <2>3, <2>4, JobMoves
<1>2. ASSUME NEW w \in Windows, WindowStep(w) \/ DoneStep(w)
      PROVE  LockInv'
  BY <1>2, OthersStay DEF LockInv
<1>3. CASE UNCHANGED vars
  BY <1>3 DEF LockInv, vars
<1>. QED  BY <1>1, <1>2, <1>3 DEF Next

LEMMA LockInvariant == Spec => [](TypeOK /\ LockInv)
<1>1. Init => LockInv
  <2>1. Free.at \notin Inside
    BY DEF Free, Inside
  <2>. SUFFICES ASSUME Init, NEW j \in Jobs PROVE job[j].at \notin Inside
    BY DEF LockInv
  <2>2. job[j] = Free
    BY DEF Init
  <2>. QED  BY <2>1, <2>2
<1>2. TypeOK /\ LockInv /\ [Next]_vars => (TypeOK /\ LockInv)'
  BY NextType, LockStep
<1>. QED  BY <1>1, <1>2, InitType, PTL DEF Spec

(* One job at a time works on a window.                                     *)
THEOREM JobsTakeTurns == Spec => []OneJobPerWindow
<1>1. LockInv => OneJobPerWindow
  BY DEF LockInv, OneJobPerWindow
<1>. QED  BY <1>1, LockInvariant, PTL

-----------------------------------------------------------------------------
(* The first n events of a window exist, and each text among them has been  *)
(* accounted for.                                                           *)
Covered(w, n) ==
    /\ n <= Last(w)
    /\ \A i \in 1 .. n : transcript[w][i] = "text" => Accounted(w, i)

(* What a job holds: the events up to the cursor it will write are          *)
(* accounted for, in its excerpt, or older than all of an excerpt cut to    *)
(* the limit; and once merged in none of these ways lost.                   *)
Working == {"trim", "skip", "bare", "model", "merge", "record", "write"}
Asked == {"model", "merge", "record", "write"}
Cut(r, i) ==
    /\ Cardinality(r.texts) + Cardinality(r.touched) >= MaxExcerpt
    /\ \A k \in r.texts : i < k
InHand(r, i) == i \in r.texts \/ (r.at \in Asked /\ Cut(r, i))
JobCovered(r) ==
    /\ r.limit <= Last(r.win)
    /\ Covered(r.win, r.snap.cursor)
    /\ r.at \in Working =>
          /\ r.upto <= Last(r.win)
          /\ \A i \in 1 .. r.upto :
                transcript[r.win][i] = "text" => Accounted(r.win, i) \/ InHand(r, i)
    /\ r.at = "skip" => r.texts = {}
    /\ r.at \in {"record", "write"} =>
          /\ \A i \in r.texts : summed[r.win][i] > 0
          /\ r.touched \subseteq passed[r.win]

WindowsCovered == \A w \in Windows : Covered(w, win[w].cursor)
HandsCovered ==
    \A w \in Windows : finished[w] <= Last(w) /\ Covered(w, hand[w].snap.cursor)
JobsCovered == \A j \in Jobs : JobCovered(job[j])
CoverInv == WindowsCovered /\ HandsCovered /\ JobsCovered

(* Transcripts are only appended to, and nothing accounted for is forgotten. *)
Grows ==
    \A w \in Windows :
       /\ Last(w) <= Last(w)'
       /\ \A i \in 1 .. Last(w) : transcript'[w][i] = transcript[w][i]
       /\ finished[w] <= finished'[w]
       /\ \A i \in Events : summed[w][i] > 0 => summed'[w][i] > 0
       /\ passed[w] \subseteq passed'[w] /\ unasked[w] \subseteq unasked'[w]

LEMMA WindowsGrow ==
    ASSUME TypeOK, NEW w \in Windows, WindowStep(w)
    PROVE  Grows
<1>1. UNCHANGED <<finished, summed, passed, unasked>>
  BY DEF WindowStep, Speak, Attach, Detach, DetachStale, AttachElsewhere, QueueTouched, CoolsDown
<1>2. \A v \in Windows : finished[v] \in Nat
  <2>1. finished \in [Windows -> 0 .. MaxEvents]
    BY DEF TypeOK
  <2>. QED  BY <2>1, BoundsAssumption
<1>3. \A v \in Windows : /\ Last(v) <= Last(v)'
                         /\ \A i \in 1 .. Last(v) : transcript'[v][i] = transcript[v][i]
  <2>1. CASE Speak(w) \/ Attach(w)
    <3>1. PICK kind \in Kinds : transcript' = [transcript EXCEPT ![w] = Append(@, kind)]
      BY <2>1 DEF Speak, Attach, Hear, Kinds
    <3>2. /\ transcript \in [Windows -> Seq(Kinds)]
          /\ \A v \in Windows : transcript[v] \in Seq(Kinds) /\ Len(transcript[v]) \in Nat
      <4>1. transcript \in [Windows -> Seq(Kinds)]
        BY DEF TypeOK
      <4>2. \A v \in Windows : transcript[v] \in Seq(Kinds)
        BY <4>1
      <4>. QED  BY <4>1, <4>2
    <3>3. /\ Len(Append(transcript[w], kind)) = Len(transcript[w]) + 1
          /\ \A i \in 1 .. Len(transcript[w]) : Append(transcript[w], kind)[i] = transcript[w][i]
      BY <3>2
    <3>. QED  BY <3>1, <3>2, <3>3 DEF Last
  <2>2. CASE UNCHANGED transcript
    BY <2>2, LastIsANumber DEF Last
  <2>. QED  BY <2>1, <2>2 DEF WindowStep, Detach, DetachStale, AttachElsewhere, QueueTouched, CoolsDown
<1>. QED  BY <1>1, <1>2, <1>3 DEF Grows

LEMMA NextGrows ==
    ASSUME TypeOK, HandsCovered, [Next]_vars
    PROVE  Grows
<1>0. /\ \A w \in Windows : finished[w] \in Nat /\ Last(w) \in Nat
      /\ \A w \in Windows : \A i \in Events : summed[w][i] \in 0 .. 2
      /\ finished \in [Windows -> 0 .. MaxEvents]
  <2>1. finished \in [Windows -> 0 .. MaxEvents] /\ summed \in [Windows -> [Events -> 0 .. 2]]
    BY DEF TypeOK
  <2>. QED  BY <2>1, LastIsANumber, BoundsAssumption
<1>1. ASSUME NEW w \in Windows, WindowStep(w) PROVE Grows
  BY <1>1, WindowsGrow
<1>2. ASSUME NEW w \in Windows, DoneStep(w) PROVE Grows
  <2>1. UNCHANGED <<transcript, summed, passed, unasked>>
    BY <1>2 DEF DoneStep, DoneRead, DoneWrite, DoneStatus, DoneClear
  <2>2. finished' = finished \/ finished' = [finished EXCEPT ![w] = Last(w)]
    BY <1>2 DEF DoneStep, DoneRead, DoneWrite, DoneStatus, DoneClear
  <2>3. finished[w] <= Last(w)
    BY DEF HandsCovered
  <2>. QED  BY <1>0, <2>1, <2>2, <2>3 DEF Grows, Last
<1>3. ASSUME NEW j \in Jobs, CreateStep(j) \/ JobStep(j) \/ Raise(j) \/ Crash(j) PROVE Grows
  <2>1. UNCHANGED <<transcript, finished>>
    BY <1>3 DEF CreateStep, CheckAttached, HookRun, RunManual, Create, JobStep, LookUp, Enter,
       Snapshot, ReadExcerpt, WriteTask, SkipEmpty, SkipUnasked, ModelAnswers, ModelsFail,
       MergeContext, MergeRecord, WriteCounters, ClearTouched, Finish, Raise, Crash
  <2>2. UNCHANGED <<summed, passed>> \/ MergeContext(j)
    BY <1>3 DEF CreateStep, CheckAttached, HookRun, RunManual, Create, JobStep, LookUp, Enter,
       Snapshot, ReadExcerpt, WriteTask, SkipEmpty, SkipUnasked, ModelAnswers, ModelsFail, MergeRecord,
       WriteCounters, ClearTouched, Finish, Raise, Crash
  <2>3. \A w \in Windows, i \in Events : summed[w][i] > 0 => summed'[w][i] > 0
    <3>1. CASE MergeContext(j)
      <4>1. summed \in [Windows -> [Events -> 0 .. 2]]
        BY DEF TypeOK
      <4>. QED  BY <1>0, <3>1, <4>1 DEF MergeContext
    <3>. QED  BY <2>2, <3>1
  <2>4. \A w \in Windows : passed[w] \subseteq passed'[w]
    <3>1. passed \in [Windows -> SUBSET Paths]
      BY DEF TypeOK
    <3>. QED  BY <2>2, <3>1 DEF MergeContext
  <2>5. \A w \in Windows : unasked[w] \subseteq unasked'[w]
    <3>1. unasked \in [Windows -> SUBSET Events]
      BY DEF TypeOK
    <3>2. UNCHANGED unasked \/ SkipUnasked(j)
      BY <1>3 DEF CreateStep, CheckAttached, HookRun, RunManual, Create, JobStep, LookUp, Enter,
         Snapshot, ReadExcerpt, WriteTask, SkipEmpty, ModelAnswers, ModelsFail, MergeContext,
         MergeRecord, WriteCounters, ClearTouched, Finish, Raise, Crash
    <3>. QED  BY <3>1, <3>2 DEF SkipUnasked
  <2>. QED  BY <1>0, <2>1, <2>3, <2>4, <2>5 DEF Grows, Last
<1>4. CASE UNCHANGED vars
  BY <1>0, <1>4 DEF Grows, vars, Last
<1>. QED  BY <1>1, <1>2, <1>3, <1>4 DEF Next

(* The texts and paths of a window are finitely many.                       *)
LEMMA Finite ==
    /\ \A S \in SUBSET Events : IsFiniteSet(S) /\ Cardinality(S) \in Nat
    /\ \A S \in SUBSET Paths : IsFiniteSet(S) /\ Cardinality(S) \in Nat
<1>1. IsFiniteSet(Events) /\ IsFiniteSet(Paths)
  BY BoundsAssumption, FS_Interval DEF Events, Paths
<1>. QED  BY <1>1, FS_Subset, FS_CardinalityType

(* What has been merged after a text is not taken back.                     *)
LEMMA CrowdedStays ==
    ASSUME TypeOK, TypeOK', Grows, NEW w \in Windows, NEW i, Crowded(w, i)
    PROVE  Crowded(w, i)'
<1>. DEFINE S == {k \in Events : k > i /\ summed[w][k] > 0}
            T == {k \in Events : k > i /\ summed'[w][k] > 0}
<1>1. S \subseteq T /\ T \subseteq Events /\ S \subseteq Events
  BY DEF Grows
<1>2. /\ passed[w] \subseteq passed'[w] /\ passed'[w] \subseteq Paths
      /\ passed[w] \subseteq Paths
  BY DEF Grows, TypeOK
<1>3. /\ Cardinality(S) <= Cardinality(T)
      /\ Cardinality(passed[w]) <= Cardinality(passed'[w])
      /\ Cardinality(S) \in Nat /\ Cardinality(T) \in Nat
      /\ Cardinality(passed[w]) \in Nat /\ Cardinality(passed'[w]) \in Nat
  <2>. HIDE DEF S, T
  <2>. QED  BY <1>1, <1>2, Finite, FS_Subset
<1>4. Cardinality(S) + Cardinality(passed[w]) >= MaxExcerpt
  BY DEF Crowded
<1>5. Cardinality(T) + Cardinality(passed'[w]) >= MaxExcerpt
  <2>. HIDE DEF S, T
  <2>. QED  BY <1>3, <1>4, ExcerptAssumption
<1>. QED  BY <1>5 DEF Crowded

(* A text older than all of an excerpt cut to the limit has that much merged *)
(* after it, once the excerpt is.                                           *)
LEMMA CutIsCrowded ==
    ASSUME TypeOK, NEW w \in Windows, NEW i \in Nat, NEW r \in JobStates, Cut(r, i),
           \A k \in r.texts : summed[w][k] > 0, r.touched \subseteq passed[w]
    PROVE  Crowded(w, i)
<1>. DEFINE S == {k \in Events : k > i /\ summed[w][k] > 0}
<1>1. r.texts \subseteq Events /\ r.touched \subseteq Paths /\ Events \subseteq Nat
  BY BoundsAssumption DEF JobStates, Events
<1>2. r.texts \subseteq S /\ S \subseteq Events
  BY <1>1 DEF Cut
<1>3. passed[w] \subseteq Paths
  BY DEF TypeOK
<1>4. /\ Cardinality(r.texts) <= Cardinality(S)
      /\ Cardinality(r.touched) <= Cardinality(passed[w])
      /\ Cardinality(r.texts) \in Nat /\ Cardinality(S) \in Nat
      /\ Cardinality(r.touched) \in Nat /\ Cardinality(passed[w]) \in Nat
  <2>. HIDE DEF S
  <2>. QED  BY <1>1, <1>2, <1>3, Finite, FS_Subset
<1>5. Cardinality(S) + Cardinality(passed[w]) >= MaxExcerpt
  <2>. HIDE DEF S
  <2>. QED  BY <1>4, ExcerptAssumption DEF Cut
<1>. QED  BY <1>5 DEF Crowded

(* What was accounted for stays so.                                         *)
LEMMA AccountedStays ==
    ASSUME TypeOK, TypeOK', Grows, NEW w \in Windows, NEW i \in 1 .. Last(w), Accounted(w, i)
    PROVE  Accounted(w, i)'
<1>1. Last(w) \in 0 .. MaxEvents /\ Last(w)' \in 0 .. MaxEvents
  BY LastIsANumber, NextLastIsANumber
<1>2. i \in Events
  BY <1>1, BoundsAssumption DEF Events
<1>3. finished[w] \in Nat /\ finished'[w] \in Nat
  <2>1. /\ finished \in [Windows -> 0 .. MaxEvents]
        /\ finished' \in [Windows -> 0 .. MaxEvents]
    BY DEF TypeOK
  <2>. QED  BY <2>1, BoundsAssumption
<1>4. CASE \E m \in i .. Last(w) : transcript[w][m] = "marker"
  <2>1. PICK m \in i .. Last(w) : transcript[w][m] = "marker"
    BY <1>4
  <2>2. m \in 1 .. Last(w) /\ m \in i .. Last(w)'
    BY <1>1, <2>1 DEF Grows
  <2>. QED  BY <2>1, <2>2 DEF Grows, Accounted
<1>5. CASE Crowded(w, i)
  BY <1>5, CrowdedStays DEF Accounted
<1>. QED  BY <1>1, <1>2, <1>3, <1>4, <1>5 DEF Grows, Accounted

LEMMA CoveredStays ==
    ASSUME TypeOK, TypeOK', Grows, NEW w \in Windows, NEW n \in Nat, Covered(w, n)
    PROVE  Covered(w, n)'
<1>1. Last(w) \in 0 .. MaxEvents /\ Last(w)' \in 0 .. MaxEvents
  BY LastIsANumber, NextLastIsANumber
<1>2. n <= Last(w)'
  BY <1>1 DEF Grows, Covered
<1>3. ASSUME NEW i \in 1 .. n, transcript'[w][i] = "text" PROVE Accounted(w, i)'
  <2>1. i \in 1 .. Last(w)
    BY <1>1 DEF Covered
  <2>. QED  BY <1>3, <2>1, AccountedStays DEF Grows, Covered
<1>. QED  BY <1>2, <1>3 DEF Covered

LEMMA JobCoveredStays ==
    ASSUME TypeOK, TypeOK', Grows, NEW r \in JobStates, JobCovered(r)
    PROVE  JobCovered(r)'
<1>0. /\ r.win \in Windows /\ r.limit \in Nat /\ r.upto \in Nat /\ r.snap.cursor \in Nat
      /\ r.texts \subseteq Events
  BY BoundsAssumption DEF JobStates, WindowStates
<1>1. Last(r.win) \in 0 .. MaxEvents /\ Last(r.win)' \in 0 .. MaxEvents
  BY <1>0, LastIsANumber, NextLastIsANumber
<1>2. r.limit <= Last(r.win)' /\ Covered(r.win, r.snap.cursor)'
  BY <1>0, <1>1, CoveredStays DEF JobCovered, Grows
<1>3. ASSUME r.at \in Working
      PROVE  /\ r.upto <= Last(r.win)'
             /\ \A i \in 1 .. r.upto :
                  transcript'[r.win][i] = "text" => Accounted(r.win, i)' \/ InHand(r, i)
  <2>1. r.upto <= Last(r.win)
    BY <1>3 DEF JobCovered
  <2>2. ASSUME NEW i \in 1 .. r.upto, transcript'[r.win][i] = "text", ~InHand(r, i)
        PROVE  Accounted(r.win, i)'
    <3>1. i \in 1 .. Last(r.win)
      BY <1>0, <1>1, <2>1
    <3>2. Accounted(r.win, i)
      BY <1>0, <1>3, <2>2, <3>1 DEF JobCovered, Grows
    <3>. QED  BY <1>0, <3>1, <3>2, AccountedStays
  <2>. QED  BY <1>0, <1>1, <2>1, <2>2 DEF Grows
<1>4. r.at \in {"record", "write"} => /\ \A i \in r.texts : summed'[r.win][i] > 0
                                      /\ r.touched \subseteq passed'[r.win]
  BY <1>0 DEF JobCovered, Grows
<1>5. r.at = "skip" => r.texts = {}
  BY DEF JobCovered
<1>. QED  BY <1>2, <1>3, <1>4, <1>5 DEF JobCovered

(* Nothing new is passed: the same or the first cursor.                     *)
LEMMA ZeroIsCovered ==
    ASSUME TypeOK', NEW w \in Windows
    PROVE  Covered(w, 0)'
BY NextLastIsANumber DEF Covered

LEMMA Cursors ==
    ASSUME TypeOK
    PROVE  /\ \A w \in Windows : win[w].cursor \in Nat /\ hand[w].snap.cursor \in Nat
           /\ \A j \in Jobs : job[j] \in JobStates
<1>1. /\ win \in [Windows -> WindowStates] /\ job \in [Jobs -> JobStates]
      /\ \A w \in Windows : hand[w].snap \in WindowStates
  BY DEF TypeOK
<1>2. \A r \in WindowStates : r.cursor \in Nat
  BY BoundsAssumption DEF WindowStates
<1>. QED  BY <1>1, <1>2

LEMMA WindowsKeepCovered ==
    ASSUME TypeOK, TypeOK', Grows, WindowsCovered,
           \A w \in Windows : win'[w].cursor \in {win[w].cursor, 0}
    PROVE  WindowsCovered'
<1>. SUFFICES ASSUME NEW w \in Windows PROVE Covered(w, win[w].cursor)'
  BY DEF WindowsCovered
<1>1. CASE win'[w].cursor = 0
  BY <1>1, ZeroIsCovered DEF Covered
<1>2. CASE win'[w].cursor = win[w].cursor
  <2>. DEFINE n == win[w].cursor
  <2>1. n \in Nat /\ Covered(w, n)
    BY Cursors DEF WindowsCovered
  <2>2. \A k \in Nat : Covered(w, k) => Covered(w, k)'
    BY CoveredStays
  <2>. QED  BY <1>2, <2>1, <2>2 DEF Covered
<1>. QED  BY <1>1, <1>2

LEMMA HandsKeepCovered ==
    ASSUME TypeOK, TypeOK', Grows, HandsCovered, UNCHANGED finished,
           \A w \in Windows : hand'[w].snap.cursor \in {hand[w].snap.cursor, 0}
    PROVE  HandsCovered'
<1>. SUFFICES ASSUME NEW w \in Windows
              PROVE  finished'[w] <= Last(w)' /\ Covered(w, hand[w].snap.cursor)'
  BY DEF HandsCovered
<1>1. finished'[w] <= Last(w)'
  <2>1. finished[w] \in 0 .. MaxEvents
    BY DEF TypeOK
  <2>2. finished[w] <= Last(w) /\ Last(w) <= Last(w)'
    BY DEF HandsCovered, Grows
  <2>. QED  BY <2>1, <2>2, LastIsANumber, NextLastIsANumber, BoundsAssumption
<1>2. CASE hand'[w].snap.cursor = 0
  BY <1>1, <1>2, ZeroIsCovered DEF Covered
<1>3. CASE hand'[w].snap.cursor = hand[w].snap.cursor
  <2>1. hand[w].snap.cursor \in Nat /\ Covered(w, hand[w].snap.cursor)
    BY Cursors DEF HandsCovered
  <2>2. \A k \in Nat : Covered(w, k) => Covered(w, k)'
    BY CoveredStays
  <2>. QED  BY <1>1, <1>3, <2>1, <2>2 DEF Covered
<1>. QED  BY <1>2, <1>3

LEMMA JobsKeepCovered ==
    ASSUME TypeOK, TypeOK', Grows, JobsCovered, NEW j \in Jobs, job'[j] = job[j]
    PROVE  JobCovered(job[j])'
<1>1. \A r \in JobStates : JobCovered(r) => JobCovered(r)'
  BY JobCoveredStays
<1>2. job[j] \in JobStates /\ JobCovered(job[j])
  BY Cursors DEF JobsCovered
<1>3. job'[j] = job[j]
  OBVIOUS
<1>. QED  BY <1>1, <1>2, <1>3 DEF JobCovered, Covered

LEMMA WindowStepCovers ==
    ASSUME TypeOK, TypeOK', Grows, CoverInv, NEW w \in Windows, WindowStep(w)
    PROVE  CoverInv'
<1>1. UNCHANGED <<job, hand, finished>>
  BY DEF WindowStep, Speak, Attach, Detach, DetachStale, AttachElsewhere, QueueTouched, CoolsDown
<1>2. \A v \in Windows : win'[v].cursor \in {win[v].cursor, 0}
  <2>1. win \in [Windows -> WindowStates]
    BY DEF TypeOK
  <2>. QED  BY <2>1 DEF WindowStates, NoWindow, WindowStep, Speak, Attach, Detach,
               DetachStale, AttachElsewhere, QueueTouched, CoolsDown
<1>3. WindowsCovered' /\ HandsCovered'
  BY <1>1, <1>2, WindowsKeepCovered, HandsKeepCovered DEF CoverInv
<1>4. JobsCovered'
  BY <1>1, JobsKeepCovered DEF CoverInv, JobsCovered
<1>. QED  BY <1>3, <1>4 DEF CoverInv

LEMMA DoneStepCovers ==
    ASSUME TypeOK, TypeOK', Grows, CoverInv, NEW w \in Windows, DoneStep(w)
    PROVE  CoverInv'
<1>0. /\ win \in [Windows -> WindowStates] /\ hand[w].snap \in WindowStates
      /\ hand \in [Windows -> [at : {"idle", "write", "status", "clear"}, snap : WindowStates]]
  BY DEF TypeOK
<1>1. JobsCovered'
  <2>1. job' = job
    BY DEF DoneStep, DoneRead, DoneWrite, DoneStatus, DoneClear
  <2>. QED  BY <2>1, JobsKeepCovered DEF CoverInv, JobsCovered
<1>2. CASE DoneRead(w)
  <2>. DEFINE n == Later(win[w].cursor, Last(w))
  <2>1. WindowsCovered'
    BY <1>2, WindowsKeepCovered DEF DoneRead, CoverInv
  <2>2. /\ finished' = [finished EXCEPT ![w] = Last(w)] /\ transcript' = transcript
        /\ hand'[w].snap.cursor = n
        /\ \A v \in Windows \ {w} : hand'[v] = hand[v]
    BY <1>0, <1>2 DEF DoneRead, WindowStates
  <2>3. n = Last(w) /\ Last(w)' = Last(w) /\ Last(w) \in Nat
    <3>1. win[w].cursor \in Nat /\ win[w].cursor <= Last(w)
      BY Cursors DEF CoverInv, WindowsCovered, Covered
    <3>2. Last(w) \in Nat
      BY LastIsANumber, BoundsAssumption
    <3>. QED  BY <2>2, <3>1, <3>2 DEF Later, Last
  <2>4. finished'[w] = Last(w)
    BY <2>2 DEF TypeOK
  <2>5. finished'[w] <= Last(w)' /\ Covered(w, hand[w].snap.cursor)'
    BY <2>2, <2>3, <2>4 DEF Covered, Accounted
  <2>6. ASSUME NEW v \in Windows, v # w
        PROVE  finished'[v] <= Last(v)' /\ Covered(v, hand[v].snap.cursor)'
    <3>1. finished'[v] = finished[v] /\ hand'[v] = hand[v] /\ Last(v)' = Last(v)
      BY <2>2, <2>6 DEF TypeOK, Last
    <3>2. hand[v].snap.cursor \in Nat /\ Covered(v, hand[v].snap.cursor)
      BY Cursors DEF CoverInv, HandsCovered
    <3>3. \A k \in Nat : Covered(v, k) => Covered(v, k)'
      BY CoveredStays
    <3>. QED  BY <3>1, <3>2, <3>3 DEF CoverInv, HandsCovered, Covered
  <2>7. HandsCovered'
    BY <2>5, <2>6 DEF HandsCovered
  <2>. QED  BY <1>1, <2>1, <2>7 DEF CoverInv
<1>3. CASE DoneWrite(w)
  <2>1. HandsCovered'
    <3>1. \A v \in Windows : hand'[v].snap = hand[v].snap
      BY <1>0, <1>3 DEF DoneWrite
    <3>2. UNCHANGED finished
      BY <1>3 DEF DoneWrite
    <3>. QED  BY <3>1, <3>2, HandsKeepCovered DEF CoverInv
  <2>2. ASSUME NEW v \in Windows PROVE Covered(v, win[v].cursor)'
    <3>1. win'[v].cursor = IF v = w THEN hand[w].snap.cursor ELSE win[v].cursor
      BY <1>0, <1>3 DEF DoneWrite, WindowStates
    <3>2. win'[v].cursor \in Nat /\ Covered(v, IF v = w THEN hand[w].snap.cursor ELSE win[v].cursor)
      BY <3>1, Cursors DEF CoverInv, WindowsCovered, HandsCovered
    <3>3. \A k \in Nat : Covered(v, k) => Covered(v, k)'
      BY CoveredStays
    <3>. QED  BY <3>1, <3>2, <3>3 DEF Covered
  <2>3. WindowsCovered'
    BY <2>2 DEF WindowsCovered
  <2>. QED  BY <1>1, <2>1, <2>3 DEF CoverInv
<1>4. CASE DoneStatus(w) \/ DoneClear(w)
  <2>1. /\ \A v \in Windows : hand'[v].snap.cursor \in {hand[v].snap.cursor, 0}
        /\ \A v \in Windows : win'[v].cursor = win[v].cursor
        /\ UNCHANGED finished
    <3>1. CASE DoneStatus(w)
      BY <1>0, <3>1 DEF DoneStatus
    <3>2. CASE DoneClear(w)
      <4>1. \A v \in Windows : hand'[v] = IF v = w THEN Idle ELSE hand[v]
        BY <1>0, <3>2 DEF DoneClear
      <4>2. Idle.snap.cursor = 0
        BY DEF Idle, NoWindow
      <4>3. \A v \in Windows : win'[v].cursor = win[v].cursor
        BY <1>0, <3>2 DEF DoneClear, WindowStates
      <4>. QED  BY <3>2, <4>1, <4>2, <4>3 DEF DoneClear
    <3>. QED  BY <1>4, <3>1, <3>2
  <2>. QED  BY <1>1, <2>1, WindowsKeepCovered, HandsKeepCovered DEF CoverInv
<1>. QED  BY <1>2, <1>3, <1>4 DEF DoneStep

LEMMA CreateStepCovers ==
    ASSUME TypeOK, TypeOK', Grows, CoverInv, NEW j \in Jobs, CreateStep(j)
    PROVE  CoverInv'
<1>1. PICK w \in Windows : CheckAttached(j, w) \/ HookRun(j, w) \/ RunManual(j, w)
  BY DEF CreateStep
<1>2. PICK half \in {"both", "ctx", "updr"}, a \in {"waiting", "queued"} : Create(j, w, half, a)
  BY <1>1, HalvesAssumption DEF CheckAttached, HookRun, RunManual
<1>3. WindowsCovered' /\ HandsCovered'
  BY <1>2, WindowsKeepCovered, HandsKeepCovered DEF CoverInv, Create
<1>4. /\ job \in [Jobs -> JobStates]
      /\ job' = [job EXCEPT ![j] = [Free EXCEPT !.at = a, !.win = w, !.half = half,
                                                !.limit = Last(w)]]
      /\ transcript' = transcript
  BY <1>2 DEF Create, TypeOK
<1>5. /\ job'[j].at = a /\ job'[j].win = w /\ job'[j].limit = Last(w)
      /\ job'[j].snap.cursor = 0
  BY <1>4 DEF Free, NoWindow
<1>6. JobCovered(job[j])'
  <2>1. Last(w)' = Last(w) /\ Last(w) \in Nat
    BY <1>4, LastIsANumber, BoundsAssumption DEF Last
  <2>2. Covered(w, 0)'
    BY ZeroIsCovered
  <2>. QED  BY <1>5, <2>1, <2>2 DEF JobCovered, Covered, Working
<1>7. ASSUME NEW k \in Jobs, k # j PROVE JobCovered(job[k])'
  BY <1>4, <1>7, JobsKeepCovered DEF CoverInv
<1>8. JobsCovered'
  BY <1>6, <1>7 DEF JobsCovered
<1>. QED  BY <1>3, <1>8 DEF CoverInv

(* A step that moves a job from one stage to another, and nothing else in   *)
(* it, keeps what the job covers if the next stage asks for no more.        *)
LEMMA StageKeepsCovered ==
    ASSUME TypeOK, TypeOK', Grows, CoverInv, NEW j \in Jobs, NEW a \in Stages,
           job' = [job EXCEPT ![j] = [job[j] EXCEPT !.at = a]],
           a \in Working => job[j].at \in Working /\ (job[j].at \in Asked => a \in Asked),
           a = "skip" => job[j].at = "skip",
           a \in {"record", "write"} =>
             \/ job[j].at \in {"record", "write"}
             \/ /\ \A i \in job[j].texts : summed'[job[j].win][i] > 0
                /\ job[j].touched \subseteq passed'[job[j].win]
    PROVE  JobsCovered'
<1>0. /\ job \in [Jobs -> JobStates] /\ job[j] \in JobStates /\ JobCovered(job[j])
      /\ job[j].win \in Windows /\ job[j].texts \subseteq Events
      /\ job[j].snap.cursor \in Nat /\ job[j].upto \in Nat /\ job[j].limit \in Nat
  <2>1. job \in [Jobs -> JobStates] /\ job[j] \in JobStates /\ JobCovered(job[j])
    BY DEF TypeOK, CoverInv, JobsCovered
  <2>. QED  BY <2>1, BoundsAssumption DEF JobStates, WindowStates
<1>1. /\ job'[j].at = a /\ job'[j].win = job[j].win /\ job'[j].limit = job[j].limit
      /\ job'[j].snap = job[j].snap /\ job'[j].upto = job[j].upto
      /\ job'[j].texts = job[j].texts /\ job'[j].touched = job[j].touched
  BY <1>0 DEF JobStates
<1>2. \A r \in JobStates : JobCovered(r) => JobCovered(r)'
  BY JobCoveredStays
<1>3. JobCovered(job[j])'
  <2>0. PICK r \in JobStates, w \in Windows : r = job[j] /\ w = job[j].win
    BY <1>0
  <2>. /\ JobCovered(r) /\ r.win = w /\ r.texts \subseteq Events
       /\ r.snap.cursor \in Nat /\ r.upto \in Nat /\ r.limit \in Nat
    BY <1>0, <2>0
  <2>1. /\ r.limit <= Last(w)' /\ \A k \in Nat : Covered(w, k) => Covered(w, k)'
        /\ Covered(w, r.snap.cursor)
    <3>1. r.limit <= Last(w) /\ Covered(w, r.snap.cursor)
      BY DEF JobCovered
    <3>2. Last(w) <= Last(w)' /\ Last(w) \in Nat /\ Last(w)' \in Nat
      BY LastIsANumber, NextLastIsANumber, BoundsAssumption DEF Grows
    <3>. QED  BY <3>1, <3>2, CoveredStays
  <2>2. ASSUME a \in Working
        PROVE  /\ r.upto <= Last(w)'
               /\ \A i \in 1 .. r.upto :
                    transcript'[w][i] = "text"
                      => Accounted(w, i)' \/ i \in r.texts \/ (a \in Asked /\ Cut(r, i))
    <3>1. r.at \in Working /\ r.upto <= Last(w)
      BY <2>0, <2>2 DEF JobCovered
    <3>2. Last(w) <= Last(w)' /\ Last(w) \in Nat /\ Last(w)' \in Nat
      BY LastIsANumber, NextLastIsANumber, BoundsAssumption DEF Grows
    <3>3. ASSUME NEW i \in 1 .. r.upto, transcript'[w][i] = "text", i \notin r.texts,
                 ~(a \in Asked /\ Cut(r, i))
          PROVE  Accounted(w, i)'
      <4>1. i \in 1 .. Last(w)
        BY <3>1, <3>2
      <4>2. Accounted(w, i)
        BY <2>0, <2>2, <3>1, <3>3, <4>1 DEF JobCovered, Grows, InHand
      <4>. QED  BY <4>1, <4>2, AccountedStays
    <3>. QED  BY <3>1, <3>2, <3>3
  <2>3. a = "skip" => r.texts = {}
    BY <2>0 DEF JobCovered
  <2>4. a \in {"record", "write"} => /\ \A i \in r.texts : summed'[w][i] > 0
                                     /\ r.touched \subseteq passed'[w]
    BY <2>0 DEF JobCovered, Grows
  <2>5. PICK q : /\ q = job'[j]
                 /\ q.at = a /\ q.win = w /\ q.limit = r.limit /\ q.touched = r.touched
                 /\ q.snap = r.snap /\ q.upto = r.upto /\ q.texts = r.texts
    BY <1>1, <2>0
  <2>6. \A i : i \in r.texts \/ (a \in Asked /\ Cut(r, i)) => InHand(q, i)
    BY <2>5 DEF InHand, Cut
  <2>7. JobCovered(q)'
    BY <2>1, <2>2, <2>3, <2>4, <2>5, <2>6 DEF JobCovered, Covered
  <2>. QED  BY <2>5, <2>7 DEF JobCovered, Covered
<1>4. ASSUME NEW k \in Jobs, k # j PROVE JobCovered(job[k])'
  BY <1>0, <1>4, JobsKeepCovered DEF CoverInv
<1>. QED  BY <1>3, <1>4 DEF JobsCovered

(* The job's slot is free again.                                            *)
LEMMA FreeKeepsCovered ==
    ASSUME TypeOK, TypeOK', Grows, CoverInv, NEW j \in Jobs, job' = [job EXCEPT ![j] = Free]
    PROVE  JobsCovered'
<1>1. job \in [Jobs -> JobStates] /\ job'[j] = Free
  BY DEF TypeOK
<1>2. /\ Free.at = "free" /\ Free.limit = 0 /\ Free.snap.cursor = 0 /\ Free.win \in Windows
  BY WindowsAssumption DEF Free, NoWindow
<1>3. JobCovered(job[j])'
  <2>1. Last(Free.win)' \in 0 .. MaxEvents /\ Covered(Free.win, 0)'
    BY <1>2, NextLastIsANumber, ZeroIsCovered
  <2>. QED  BY <1>1, <1>2, <2>1 DEF JobCovered, Covered, Working
<1>4. ASSUME NEW k \in Jobs, k # j PROVE JobCovered(job[k])'
  BY <1>1, <1>4, JobsKeepCovered DEF CoverInv
<1>. QED  BY <1>3, <1>4 DEF JobsCovered

LEMMA SnapshotCovers ==
    ASSUME TypeOK, TypeOK', Grows, CoverInv, NEW j \in Jobs, Snapshot(j)
    PROVE  JobsCovered'
<1>0. /\ job \in [Jobs -> JobStates] /\ job[j] \in JobStates /\ JobCovered(job[j])
  BY DEF TypeOK, CoverInv, JobsCovered
<1>1. PICK r \in JobStates, w \in Windows : r = job[j] /\ w = job[j].win
  BY <1>0 DEF JobStates
<1>2. PICK c \in Nat : c = win[w].cursor /\ Covered(w, c)
  BY Cursors DEF CoverInv, WindowsCovered
<1>3. /\ job'[j].at \in {"ok", "read"} /\ job'[j].win = w /\ job'[j].limit = r.limit
      /\ job'[j].snap.cursor = c
      /\ \A k \in Jobs \ {j} : job'[k] = job[k]
  BY <1>0, <1>1, <1>2 DEF Snapshot, JobStates
<1>4. r.limit <= Last(w)' /\ Covered(w, c)'
  <2>1. r.limit <= Last(w) /\ r.limit \in Nat
    BY <1>0, <1>1, BoundsAssumption DEF JobCovered, JobStates
  <2>. QED  BY <1>2, <2>1, CoveredStays, LastIsANumber, NextLastIsANumber DEF Grows
<1>5. JobCovered(job[j])'
  BY <1>3, <1>4 DEF JobCovered, Covered, Working
<1>. QED  BY <1>3, <1>5, JobsKeepCovered DEF CoverInv, JobsCovered

(* The excerpt and the cursor to write after it leave nothing out.          *)
LEMMA ExcerptCovers ==
    ASSUME TypeOK, TypeOK', Grows, CoverInv, NEW j \in Jobs, ReadExcerpt(j)
    PROVE  JobsCovered'
<1>0. /\ job \in [Jobs -> JobStates] /\ job[j] \in JobStates /\ JobCovered(job[j])
  BY DEF TypeOK, CoverInv, JobsCovered
<1>1. PICK w \in Windows, c \in Nat, n \in Nat :
        /\ w = job[j].win /\ c = job[j].snap.cursor /\ n = Ceiling(j)
  BY <1>0, CeilingIsANumber, BoundsAssumption DEF JobStates, WindowStates
<1>2. Last(w) \in Nat /\ Last(w)' = Last(w) /\ transcript' = transcript
  BY LastIsANumber, BoundsAssumption DEF ReadExcerpt, Last
<1>3. c <= Last(w) /\ n <= Last(w) /\ Covered(w, c)
  BY <1>0, <1>1, <1>2 DEF JobCovered, Covered, Ceiling
<1>. DEFINE x == Texts(w, c, n)
            u == Later(n, c)
<1>4. u \in Nat /\ u <= Last(w)
  BY <1>2, <1>3 DEF Later
<1>5. ASSUME NEW i \in 1 .. u, transcript[w][i] = "text"
      PROVE  Accounted(w, i) \/ i \in x
  <2>1. CASE i <= c
    BY <1>3, <1>5, <2>1 DEF Covered
  <2>2. CASE i > c
    <3>1. i \in 1 .. n
      BY <2>2 DEF Later
    <3>2. CASE \E m \in i .. n : transcript[w][m] = "marker"
      BY <1>2, <1>3, <3>1, <3>2 DEF Accounted
    <3>3. CASE \A m \in i .. n : transcript[w][m] # "marker"
      BY <1>5, <2>2, <3>1, <3>3 DEF Texts, After
    <3>. QED  BY <3>2, <3>3
  <2>. QED  BY <2>1, <2>2
<1>6. \A i \in 1 .. u : transcript'[w][i] = "text" => Accounted(w, i)' \/ i \in x
  <2>1. 1 .. u \subseteq 1 .. Last(w)
    BY <1>2, <1>4
  <2>. QED  BY <1>2, <1>5, <2>1, AccountedStays
<1>7. /\ job'[j].win = w /\ job'[j].snap.cursor = c /\ job'[j].limit = n
      /\ job'[j].texts = x /\ job'[j].upto = u
      /\ job'[j].at \in {"skip", "ok", "trim"}
      /\ job'[j].at = "skip" => x = {}
      /\ \A k \in Jobs \ {j} : job'[k] = job[k]
  <2>1. PICK t, a :
          /\ job' = [job EXCEPT ![j] = [job[j] EXCEPT !.texts = x, !.touched = t,
                                          !.limit = n, !.upto = u, !.at = a]]
          /\ a \in {"skip", "ok", "trim"} /\ (a = "skip" => x = {})
    <3>. DEFINE t == win[w].touched
                a == IF x = {} /\ t = {}
                     THEN IF After(w, c, n) # {} THEN "skip" ELSE "ok"
                     ELSE IF Cardinality(x) + Cardinality(t) < MinChars THEN "ok" ELSE "trim"
    <3>1. job' = [job EXCEPT ![j] = [job[j] EXCEPT !.texts = x, !.touched = t,
                                       !.limit = n, !.upto = u, !.at = a]]
      BY <1>1, Zenon DEF ReadExcerpt, Upto
    <3>2. a \in {"skip", "ok", "trim"} /\ (a = "skip" => x = {})
      OBVIOUS
    <3>. HIDE DEF t, a
    <3>. QED  BY <3>1, <3>2
  <2>. HIDE DEF x, u
  <2>. QED  BY <1>0, <1>1, <2>1 DEF JobStates
<1>8. Covered(w, c)'
  BY <1>3, CoveredStays
<1>9. JobCovered(job[j])'
  <2>. HIDE DEF x, u
  <2>. QED  BY <1>2, <1>3, <1>4, <1>6, <1>7, <1>8 DEF JobCovered, Covered, InHand
<1>. QED  BY <1>7, <1>9, JobsKeepCovered DEF CoverInv, JobsCovered

(* What an excerpt loses to the limit is older than the rest of it.         *)
LEMMA TaskCovers ==
    ASSUME TypeOK, TypeOK', Grows, CoverInv, NEW j \in Jobs, WriteTask(j)
    PROVE  JobsCovered'
<1>0. /\ job \in [Jobs -> JobStates] /\ job[j] \in JobStates /\ JobCovered(job[j])
  BY DEF TypeOK, CoverInv, JobsCovered
<1>1. PICK q \in JobStates, r \in JobStates :
        /\ q = job[j] /\ q.at = "trim" /\ job' = [job EXCEPT ![j] = r]
        /\ r.win = q.win /\ r.snap = q.snap /\ r.limit = q.limit
        /\ r.upto = q.upto /\ r.texts \subseteq q.texts
        /\ \/ r.at = "bare" /\ r.texts = q.texts
           \/ r.at = "model" /\ Trimmed(q, r.texts, r.touched)
  BY <1>0, TaskWritten
<1>2. ASSUME NEW i \in q.texts PROVE InHand(r, i)
  <2>1. CASE r.texts = q.texts
    BY <1>2, <2>1 DEF InHand
  <2>2. CASE r.texts # q.texts
    <3>1. /\ r.at = "model" /\ Cardinality(r.texts) + Cardinality(r.touched) = MaxExcerpt
          /\ \A k \in q.texts \ r.texts, n \in r.texts : k < n
      BY <1>1, <2>2 DEF Trimmed
    <3>. QED  BY <1>2, <3>1, ExcerptAssumption DEF InHand, Cut, Asked
  <2>. QED  BY <2>1, <2>2
<1>3. JobCovered(r)
  <2>1. JobCovered(q) /\ q.at \in Working /\ ~(q.at \in Asked)
    BY <1>0, <1>1 DEF Working, Asked
  <2>2. \A i \in 1 .. r.upto :
          transcript[r.win][i] = "text" => Accounted(r.win, i) \/ InHand(r, i)
    BY <1>1, <1>2, <2>1 DEF JobCovered, InHand
  <2>. QED  BY <1>1, <2>1, <2>2 DEF JobCovered
<1>4. JobCovered(job[j])'
  <2>1. JobCovered(r)' /\ job'[j] = r
    BY <1>0, <1>1, <1>3, JobCoveredStays
  <2>. QED  BY <2>1 DEF JobCovered, Covered
<1>5. ASSUME NEW k \in Jobs, k # j PROVE JobCovered(job[k])'
  BY <1>0, <1>1, <1>5, JobsKeepCovered DEF CoverInv
<1>. QED  BY <1>4, <1>5 DEF JobsCovered

(* The cursor a job writes is covered.                                      *)
LEMMA RewriteCovers ==
    ASSUME TypeOK, TypeOK', Grows, CoverInv, NEW j \in Jobs, NEW b \in BOOLEAN,
           Rewrite(j, b), job[j].at \in {"skip", "bare", "write"},
           job[j].at = "bare" => job[j].texts \subseteq unasked'[job[j].win]
    PROVE  WindowsCovered'
<1>0. /\ job[j] \in JobStates /\ JobCovered(job[j]) /\ win \in [Windows -> WindowStates]
  BY DEF TypeOK, CoverInv, JobsCovered
<1>1. PICK r \in JobStates, w \in Windows, u \in Nat : r = job[j] /\ w = r.win /\ u = r.upto
  BY <1>0, BoundsAssumption DEF JobStates
<1>2. u <= Last(w) /\ Last(w) \in Nat /\ Last(w)' \in Nat /\ Last(w) <= Last(w)'
  BY <1>0, <1>1, LastIsANumber, NextLastIsANumber, BoundsAssumption
     DEF JobCovered, Working, Grows
<1>3. ASSUME NEW i \in 1 .. u, transcript'[w][i] = "text" PROVE Accounted(w, i)'
  <2>1. i \in 1 .. Last(w) /\ i \in Nat /\ transcript[w][i] = "text"
    BY <1>2, <1>3 DEF Grows
  <2>2. Accounted(w, i) \/ InHand(r, i)
    BY <1>0, <1>1, <2>1 DEF JobCovered, Working
  <2>3. CASE i \in r.texts /\ r.at = "bare"
    BY <1>1, <2>3 DEF Accounted
  <2>4. CASE r.at \in {"skip", "write"} /\ InHand(r, i)
    <3>1. r.at = "write"
      BY <1>0, <1>1, <2>4 DEF InHand, Asked, JobCovered
    <3>2. (\A k \in r.texts : summed[w][k] > 0) /\ r.touched \subseteq passed[w]
      BY <1>0, <1>1, <3>1 DEF JobCovered
    <3>3. Accounted(w, i)
      BY <2>1, <2>4, <3>2, CutIsCrowded DEF InHand, Accounted
    <3>. QED  BY <2>1, <3>3, AccountedStays
  <2>5. CASE Accounted(w, i)
    BY <2>1, <2>5, AccountedStays
  <2>. QED  BY <1>1, <2>2, <2>3, <2>4, <2>5 DEF InHand, Asked
<1>4. Covered(w, u)'
  BY <1>2, <1>3 DEF Covered
<1>5. ASSUME NEW v \in Windows PROVE Covered(v, win[v].cursor)'
  <2>1. win'[v].cursor = IF v = w THEN u ELSE win[v].cursor
    BY <1>0, <1>1 DEF Rewrite, WindowStates, JobStates
  <2>2. PICK n \in Nat : n = win'[v].cursor /\ Covered(v, n)'
    <3>1. CASE v = w
      BY <1>4, <2>1, <3>1
    <3>2. CASE v # w
      BY <2>1, <3>2, Cursors, CoveredStays DEF CoverInv, WindowsCovered
    <3>. QED  BY <3>1, <3>2
  <2>. QED  BY <2>2 DEF Covered
<1>. QED  BY <1>5 DEF WindowsCovered

LEMMA JobStepCovers ==
    ASSUME TypeOK, TypeOK', Grows, CoverInv, NEW j \in Jobs,
           JobStep(j) \/ Raise(j) \/ Crash(j)
    PROVE  CoverInv'
<1>0. job[j] \in JobStates /\ win \in [Windows -> WindowStates]
  BY DEF TypeOK
<1>1. HandsCovered'
  <2>1. UNCHANGED <<hand, finished>>
    BY DEF JobStep, LookUp, Enter, Snapshot, ReadExcerpt, WriteTask, SkipEmpty, SkipUnasked,
       ModelAnswers, ModelsFail, MergeContext, MergeRecord, WriteCounters, ClearTouched, Finish,
       Raise, Crash
  <2>. QED  BY <2>1, HandsKeepCovered DEF CoverInv
<1>2. WindowsCovered'
  <2>1. CASE SkipEmpty(j)
    BY <2>1, RewriteCovers DEF SkipEmpty
  <2>2. CASE WriteCounters(j)
    BY <2>2, RewriteCovers DEF WriteCounters
  <2>4. CASE SkipUnasked(j)
    <3>1. /\ Rewrite(j, FALSE) /\ job[j].at = "bare"
          /\ unasked' = [unasked EXCEPT ![job[j].win] = @ \union job[j].texts]
      BY <2>4 DEF SkipUnasked
    <3>2. job[j].texts \subseteq unasked'[job[j].win]
      BY <1>0, <3>1 DEF TypeOK, JobStates
    <3>. QED  BY <3>1, <3>2, RewriteCovers
  <2>3. CASE ~SkipEmpty(j) /\ ~WriteCounters(j) /\ ~SkipUnasked(j)
    <3>1. win' = win \/ ClearTouched(j)
      BY <2>3 DEF JobStep, LookUp, Enter, Snapshot, ReadExcerpt, WriteTask, ModelAnswers,
         ModelsFail, MergeContext, MergeRecord, Finish, Raise, Crash
    <3>2. \A w \in Windows : win'[w].cursor = win[w].cursor
      BY <1>0, <3>1 DEF ClearTouched, WindowStates
    <3>. QED  BY <3>2, WindowsKeepCovered DEF CoverInv
  <2>. QED  BY <2>1, <2>2, <2>3, <2>4
<1>3. JobsCovered'
  <2>1. CASE Snapshot(j)
    BY <2>1, SnapshotCovers
  <2>2. CASE ReadExcerpt(j)
    BY <2>2, ExcerptCovers
  <2>6. CASE WriteTask(j)
    BY <2>6, TaskCovers
  <2>3. CASE job' = [job EXCEPT ![j] = Free]
    BY <2>3, FreeKeepsCovered
  <2>4. CASE MergeContext(j)
    <3>1. PICK a \in {"write", "record"} : job' = [job EXCEPT ![j] = [job[j] EXCEPT !.at = a]]
      BY <2>4 DEF MergeContext, Becomes
    <3>2. \A i \in job[j].texts : summed'[job[j].win][i] > 0
      <4>1. /\ summed \in [Windows -> [Events -> 0 .. 2]] /\ job[j].win \in Windows
            /\ job[j].texts \subseteq Events
        BY <1>0 DEF TypeOK, JobStates
      <4>2. \A i \in Events : summed[job[j].win][i] \in 0 .. 2
        BY <4>1
      <4>. QED  BY <2>4, <4>1, <4>2 DEF MergeContext
    <3>3. job[j].at \in Working /\ a \in Stages /\ a # "skip" /\ a \in Asked
      BY <2>4 DEF MergeContext, Working, Stages, Asked
    <3>4. job[j].touched \subseteq passed'[job[j].win]
      BY <1>0, <2>4 DEF MergeContext, TypeOK, JobStates
    <3>. QED  BY <3>1, <3>2, <3>3, <3>4, StageKeepsCovered
  <2>5. CASE \/ LookUp(j) /\ job[j].win \in attached
             \/ Enter(j) \/ SkipEmpty(j) \/ SkipUnasked(j) \/ ModelAnswers(j) \/ ModelsFail(j)
             \/ MergeRecord(j) \/ WriteCounters(j) \/ ClearTouched(j) \/ Raise(j)
    <3>1. PICK a \in Stages :
            /\ job' = [job EXCEPT ![j] = [job[j] EXCEPT !.at = a]]
            /\ a \in Working => job[j].at \in Working /\ (job[j].at \in Asked => a \in Asked)
            /\ a # "skip" /\ (a \in {"record", "write"} => job[j].at \in {"record", "write"})
      BY <2>5 DEF LookUp, Enter, SkipEmpty, SkipUnasked, ModelAnswers, ModelsFail, MergeRecord,
         WriteCounters, ClearTouched, Raise, Becomes, Stages, Working, Asked
    <3>. QED  BY <3>1, StageKeepsCovered
  <2>. QED  BY <2>1, <2>2, <2>3, <2>4, <2>5, <2>6 DEF JobStep, LookUp, Finish, Crash
<1>. QED  BY <1>1, <1>2, <1>3 DEF CoverInv

LEMMA CoverInvariant == Spec => [](TypeOK /\ CoverInv)
<1>1. Init /\ TypeOK => CoverInv
  <2>. SUFFICES ASSUME Init, TypeOK PROVE CoverInv
    OBVIOUS
  <2>1. \A w \in Windows : Covered(w, 0)
    BY LastIsANumber DEF Covered
  <2>2. WindowsCovered /\ HandsCovered
    <3>1. /\ \A w \in Windows : win[w].cursor = 0 /\ hand[w].snap.cursor = 0 /\ finished[w] = 0
      BY DEF Init, Idle, NoWindow
    <3>. QED  BY <2>1, <3>1, LastIsANumber DEF WindowsCovered, HandsCovered, Covered
  <2>3. JobsCovered
    <3>. SUFFICES ASSUME NEW j \in Jobs PROVE JobCovered(job[j])
      BY DEF JobsCovered
    <3>1. job[j] = Free
      BY DEF Init
    <3>2. /\ Free.at = "free" /\ Free.limit = 0 /\ Free.snap.cursor = 0 /\ Free.win \in Windows
      BY WindowsAssumption DEF Free, NoWindow
    <3>. QED  BY <2>1, <3>1, <3>2 DEF JobCovered, Covered, Working
  <2>. QED  BY <2>2, <2>3 DEF CoverInv
<1>2. TypeOK /\ CoverInv /\ [Next]_vars => (TypeOK /\ CoverInv)'
  <2>. SUFFICES ASSUME TypeOK, CoverInv, [Next]_vars PROVE TypeOK' /\ CoverInv'
    OBVIOUS
  <2>1. TypeOK' /\ Grows
    BY NextType, NextGrows DEF CoverInv
  <2>2. CASE UNCHANGED vars
    <3>1. UNCHANGED <<win, hand, job, finished>>
      BY <2>2 DEF vars
    <3>2. WindowsCovered' /\ HandsCovered'
      BY <2>1, <3>1, WindowsKeepCovered, HandsKeepCovered DEF CoverInv
    <3>3. JobsCovered'
      BY <2>1, <3>1, JobsKeepCovered DEF CoverInv, JobsCovered
    <3>. QED  BY <2>1, <3>2, <3>3 DEF CoverInv
  <2>3. CASE Next
    BY <2>1, <2>3, WindowStepCovers, DoneStepCovers, CreateStepCovers, JobStepCovers DEF Next
  <2>. QED  BY <2>1, <2>2, <2>3
<1>. QED  BY <1>1, <1>2, InitType, PTL DEF Spec

(* A text the cursor has passed is accounted for: merged, finished by hand, *)
(* said before an attach, too old for a report that was full of later ones, *)
(* or read for a record there is not.                                       *)
THEOREM NothingIsSkipped == Spec => []NothingSkipped
<1>1. TypeOK /\ CoverInv => NothingSkipped
  BY DEF CoverInv, WindowsCovered, Covered, NothingSkipped
<1>. QED  BY <1>1, CoverInvariant, PTL

-----------------------------------------------------------------------------
(* Without `owrap ctx done` and detaching, only the holder of the lock      *)
(* moves the cursor, from where its snapshot saw it.                        *)
Reading == {"read", "trim", "skip", "bare", "model", "merge", "record", "write"}
FreshInv ==
    /\ \A w \in Windows : hand[w].at = "idle"
    /\ \A j \in Jobs :
         /\ job[j].at \in Reading => win[job[j].win].cursor = job[j].snap.cursor
         /\ job[j].at \in Working => job[j].snap.cursor <= job[j].upto

(* The cursor moves only where a job writes it.                             *)
Writes(j) ==
    /\ job[j].at \in Working
    /\ job'[j].at \notin Reading
    /\ win'[job[j].win].cursor = job[j].upto
    /\ \A w \in Windows : w # job[j].win => win'[w].cursor = win[w].cursor

LEMMA CursorMoves ==
    ASSUME TypeOK, TypeOK', FreshInv, CanFinish = FALSE, CanDetach = FALSE, [Next]_vars
    PROVE  /\ hand' = hand
           /\ \/ \A w \in Windows : win'[w].cursor = win[w].cursor
              \/ \E j \in Jobs : Writes(j) /\ \A k \in Jobs \ {j} : job'[k] = job[k]
<1>0. /\ win \in [Windows -> WindowStates] /\ job \in [Jobs -> JobStates]
  BY DEF TypeOK
<1>1. ASSUME NEW w \in Windows, WindowStep(w)
      PROVE  hand' = hand /\ \A v \in Windows : win'[v].cursor = win[v].cursor
  <2>1. ~Detach(w) /\ ~DetachStale(w) /\ ~AttachElsewhere(w)
    BY DEF Detach, DetachStale, AttachElsewhere
  <2>. QED  BY <1>0, <1>1, <2>1 DEF WindowStates, WindowStep, Speak, Attach, QueueTouched,
               CoolsDown
<1>2. ASSUME NEW w \in Windows, DoneStep(w) PROVE FALSE
  BY <1>2 DEF FreshInv, DoneStep, DoneRead, DoneWrite, DoneStatus, DoneClear
<1>3. ASSUME NEW j \in Jobs, CreateStep(j)
      PROVE  UNCHANGED <<win, hand>>
  BY <1>3 DEF CreateStep, CheckAttached, HookRun, RunManual, Create
<1>4. ASSUME NEW j \in Jobs, JobStep(j) \/ Raise(j) \/ Crash(j)
      PROVE  /\ hand' = hand
             /\ \/ \A v \in Windows : win'[v].cursor = win[v].cursor
                \/ Writes(j) /\ \A k \in Jobs \ {j} : job'[k] = job[k]
  <2>1. hand' = hand
    BY <1>4 DEF JobStep, LookUp, Enter, Snapshot, ReadExcerpt, WriteTask, SkipEmpty,
       SkipUnasked, ModelAnswers, ModelsFail, MergeContext, MergeRecord, WriteCounters, ClearTouched, Finish, Raise, Crash
  <2>2. CASE SkipEmpty(j) \/ SkipUnasked(j) \/ WriteCounters(j)
    <3>1. PICK b \in BOOLEAN : Rewrite(j, b)
      BY <2>2 DEF SkipEmpty, SkipUnasked, WriteCounters
    <3>2. PICK a \in {"ok", "clear"} : job' = [job EXCEPT ![j] = [job[j] EXCEPT !.at = a]]
      BY <2>2 DEF SkipEmpty, SkipUnasked, WriteCounters, Becomes
    <3>3. job[j] \in JobStates /\ job[j].win \in Windows /\ job[j].snap \in WindowStates
      BY <1>0 DEF JobStates
    <3>4. job'[j].at \notin Reading /\ \A k \in Jobs \ {j} : job'[k] = job[k]
      BY <1>0, <3>2, <3>3 DEF Reading, JobStates
    <3>5. /\ win'[job[j].win].cursor = job[j].upto
          /\ \A w \in Windows : w # job[j].win => win'[w].cursor = win[w].cursor
      BY <1>0, <3>1, <3>3 DEF Rewrite, WindowStates
    <3>6. job[j].at \in Working
      BY <2>2 DEF SkipEmpty, SkipUnasked, WriteCounters, Working
    <3>. QED  BY <2>1, <3>4, <3>5, <3>6 DEF Writes
  <2>3. CASE ~SkipEmpty(j) /\ ~SkipUnasked(j) /\ ~WriteCounters(j)
    <3>1. win' = win \/ ClearTouched(j)
      BY <1>4, <2>3 DEF JobStep, LookUp, Enter, Snapshot, ReadExcerpt, WriteTask, ModelAnswers,
         ModelsFail, MergeContext, MergeRecord, Finish, Raise, Crash
    <3>2. \A w \in Windows : win'[w].cursor = win[w].cursor
      BY <1>0, <3>1 DEF ClearTouched, WindowStates
    <3>. QED  BY <2>1, <3>2
  <2>. QED  BY <2>2, <2>3
<1>5. CASE UNCHANGED vars
  BY <1>5 DEF vars
<1>. QED  BY <1>1, <1>2, <1>3, <1>4, <1>5 DEF Next

(* A step leaves a job where it was, or gives it a snapshot, a cursor to    *)
(* write or a stage.                                                        *)
LEMMA JobReads ==
    ASSUME TypeOK, FreshInv, [Next]_vars, NEW j \in Jobs, job'[j].at \in Reading
    PROVE  \/ /\ job'[j].win = job[j].win /\ job'[j].snap = job[j].snap
              /\ job'[j].at \in Working => job'[j].snap.cursor <= job'[j].upto
              /\ job[j].at \in Reading
           \/ /\ job'[j].at = "read" /\ win' = win /\ job'[j].win = job[j].win
              /\ job'[j].snap = win[job[j].win]
<1>0. job \in [Jobs -> JobStates] /\ job[j] \in JobStates
  BY DEF TypeOK
<1>1. CASE job'[j] = job[j]
  BY <1>1 DEF FreshInv, Working, Reading
<1>2. ASSUME NEW k \in Jobs, CreateStep(k) \/ JobStep(k) \/ Raise(k) \/ Crash(k), job'[j] # job[j]
      PROVE  k = j
  BY <1>0, <1>2 DEF CreateStep, CheckAttached, HookRun, RunManual, Create, JobStep, LookUp, Enter,
     Snapshot, ReadExcerpt, WriteTask, SkipEmpty, SkipUnasked, ModelAnswers, ModelsFail,
     MergeContext, MergeRecord, WriteCounters, ClearTouched, Finish, Raise, Crash, Becomes
<1>3. CASE CreateStep(j)
  <2>1. PICK w \in Windows, half \in {"both", "ctx", "updr"}, a \in {"waiting", "queued"} :
          Create(j, w, half, a)
    BY <1>3, HalvesAssumption DEF CreateStep, CheckAttached, HookRun, RunManual
  <2>2. job'[j].at = a
    BY <1>0, <2>1 DEF Create, Free
  <2>. QED  BY <2>2 DEF Reading
<1>4. CASE Snapshot(j)
  BY <1>0, <1>4 DEF Snapshot, JobStates, Reading
<1>5. CASE ReadExcerpt(j)
  <2>. DEFINE x == Texts(job[j].win, job[j].snap.cursor, Ceiling(j))
              t == win[job[j].win].touched
  <2>1. PICK a \in Stages :
          job' = [job EXCEPT ![j] = [job[j] EXCEPT !.texts = x, !.touched = t,
                                       !.limit = Ceiling(j), !.upto = Upto(j), !.at = a]]
    BY <1>5 DEF ReadExcerpt, Stages
  <2>2. job[j].snap.cursor <= Upto(j)
    <3>1. Ceiling(j) \in Nat /\ job[j].snap.cursor \in Nat
      BY <1>0, CeilingIsANumber, BoundsAssumption DEF JobStates, WindowStates
    <3>. QED  BY <3>1 DEF Upto, Later
  <2>3. job'[j].win = job[j].win /\ job'[j].snap = job[j].snap /\ job'[j].upto = Upto(j)
    <3>. HIDE DEF x, t
    <3>. QED  BY <1>0, <2>1 DEF JobStates
  <2>4. job[j].at \in Reading
    BY <1>5 DEF ReadExcerpt, Reading
  <2>. QED  BY <2>2, <2>3, <2>4
<1>6. CASE job' = [job EXCEPT ![j] = Free]
  <2>1. job'[j].at = "free"
    BY <1>0, <1>6 DEF Free
  <2>. QED  BY <2>1 DEF Reading
<1>7. CASE \/ LookUp(j) /\ job[j].win \in attached
           \/ Enter(j) \/ SkipEmpty(j) \/ SkipUnasked(j) \/ ModelAnswers(j) \/ ModelsFail(j)
           \/ MergeContext(j) \/ MergeRecord(j) \/ WriteCounters(j) \/ ClearTouched(j)
           \/ Raise(j)
  <2>1. PICK a \in Stages :
          /\ job' = [job EXCEPT ![j] = [job[j] EXCEPT !.at = a]]
          /\ a \in Reading => job[j].at \in Working
    BY <1>7 DEF LookUp, Enter, SkipEmpty, SkipUnasked, ModelAnswers, ModelsFail, MergeContext, MergeRecord,
       WriteCounters, ClearTouched, Raise, Becomes, Stages, Reading, Working
  <2>2. /\ job'[j].win = job[j].win /\ job'[j].snap = job[j].snap /\ job'[j].upto = job[j].upto
        /\ job'[j].at = a
    BY <1>0, <2>1 DEF JobStates
  <2>. QED  BY <2>1, <2>2 DEF FreshInv, Reading, Working
<1>9. CASE WriteTask(j)
  <2>1. /\ job[j].at \in Working /\ job[j].at \in Reading /\ job'[j].win = job[j].win
        /\ job'[j].snap = job[j].snap /\ job'[j].upto = job[j].upto
    BY <1>0, <1>9, TaskWritten DEF Working, Reading
  <2>. QED  BY <2>1 DEF FreshInv
<1>8. CASE UNCHANGED vars \/ \E w \in Windows : WindowStep(w) \/ DoneStep(w)
  BY <1>1, <1>8, OthersStay DEF vars
<1>. QED  BY <1>1, <1>2, <1>3, <1>4, <1>5, <1>6, <1>7, <1>8, <1>9
          DEF Next, JobStep, LookUp, Finish, Crash

LEMMA FreshStep ==
    ASSUME TypeOK, TypeOK', LockInv, FreshInv, CanFinish = FALSE, CanDetach = FALSE, [Next]_vars
    PROVE  FreshInv'
<1>0. /\ \A j \in Jobs : job[j].win \in Windows
      /\ Working \subseteq Reading /\ Reading \subseteq Inside
  BY DEF TypeOK, JobStates, Working, Reading, Inside, Stages
<1>1. \A w \in Windows : hand'[w].at = "idle"
  BY CursorMoves DEF FreshInv
<1>2. ASSUME NEW j \in Jobs, job'[j].at \in Reading
      PROVE  /\ win'[job'[j].win].cursor = job'[j].snap.cursor
             /\ job'[j].at \in Working => job'[j].snap.cursor <= job'[j].upto
  <2>1. CASE job'[j].at = "read" /\ win' = win /\ job'[j].win = job[j].win
             /\ job'[j].snap = win[job[j].win]
    BY <2>1 DEF Working
  <2>2. CASE /\ job'[j].win = job[j].win /\ job'[j].snap = job[j].snap
             /\ job'[j].at \in Working => job'[j].snap.cursor <= job'[j].upto
             /\ job[j].at \in Reading
    <3>1. win[job[j].win].cursor = job[j].snap.cursor
      BY <2>2 DEF FreshInv
    <3>2. ASSUME NEW k \in Jobs, Writes(k) PROVE job[k].win # job[j].win
      <4>1. k # j
        BY <1>2, <3>2 DEF Writes
      <4>. QED  BY <1>0, <2>2, <3>2, <4>1 DEF Writes, LockInv
    <3>3. win'[job[j].win].cursor = win[job[j].win].cursor
      BY <1>0, <3>2, CursorMoves DEF Writes
    <3>. QED  BY <2>2, <3>1, <3>3
  <2>. QED  BY <1>2, <2>1, <2>2, JobReads
<1>. QED  BY <1>0, <1>1, <1>2 DEF FreshInv

LEMMA FreshInvariant ==
    ASSUME CanFinish = FALSE, CanDetach = FALSE
    PROVE  Spec => [](TypeOK /\ LockInv /\ FreshInv)
<1>1. Init => FreshInv
  <2>. SUFFICES ASSUME Init PROVE FreshInv
    OBVIOUS
  <2>1. Free.at \notin Reading /\ Free.at \notin Working /\ Idle.at = "idle"
    BY DEF Free, Idle, Reading, Working
  <2>2. /\ \A j \in Jobs : job[j] = Free
        /\ \A w \in Windows : hand[w] = Idle
    BY DEF Init
  <2>. QED  BY <2>1, <2>2 DEF FreshInv
<1>2. TypeOK /\ LockInv /\ FreshInv /\ [Next]_vars => FreshInv'
  BY NextType, FreshStep
<1>. QED  BY <1>1, <1>2, LockInvariant, PTL DEF Spec

(* What a job writes is no less than what its window has.                   *)
LEMMA CursorsGoOn ==
    ASSUME TypeOK, TypeOK', FreshInv, CanFinish = FALSE, CanDetach = FALSE, [Next]_vars,
           NEW w \in Windows
    PROVE  win'[w].cursor >= win[w].cursor
<1>1. win[w].cursor \in Nat
  BY Cursors
<1>2. ASSUME NEW j \in Jobs, Writes(j) PROVE win'[w].cursor >= win[w].cursor
  <2>1. job[j].snap.cursor <= job[j].upto /\ job[j].upto \in Nat
        /\ win[job[j].win].cursor = job[j].snap.cursor
    <3>1. job[j].at \in Working /\ job[j].at \in Reading
      BY <1>2 DEF Writes, Working, Reading
    <3>. QED  BY <3>1, Cursors, BoundsAssumption DEF FreshInv, JobStates
  <2>2. CASE w = job[j].win
    <3>1. win[w].cursor <= job[j].upto
      BY <2>1, <2>2
    <3>2. win'[w].cursor = job[j].upto \/ win'[w].cursor = win[w].cursor
      BY <1>2, <2>2 DEF Writes
    <3>. QED  BY <1>1, <2>1, <3>1, <3>2
  <2>. QED  BY <1>1, <1>2, <2>2 DEF Writes
<1>3. \/ \A v \in Windows : win'[v].cursor = win[v].cursor
      \/ \E j \in Jobs : Writes(j)
  BY CursorMoves
<1>4. CASE \A v \in Windows : win'[v].cursor = win[v].cursor
  BY <1>1, <1>4
<1>. QED  BY <1>2, <1>3, <1>4

(* The cursor of a window never moves backward.                             *)
THEOREM CursorsAdvance ==
    ASSUME CanFinish = FALSE, CanDetach = FALSE
    PROVE  Spec => CursorNeverBack
<1>1. TypeOK /\ TypeOK' /\ LockInv /\ FreshInv /\ [Next]_vars
         => [\A w \in Windows : win'[w].cursor >= win[w].cursor]_vars
  BY CursorsGoOn
<1>. QED  BY <1>1, FreshInvariant, PTL DEF Spec, CursorNeverBack
-----------------------------------------------------------------------------
(* With jobs that run to their end as well, what was merged lies behind the *)
(* cursor or with the one job that has merged it and still has to move the  *)
(* cursor past it; an excerpt on its way to a merge holds nothing of it.    *)
Unmerged == {"trim", "model", "merge"}
Merged == {"record", "write"}
Held(w, i) ==
    \E j \in Jobs : job[j].at \in Merged /\ job[j].win = w /\ i \in job[j].texts

ExcerptsEnd ==
    \A j \in Jobs : job[j].at \in Unmerged \union Merged =>
                       \A i \in job[j].texts : i <= job[j].upto
ExcerptsAreNew ==
    \A j \in Jobs : job[j].at \in Unmerged =>
                       \A i \in job[j].texts : summed[job[j].win][i] = 0
MergedIsBehind ==
    \A w \in Windows, i \in Events : summed[w][i] > 0 => i <= win[w].cursor \/ Held(w, i)
OnceInv == ExcerptsEnd /\ ExcerptsAreNew /\ MergedIsBehind /\ MergedOnce

(* A job on its way to the merge, or from it to the cursor, keeps what it   *)
(* has read, or less of it, and leaves only for a cursor at the end of it.  *)
SameExcerpt(j) ==
    /\ job'[j].win = job[j].win /\ job'[j].texts = job[j].texts /\ job'[j].upto = job[j].upto
OnItsWay(j) ==
    /\ job'[j].at \in Unmerged =>
          /\ job[j].at \in Unmerged /\ job'[j].win = job[j].win
          /\ job'[j].texts \subseteq job[j].texts /\ job'[j].upto = job[j].upto
    /\ job'[j].at \in Merged => job[j].at \in Merged /\ SameExcerpt(j)
    /\ job[j].at \in Merged => \/ job'[j].at \in Merged /\ SameExcerpt(j)
                               \/ win'[job[j].win].cursor = job[j].upto

LEMMA MergedStaysBehind ==
    ASSUME TypeOK, TypeOK', OnceInv, summed' = summed,
           \A w \in Windows : win'[w].cursor >= win[w].cursor,
           \A j \in Jobs : job[j].at \in Merged =>
              \/ job'[j].at \in Merged /\ SameExcerpt(j)
              \/ win'[job[j].win].cursor = job[j].upto
    PROVE  MergedIsBehind'
<1>. SUFFICES ASSUME NEW w \in Windows, NEW i \in Events, summed[w][i] > 0
              PROVE  i <= win'[w].cursor \/ Held(w, i)'
  BY DEF MergedIsBehind
<1>0. i \in Nat /\ win[w].cursor \in Nat /\ win'[w].cursor \in Nat
  <2>1. win'[w] \in WindowStates
    BY DEF TypeOK
  <2>. QED  BY <2>1, Cursors, BoundsAssumption DEF Events, WindowStates
<1>1. CASE i <= win[w].cursor
  BY <1>0, <1>1
<1>2. CASE Held(w, i)
  <2>1. PICK j \in Jobs : job[j].at \in Merged /\ job[j].win = w /\ i \in job[j].texts
    BY <1>2 DEF Held
  <2>2. i <= job[j].upto
    BY <2>1 DEF OnceInv, ExcerptsEnd
  <2>. QED  BY <2>1, <2>2 DEF Held, SameExcerpt
<1>. QED  BY <1>1, <1>2 DEF OnceInv, MergedIsBehind

LEMMA OnTheirWay ==
    ASSUME TypeOK, TypeOK', OnceInv, summed' = summed,
           \A w \in Windows : win'[w].cursor >= win[w].cursor,
           \A j \in Jobs : OnItsWay(j)
    PROVE  OnceInv'
<1>1. MergedIsBehind'
  BY MergedStaysBehind DEF OnItsWay
<1>2. ExcerptsEnd'
  BY DEF OnceInv, ExcerptsEnd, OnItsWay, SameExcerpt
<1>3. ExcerptsAreNew'
  BY DEF OnceInv, ExcerptsAreNew, OnItsWay, SameExcerpt
<1>4. MergedOnce'
  BY DEF OnceInv, MergedOnce
<1>. QED  BY <1>1, <1>2, <1>3, <1>4 DEF OnceInv

(* What is read now was not merged before: the reader alone is inside.      *)
LEMMA ExcerptIsNew ==
    ASSUME TypeOK, TypeOK', LockInv, FreshInv, OnceInv, NEW j \in Jobs, ReadExcerpt(j)
    PROVE  OnceInv'
<1>0. /\ job \in [Jobs -> JobStates] /\ job[j] \in JobStates /\ job[j].win \in Windows
      /\ win' = win /\ summed' = summed /\ job[j].at = "read"
  BY DEF TypeOK, JobStates, ReadExcerpt
<1>1. PICK w \in Windows, c \in Nat, n \in Nat :
        /\ w = job[j].win /\ c = job[j].snap.cursor /\ n = Ceiling(j)
        /\ c = win[w].cursor /\ n <= MaxEvents
  <2>1. job[j].snap.cursor = win[job[j].win].cursor
    BY <1>0 DEF FreshInv, Reading
  <2>. QED  BY <1>0, <2>1, CeilingIsANumber, BoundsAssumption DEF JobStates, WindowStates
<1>. DEFINE x == Texts(w, c, n)
            u == Later(n, c)
<1>2. /\ job'[j].win = w /\ job'[j].texts = x /\ job'[j].upto = u
      /\ job'[j].at \in {"skip", "ok", "trim"}
      /\ \A k \in Jobs \ {j} : job'[k] = job[k]
  <2>. DEFINE t == win[w].touched
              a == IF x = {} /\ t = {}
                   THEN IF After(w, c, n) # {} THEN "skip" ELSE "ok"
                   ELSE IF Cardinality(x) + Cardinality(t) < MinChars THEN "ok" ELSE "trim"
  <2>1. job' = [job EXCEPT ![j] = [job[j] EXCEPT !.texts = x, !.touched = t,
                                     !.limit = n, !.upto = u, !.at = a]]
    BY <1>1, Zenon DEF ReadExcerpt, Upto
  <2>2. a \in {"skip", "ok", "trim"}
    OBVIOUS
  <2>. HIDE DEF t, a, x, u
  <2>. QED  BY <1>0, <1>1, <2>1, <2>2 DEF JobStates
<1>3. ASSUME NEW i \in x PROVE i \in Events /\ i > c /\ i <= u
  <2>1. i \in 1 .. n /\ i > c
    BY <1>3 DEF Texts, After
  <2>. QED  BY <1>1, <2>1, BoundsAssumption DEF Later, Events
<1>4. ASSUME NEW i \in x PROVE summed[w][i] = 0
  <2>1. summed[w][i] \in 0 .. 2 /\ i \in Events
    BY <1>3, <1>4 DEF TypeOK
  <2>2. ~Held(w, i)
    <3>. SUFFICES ASSUME NEW k \in Jobs, job[k].at \in Merged, job[k].win = w PROVE FALSE
      BY DEF Held
    <3>1. job[k].at \in Inside /\ job[j].at \in Inside
      BY <1>0 DEF Inside, Stages, Merged
    <3>2. k = j
      BY <1>1, <3>1 DEF LockInv
    <3>. QED  BY <1>0, <3>2 DEF Merged
  <2>3. ~(i <= win[w].cursor)
    BY <1>1, <1>3, <1>4, <2>1 DEF Events
  <2>. QED  BY <2>1, <2>2, <2>3 DEF OnceInv, MergedIsBehind
<1>. HIDE DEF x, u
<1>5. MergedIsBehind'
  <2>1. \A k \in Jobs : job[k].at \in Merged => job'[k].at \in Merged /\ SameExcerpt(k)
    BY <1>0, <1>2 DEF Merged, SameExcerpt
  <2>2. \A v \in Windows : win'[v].cursor >= win[v].cursor
    BY <1>0, Cursors
  <2>. QED  BY <1>0, <2>1, <2>2, MergedStaysBehind
<1>6. ExcerptsEnd'
  BY <1>2, <1>3 DEF OnceInv, ExcerptsEnd
<1>7. ExcerptsAreNew'
  BY <1>0, <1>2, <1>4 DEF OnceInv, ExcerptsAreNew
<1>8. MergedOnce'
  BY <1>0 DEF OnceInv, MergedOnce
<1>. QED  BY <1>5, <1>6, <1>7, <1>8 DEF OnceInv

(* A merge counts each text of its excerpt for the first time.              *)
LEMMA MergeIsFirst ==
    ASSUME TypeOK, TypeOK', LockInv, OnceInv, NEW j \in Jobs, MergeContext(j)
    PROVE  OnceInv'
<1>0. /\ job \in [Jobs -> JobStates] /\ job[j] \in JobStates /\ job[j].at = "merge"
      /\ win' = win /\ summed \in [Windows -> [Events -> 0 .. 2]]
  BY DEF TypeOK, MergeContext
<1>1. PICK w \in Windows, x \in SUBSET Events : w = job[j].win /\ x = job[j].texts
  BY <1>0 DEF JobStates
<1>2. /\ job'[j].at \in Merged /\ SameExcerpt(j)
      /\ \A k \in Jobs \ {j} : job'[k] = job[k]
  <2>1. PICK a \in Merged : job' = [job EXCEPT ![j] = [job[j] EXCEPT !.at = a]]
    BY DEF MergeContext, Becomes, Merged
  <2>. QED  BY <1>0, <2>1 DEF JobStates, SameExcerpt
<1>3. \A i \in x : summed[w][i] = 0
  BY <1>0, <1>1 DEF OnceInv, ExcerptsAreNew, Unmerged
<1>4. \A v \in Windows, i \in Events :
        summed'[v][i] = IF v = w /\ i \in x THEN 1 ELSE summed[v][i]
  <2>1. \A i \in Events : summed[w][i] \in 0 .. 2
    BY <1>0
  <2>2. summed' = [summed EXCEPT ![w] =
                     [i \in Events |-> IF i \in x /\ @[i] < 2 THEN @[i] + 1 ELSE @[i]]]
    BY <1>1 DEF MergeContext
  <2>3. \A i \in x : summed[w][i] < 2 /\ summed[w][i] + 1 = 1
    BY <1>3
  <2>. QED  BY <1>0, <2>2, <2>3
<1>5. ASSUME NEW k \in Jobs, job'[k].at \in Unmerged
      PROVE  k # j /\ job'[k] = job[k] /\ job[k].win # w
  <2>1. k # j /\ job'[k] = job[k]
    BY <1>2, <1>5 DEF Merged, Unmerged
  <2>2. job[k].at \in Inside /\ job[j].at \in Inside
    BY <1>0, <1>5, <2>1 DEF Unmerged, Inside, Stages
  <2>. QED  BY <1>1, <2>1, <2>2 DEF LockInv
<1>6. ExcerptsEnd'
  BY <1>0, <1>2 DEF OnceInv, ExcerptsEnd, SameExcerpt, Unmerged
<1>7. ExcerptsAreNew'
  <2>. SUFFICES ASSUME NEW k \in Jobs, job'[k].at \in Unmerged, NEW i \in job'[k].texts
                PROVE  summed'[job'[k].win][i] = 0
    BY DEF ExcerptsAreNew
  <2>1. job'[k] = job[k] /\ job[k].win # w
    BY <1>5
  <2>2. summed[job[k].win][i] = 0
    BY <2>1 DEF OnceInv, ExcerptsAreNew
  <2>3. job[k].win \in Windows /\ i \in Events
    BY <1>0, <2>1 DEF JobStates
  <2>. QED  BY <1>4, <2>1, <2>2, <2>3
<1>8. MergedIsBehind'
  <2>. SUFFICES ASSUME NEW v \in Windows, NEW i \in Events, summed'[v][i] > 0
                PROVE  i <= win[v].cursor \/ Held(v, i)'
    BY <1>0 DEF MergedIsBehind
  <2>1. CASE v = w /\ i \in x
    BY <1>1, <1>2, <2>1 DEF Held, SameExcerpt
  <2>2. CASE ~(v = w /\ i \in x)
    <3>1. summed[v][i] > 0
      BY <1>4, <2>2
    <3>2. Held(v, i) => Held(v, i)'
      BY <1>0, <1>2 DEF Held, SameExcerpt, Merged
    <3>. QED  BY <3>1, <3>2 DEF OnceInv, MergedIsBehind
  <2>. QED  BY <2>1, <2>2
<1>9. MergedOnce'
  BY <1>4 DEF OnceInv, MergedOnce
<1>. QED  BY <1>6, <1>7, <1>8, <1>9 DEF OnceInv

LEMMA OnceStep ==
    ASSUME TypeOK, TypeOK', LockInv, FreshInv, OnceInv, [Next]_vars,
           CanFinish = FALSE, CanDetach = FALSE, CanCrash = FALSE
    PROVE  OnceInv'
<1>0. \A w \in Windows : win'[w].cursor >= win[w].cursor
  BY CursorsGoOn
<1>1. ASSUME NEW w \in Windows, WindowStep(w) \/ DoneStep(w) PROVE OnceInv'
  <2>1. job' = job
    BY <1>1, OthersStay
  <2>2. summed' = summed
    BY <1>1 DEF WindowStep, Speak, Attach, Detach, DetachStale, AttachElsewhere, QueueTouched,
       CoolsDown, DoneStep, DoneRead, DoneWrite, DoneStatus, DoneClear
  <2>3. \A j \in Jobs : OnItsWay(j)
    BY <2>1 DEF OnItsWay, SameExcerpt
  <2>. QED  BY <1>0, <2>2, <2>3, OnTheirWay
<1>2. ASSUME NEW j \in Jobs, CreateStep(j) \/ JobStep(j) \/ Raise(j) \/ Crash(j) PROVE OnceInv'
  <2>0. /\ job \in [Jobs -> JobStates] /\ job[j] \in JobStates
        /\ Free.at = "free" /\ win \in [Windows -> WindowStates]
    BY DEF TypeOK, Free
  <2>1. CASE ReadExcerpt(j)
    BY <2>1, ExcerptIsNew
  <2>2. CASE MergeContext(j)
    BY <2>2, MergeIsFirst
  <2>3. CASE ~ReadExcerpt(j) /\ ~MergeContext(j)
    <3>0. ~Raise(j) /\ ~Crash(j)
      BY DEF Raise, Crash
    <3>1. summed' = summed
      BY <1>2, <2>3, <3>0 DEF CreateStep, CheckAttached, HookRun, RunManual, Create, JobStep, LookUp,
         Enter, Snapshot, WriteTask, SkipEmpty, SkipUnasked, ModelAnswers, ModelsFail,
         MergeRecord, WriteCounters, ClearTouched, Finish
    <3>2. \A k \in Jobs \ {j} : job'[k] = job[k]
      BY <1>2, <2>0, <2>3, <3>0 DEF CreateStep, CheckAttached, HookRun, RunManual, Create, JobStep,
         LookUp, Enter, Snapshot, WriteTask, SkipEmpty, SkipUnasked, ModelAnswers, ModelsFail,
         MergeRecord, WriteCounters, ClearTouched, Finish, Becomes
    <3>3. OnItsWay(j)
      <4>1. CASE CreateStep(j)
        <5>1. PICK w \in Windows, half \in {"both", "ctx", "updr"}, a \in {"waiting", "queued"} :
                Create(j, w, half, a)
          BY <4>1, HalvesAssumption DEF CreateStep, CheckAttached, HookRun, RunManual
        <5>2. job[j].at = "free" /\ job'[j].at = a
          BY <2>0, <5>1 DEF Create, Free
        <5>. QED  BY <5>2 DEF OnItsWay, Unmerged, Merged
      <4>2. CASE LookUp(j) \/ Enter(j) \/ Finish(j)
        <5>1. /\ job[j].at \in {"queued", "waiting", "ok", "failed"}
              /\ job'[j].at \in {"free", "waiting", "entered"}
          BY <2>0, <4>2 DEF LookUp, Enter, Finish, Becomes, JobStates
        <5>. QED  BY <5>1 DEF OnItsWay, Unmerged, Merged
      <4>3. CASE Snapshot(j)
        <5>1. job[j].at = "entered" /\ job'[j].at \in {"ok", "read"}
          BY <2>0, <4>3 DEF Snapshot, JobStates
        <5>. QED  BY <5>1 DEF OnItsWay, Unmerged, Merged
      <4>4. CASE SkipEmpty(j) \/ SkipUnasked(j) \/ ClearTouched(j) \/ ModelsFail(j)
        <5>1. /\ job[j].at \in {"skip", "bare", "clear", "model"}
              /\ job'[j].at \in {"ok", "clear", "failed"}
          BY <2>0, <4>4 DEF SkipEmpty, SkipUnasked, ClearTouched, ModelsFail, Becomes, JobStates
        <5>. QED  BY <5>1 DEF OnItsWay, Unmerged, Merged
      <4>7. CASE WriteTask(j)
        BY <2>0, <4>7, TaskWritten DEF OnItsWay, Unmerged, Merged
      <4>5. CASE ModelAnswers(j) \/ MergeRecord(j)
        <5>1. /\ SameExcerpt(j)
              /\ \/ job[j].at = "model" /\ job'[j].at = "merge"
                 \/ job[j].at = "record" /\ job'[j].at = "write"
          BY <2>0, <4>5 DEF ModelAnswers, MergeRecord, Becomes, SameExcerpt, JobStates
        <5>. QED  BY <5>1 DEF OnItsWay, Unmerged, Merged, SameExcerpt
      <4>6. CASE WriteCounters(j)
        <5>1. job[j].at = "write" /\ job'[j].at \in {"ok", "clear"}
          BY <2>0, <4>6 DEF WriteCounters, Becomes, JobStates
        <5>2. win'[job[j].win].cursor = job[j].upto
          BY <2>0, <4>6 DEF WriteCounters, Rewrite, WindowStates, JobStates
        <5>. QED  BY <5>1, <5>2 DEF OnItsWay, Unmerged, Merged
      <4>. QED  BY <1>2, <2>3, <3>0, <4>1, <4>2, <4>3, <4>4, <4>5, <4>6, <4>7 DEF JobStep
    <3>4. \A k \in Jobs : OnItsWay(k)
      BY <3>2, <3>3 DEF OnItsWay, SameExcerpt
    <3>. QED  BY <1>0, <3>1, <3>4, OnTheirWay
  <2>. QED  BY <2>1, <2>2, <2>3
<1>3. CASE UNCHANGED vars
  <2>1. \A j \in Jobs : OnItsWay(j)
    BY <1>3 DEF vars, OnItsWay, SameExcerpt
  <2>2. summed' = summed
    BY <1>3 DEF vars
  <2>. QED  BY <1>0, <2>1, <2>2, OnTheirWay
<1>. QED  BY <1>1, <1>2, <1>3 DEF Next

(* No text is merged twice, with any number of windows and jobs queueing    *)
(* for the lock: a job that read the excerpt of another would need its lock, *)
(* or a cursor that went back.  Jobs that die between the merge and the     *)
(* cursor, detaching and `owrap ctx done` are left out: they do repeat it.  *)
THEOREM TextsMergeOnce ==
    ASSUME CanFinish = FALSE, CanDetach = FALSE, CanCrash = FALSE
    PROVE  Spec => []MergedOnce
<1>1. Init /\ TypeOK => OnceInv
  <2>. SUFFICES ASSUME Init, TypeOK PROVE OnceInv
    OBVIOUS
  <2>1. \A j \in Jobs : job[j] = Free
    BY DEF Init
  <2>2. Free.at \notin Unmerged /\ Free.at \notin Merged
    BY DEF Free, Unmerged, Merged
  <2>3. \A w \in Windows, i \in Events : summed[w][i] = 0
    BY DEF Init
  <2>. QED  BY <2>1, <2>2, <2>3 DEF OnceInv, ExcerptsEnd, ExcerptsAreNew, MergedIsBehind, MergedOnce
<1>2. TypeOK /\ LockInv /\ FreshInv /\ OnceInv /\ [Next]_vars => OnceInv'
  BY NextType, OnceStep
<1>3. OnceInv => MergedOnce
  BY DEF OnceInv
<1>. QED  BY <1>1, <1>2, <1>3, InitType, FreshInvariant, PTL DEF Spec
=============================================================================
