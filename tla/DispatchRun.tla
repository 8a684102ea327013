---------------------------- MODULE DispatchRun ----------------------------
(* One dispatch from its sentinel to its exit: the main thread that runs    *)
(* and reads the child, the watchdog thread that may kill it, the SIGTERM   *)
(* of `owrap done`, and how the verdict comes out of their races:           *)
(* src/owrap/utils/dispatch/terminal.py and watchdog.py, dispatch/work.py,  *)
(* kind/dispatch/task.py, exec.py, agent.py and read.py.                    *)
EXTENDS Naturals

CONSTANTS
    Kinds,         \* the kinds of dispatch, some of AllKinds
    Watched,       \* with a watchdog, without one (disablewd), or either
    Timeout,       \* the hard timeout of a run
    Stall,         \* stall_notify_s
    KillAfter,     \* *_kill_s
    NoOutput,      \* no_output_*_s
    Infra,         \* infra_failure_*_s
    Multiplier,    \* script_stall_multiplier
    LowAnchor, HighAnchor, GraceMin, GraceMax,   \* AGENT_GRACE_*
    MaxChunks,     \* pieces of output a child writes at most
    Horizon,       \* where the clock stops
    SlowReport     \* whether a watchdog at work can outlast the join

AllKinds == {"msg", "task", "exec", "agent", "read"}

ASSUME KindsAssumption == Kinds \subseteq AllKinds /\ Watched \subseteq BOOLEAN
ASSUME TimesAssumption ==
    /\ {Timeout, Stall, KillAfter, NoOutput, Infra, Multiplier, MaxChunks, Horizon} \subseteq Nat
    /\ {LowAnchor, HighAnchor, GraceMin, GraceMax} \subseteq Nat
    /\ Multiplier > 0 /\ LowAnchor < HighAnchor /\ GraceMin <= GraceMax
ASSUME SlowAssumption == SlowReport \in BOOLEAN

VARIABLES
    job,       \* the dispatch: its kind, and whether it has a watchdog
    now,       \* the clock
    child,     \* the process, its unread output, how often it wrote
    log,       \* what the log shows of its output, and when that changed
    handle,    \* Terminal._process is set
    main,      \* where the main thread is
    dog,       \* the watchdog thread, what it has noticed, and (history) what
               \* the log showed when it judged the run
    flag,      \* the signal state, the stop event, and how the run was left
    result,    \* what Terminal.run returned
    verdict,   \* what finish_dispatch made of it
    record,    \* what complete_sentinel recorded
    holds,     \* what the dispatch has acquired and not given back
    streak     \* times it reported its server silent, since a reset

vars == <<job, now, child, log, handle, main, dog, flag, result, verdict,
          record, holds, streak>>

-----------------------------------------------------------------------------
Chunks == {"banner", "text", "script"}
NoVerdict == [kind |-> "none", zero |-> FALSE]
Verdicts == [kind : {"ok", "timeout", "infra_failure", "unresponsive", "stalled",
                     "crashed", "failed"}, zero : BOOLEAN]

(* _compute_agent_grace, in whole seconds.                                  *)
AgentGrace(t) ==
    CASE t <= LowAnchor -> GraceMin
      [] t >= HighAnchor -> GraceMax
      [] OTHER -> GraceMin + ((t - LowAnchor) * (GraceMax - GraceMin)) \div (HighAnchor - LowAnchor)

(* Mutant: a run without a deadline.                                        *)
DeadlineOff == Horizon + 1
Deadline == IF job.kind = "agent" THEN Timeout + AgentGrace(Timeout) ELSE Timeout

Init ==
    /\ job \in [kind : Kinds, watched : Watched]
    /\ now = 0
    /\ child = [is |-> "none", pipe |-> "none", spoke |-> 0]
    /\ log = [model |-> FALSE, output |-> FALSE, script |-> FALSE, size |-> 1, at |-> 0]
    /\ handle = FALSE
    /\ main = "begin"
    /\ dog = [at |-> "off", state |-> "healthy", seen |-> 0, changed |-> 0, since |-> 0,
              polled |-> 0, output |-> FALSE, model |-> FALSE, health |-> "healthy",
              judged |-> "no"]
    /\ flag = [stalled |-> FALSE, external |-> FALSE, stop |-> FALSE,
               gaveUp |-> FALSE, raised |-> FALSE, late |-> FALSE]
    /\ result = "none"
    /\ verdict = NoVerdict /\ record = NoVerdict
    /\ holds = {"server"}
    /\ streak = 0

-----------------------------------------------------------------------------
(* Before the run.  The server is picked already (ServerPool); a rejected   *)
(* input ends the process there and then, with what it holds.               *)

Begin(kind, acquired) ==
    /\ main = "begin" /\ job.kind = kind
    /\ holds' = holds \union acquired
    /\ UNCHANGED <<job, now, child, log, handle, dog, flag, result, verdict, record, streak>>

(* A message with a newline, or too long, is refused.                       *)
BeginMsg ==
    \/ Begin("msg", {"sentinel"}) /\ main' = "spawn"
    \/ Begin("msg", {}) /\ main' = "exited"

(* register_task comes first; an empty input.md is refused after it.        *)
BeginTask ==
    \/ Begin("task", {"entry", "file", "sentinel"}) /\ main' = "spawn"
    \/ Begin("task", {"entry"}) /\ main' = "exited"

BeginExec == Begin("exec", {"entry", "sentinel"}) /\ main' = "spawn"

(* A long prompt goes through a file.                                       *)
BeginAgent ==
    /\ \E file \in {{}, {"file"}} : Begin("agent", {"sentinel"} \union file)
    /\ main' = "spawn"

BeginRead == Begin("read", {"sentinel"}) /\ main' = "spawn"

Guarded == job.watched /\ job.kind # "read"

(* The watchdog starts, then the child; or the child cannot be started.     *)
Spawn ==
    /\ main = "spawn"
    /\ dog' = IF Guarded THEN [dog EXCEPT !.at = "wait"] ELSE dog
    /\ \/ /\ child' = [child EXCEPT !.is = "running"]
          /\ handle' = TRUE /\ main' = "loop"
          /\ UNCHANGED flag
       \/ /\ main' = "stop" /\ flag' = [flag EXCEPT !.raised = TRUE]
          /\ UNCHANGED <<child, handle>>
    /\ UNCHANGED <<job, now, log, result, verdict, record, holds, streak>>

-----------------------------------------------------------------------------
(* The child.                                                               *)

Says(chunk) ==
    /\ child.is = "running" /\ main # "exited"
    /\ child.pipe = "none" /\ child.spoke < MaxChunks
    /\ child' = [child EXCEPT !.pipe = chunk, !.spoke = @ + 1]
    /\ UNCHANGED <<job, now, log, handle, main, dog, flag, result, verdict, record, holds, streak>>

Ends ==
    /\ child.is = "running" /\ main # "exited"
    /\ \E status \in {"zero", "nonzero"} : child' = [child EXCEPT !.is = status]
    /\ UNCHANGED <<job, now, log, handle, main, dog, flag, result, verdict, record, holds, streak>>

Tick ==
    /\ main # "exited" /\ now < Horizon /\ now' = now + 1
    /\ UNCHANGED <<job, child, log, handle, main, dog, flag, result, verdict, record, holds, streak>>

-----------------------------------------------------------------------------
(* Terminal.run.                                                            *)

(* terminate_process, by either thread: nothing without a process.          *)
TerminateProcess ==
    /\ child' = IF handle /\ child.is = "running" THEN [child EXCEPT !.is = "killed"] ELSE child
    /\ handle' = FALSE

(* The unread piece of output, parsed and teed to the log.                  *)
Logged ==
    IF child.pipe = "none" THEN log
    ELSE [model |-> log.model \/ child.pipe = "banner",
          output |-> log.output \/ child.pipe # "banner",
          script |-> child.pipe = "script",
          size |-> log.size + 1, at |-> now]

(* `while proc.poll() is None`, and then the deadline.                      *)
Poll ==
    /\ main = "loop"
    /\ main' = IF child.is = "running" THEN "look" ELSE "drain"
    /\ UNCHANGED <<job, now, child, log, handle, dog, flag, result, verdict, record, holds, streak>>

Look ==
    /\ main = "look"
    /\ IF now >= Deadline
       THEN main' = "cut" /\ UNCHANGED <<child, log>>
       ELSE /\ main' = "loop"
            /\ log' = Logged /\ child' = [child EXCEPT !.pipe = "none"]
    /\ UNCHANGED <<job, now, handle, dog, flag, result, verdict, record, holds, streak>>

(* Timed out: what is unread stays unread.                                  *)
Cut ==
    /\ main = "cut"
    /\ TerminateProcess
    /\ result' = "timed_out" /\ main' = "stop"
    /\ UNCHANGED <<job, now, log, dog, flag, verdict, record, holds, streak>>

Drain ==
    /\ main = "drain"
    /\ log' = Logged /\ child' = [child EXCEPT !.pipe = "none"]
    /\ handle' = FALSE
    /\ result' = child.is /\ main' = "stop"
    /\ UNCHANGED <<job, now, dog, flag, verdict, record, holds, streak>>

(* SIGTERM before and inside Terminal.run: its handler stops the child and  *)
(* calls the dispatch's own, which marks the hand-over and exits through    *)
(* the finally.                                                             *)
Signal ==
    /\ main \in {"spawn", "loop", "look", "cut", "drain"}
    /\ TerminateProcess
    /\ flag' = [flag EXCEPT !.external = TRUE, !.raised = TRUE]
    /\ main' = "stop"
    /\ UNCHANGED <<job, now, log, dog, result, verdict, record, holds, streak>>

(* SIGTERM inside the finally leaves the rest of it undone.                 *)
SignalLate ==
    /\ main \in {"stop", "join", "finish", "settle", "leave", "answer", "release"}
    /\ flag' = [flag EXCEPT !.external = TRUE, !.late = TRUE]
    /\ dog' = [dog EXCEPT !.at = "off"]
    /\ main' = "exited"
    /\ UNCHANGED <<job, now, child, log, handle, result, verdict, record, holds, streak>>

-----------------------------------------------------------------------------
(* The watchdog's thread.                                                   *)

Scale == IF log.script THEN Multiplier ELSE 1

(* What the log shows as the watchdog makes up its mind.                    *)
Shown == IF log.output THEN "answered" ELSE "silent"

(* One look at the log file's size and time, and the stall clock.           *)
(* Mutant: new output does not end a stall.                                 *)
ChangedStillStalled == [dog EXCEPT !.seen = log.size, !.changed = now, !.polled = now, !.at = "check"]
Changed == [dog EXCEPT !.seen = log.size, !.changed = now, !.polled = now, !.at = "check",
                       !.state = "healthy",
                       !.health = IF dog.state = "stalled" THEN "healthy" ELSE @]
Unchanged ==
    CASE dog.state = "healthy" /\ now - dog.changed >= Stall * Scale ->
           [dog EXCEPT !.state = "stalled", !.since = now, !.health = "stalled",
                       !.polled = now, !.at = "check"]
      [] dog.state = "stalled" /\ now - dog.since >= KillAfter * Scale ->
           [dog EXCEPT !.at = "stalled", !.judged = Shown]
      [] OTHER -> [dog EXCEPT !.polled = now, !.at = "check"]

DogPoll ==
    /\ dog.at = "wait" /\ ~flag.stop
    /\ dog' = IF log.size # dog.seen THEN Changed ELSE Unchanged
    /\ UNCHANGED <<job, now, child, log, handle, main, flag, result, verdict, record, holds, streak>>

(* check_output: what it has seen of the log only ever grows.               *)
CheckOutput == [dog EXCEPT !.model = IF dog.output THEN @ ELSE @ \/ log.model,
                           !.output = @ \/ log.output]

DogCheck ==
    /\ dog.at = "check"
    /\ LET seen == CheckOutput
           deadline == IF seen.model THEN Infra ELSE NoOutput
       IN dog' = IF ~seen.output /\ dog.polled >= deadline
                 THEN [seen EXCEPT !.polled = 0, !.at = "silent", !.judged = Shown]
                 ELSE [seen EXCEPT !.polled = 0, !.at = "wait"]
    /\ UNCHANGED <<job, now, child, log, handle, main, flag, result, verdict, record, holds, streak>>

(* report_unresponsive: health, and one more silence of the server.         *)
Reported(d) == [d EXCEPT !.health = IF d.model THEN "infra_failure" ELSE "unresponsive"]
Silences(d) == IF d.model THEN streak ELSE streak + 1

DogReport ==
    /\ dog.at \in {"silent", "stalled"}
    /\ IF dog.at = "stalled" /\ dog.output
       THEN dog' = [dog EXCEPT !.at = "flag"] /\ UNCHANGED streak
       ELSE dog' = [Reported(dog) EXCEPT !.at = "flag"] /\ streak' = Silences(dog)
    /\ UNCHANGED <<job, now, child, log, handle, main, flag, result, verdict, record, holds>>

(* The callback: first the flag, then the kill.                             *)
DogFlag ==
    /\ dog.at = "flag"
    /\ flag' = [flag EXCEPT !.stalled = TRUE]
    /\ dog' = [dog EXCEPT !.at = "kill"]
    /\ UNCHANGED <<job, now, child, log, handle, main, result, verdict, record, holds, streak>>

DogKill ==
    /\ dog.at = "kill"
    /\ TerminateProcess
    /\ dog' = [dog EXCEPT !.at = "off"]
    /\ UNCHANGED <<job, now, log, main, flag, result, verdict, record, holds, streak>>

-----------------------------------------------------------------------------
(* The finally of a dispatch.                                               *)

(* Watchdog.stop sets the event ...                                         *)
Stop ==
    /\ main = "stop"
    /\ flag' = [flag EXCEPT !.stop = TRUE]
    /\ main' = "join"
    /\ UNCHANGED <<job, now, child, log, handle, dog, result, verdict, record, holds, streak>>

(* ... and joins the thread, for poll_s + 1 s at most.                      *)
Join ==
    /\ main = "join" /\ main' = "finish"
    /\ \/ /\ dog.at \in {"wait", "off"}
          /\ dog' = [dog EXCEPT !.at = "off"] /\ UNCHANGED flag
       \/ /\ SlowReport /\ dog.at \in {"silent", "stalled", "flag", "kill"}
          /\ flag' = [flag EXCEPT !.gaveUp = TRUE] /\ UNCHANGED dog
    /\ UNCHANGED <<job, now, child, log, handle, result, verdict, record, holds, streak>>

Zero == result = "zero"
Is(kind, zero) == [kind |-> kind, zero |-> zero]

(* finish_dispatch, up to the RESULT footer.                                *)
Silent(d) == Is(IF d.model THEN "infra_failure" ELSE "unresponsive", FALSE)
Classify(verdicts, d, count) ==
    verdict' = verdicts /\ dog' = d /\ streak' = count

(* Mutants: the watchdog's last look is not refreshed; a silence that the   *)
(* watchdog has reported is reported again.                                 *)
FinishDispatchStale ==
    /\ main = "finish" /\ job.kind # "read" /\ main' = "settle"
    /\ CASE result = "timed_out" -> Classify(Is("timeout", FALSE), dog, streak)
         [] result # "timed_out" /\ flag.stalled ->
              Classify(IF dog.output THEN Is("stalled", Zero) ELSE Silent(dog), dog, streak)
         [] OTHER ->
              IF ~Zero THEN Classify(Is("crashed", FALSE), dog, streak)
              ELSE IF Guarded /\ ~dog.output
                   THEN Classify(Silent(dog), Reported(dog), Silences(dog))
                   ELSE Classify(Is("ok", TRUE), dog, streak)
    /\ UNCHANGED <<job, now, child, log, handle, flag, result, record, holds>>
FinishDispatchTwice ==
    /\ main = "finish" /\ job.kind # "read" /\ main' = "settle"
    /\ CASE result = "timed_out" -> Classify(Is("timeout", FALSE), dog, streak)
         [] result # "timed_out" /\ flag.stalled ->
              IF dog.output THEN Classify(Is("stalled", Zero), dog, streak)
              ELSE Classify(Silent(dog), Reported(dog), Silences(dog))
         [] OTHER ->
              IF ~Zero THEN Classify(Is("crashed", FALSE), dog, streak)
              ELSE IF Guarded /\ ~CheckOutput.output
                   THEN Classify(Silent(CheckOutput), Reported(CheckOutput), Silences(CheckOutput))
                   ELSE Classify(Is("ok", TRUE), CheckOutput, streak)
    /\ UNCHANGED <<job, now, child, log, handle, flag, result, record, holds>>
FinishDispatch ==
    /\ main = "finish" /\ job.kind # "read" /\ main' = "settle"
    /\ CASE result = "timed_out" -> Classify(Is("timeout", FALSE), dog, streak)
         [] result # "timed_out" /\ flag.stalled ->
              Classify(IF dog.output THEN Is("stalled", Zero) ELSE Silent(dog), dog, streak)
         [] OTHER ->
              IF ~Zero THEN Classify(Is("crashed", FALSE), dog, streak)
              ELSE IF Guarded /\ ~CheckOutput.output
                   THEN Classify(Silent(CheckOutput), Reported(CheckOutput), Silences(CheckOutput))
                   ELSE Classify(Is("ok", TRUE), IF Guarded THEN CheckOutput ELSE dog, streak)
    /\ UNCHANGED <<job, now, child, log, handle, flag, result, record, holds>>

(* Mutant: the child's own status stands for the verdict.                   *)
FinishReadRaw ==
    /\ main = "finish" /\ job.kind = "read" /\ main' = "settle"
    /\ verdict' = Is(result, Zero)
    /\ UNCHANGED <<job, now, child, log, handle, dog, flag, result, record, holds, streak>>
FinishRead ==
    /\ main = "finish" /\ job.kind = "read" /\ main' = "settle"
    /\ verdict' = CASE result = "timed_out" -> Is("timeout", FALSE)
                    [] Zero -> Is("ok", TRUE)
                    [] OTHER -> Is("failed", FALSE)
    /\ UNCHANGED <<job, now, child, log, handle, dog, flag, result, record, holds, streak>>

(* complete_sentinel: nothing if the sender of SIGTERM completes it.        *)
(* Mutant: it is completed all the same.                                    *)
SettleAnyway ==
    /\ main = "settle" /\ main' = "leave"
    /\ record' = verdict /\ holds' = holds \ {"sentinel"}
    /\ UNCHANGED <<job, now, child, log, handle, dog, flag, result, verdict, streak>>
Settle ==
    /\ main = "settle" /\ main' = "leave"
    /\ IF flag.external THEN UNCHANGED <<record, holds>>
       ELSE record' = verdict /\ holds' = holds \ {"sentinel"}
    /\ UNCHANGED <<job, now, child, log, handle, dog, flag, result, verdict, streak>>

Leave(kind, returned, next) ==
    /\ main = "leave" /\ job.kind = kind /\ main' = next
    /\ holds' = holds \ returned
    /\ dog' = IF next = "exited" THEN [dog EXCEPT !.at = "off"] ELSE dog
    /\ UNCHANGED <<job, now, child, log, handle, flag, result, verdict, record, streak>>

LeaveMsg == Leave("msg", {}, "answer")
LeaveTask == Leave("task", {"entry", "file"}, "answer")
LeaveAgent == Leave("agent", {"file"}, "answer")
LeaveRead == Leave("read", {}, "release")

(* exec gives its server back after the finally, which an exception and the *)
(* exit of the SIGTERM handler do not reach.                                *)
LeaveExec == Leave("exec", {"entry"}, IF flag.raised THEN "exited" ELSE "answer")

(* record_responsive, unless the watchdog has killed the run.               *)
Answer ==
    /\ main = "answer" /\ main' = "release"
    /\ streak' = IF flag.stalled THEN streak ELSE 0
    /\ UNCHANGED <<job, now, child, log, handle, dog, flag, result, verdict, record, holds>>

(* Mutant: the server of a run the watchdog has killed is not given back.   *)
ReleaseUnlessKilled ==
    /\ main = "release" /\ main' = "exited"
    /\ holds' = IF flag.stalled THEN holds ELSE holds \ {"server"}
    /\ dog' = [dog EXCEPT !.at = "off"]
    /\ UNCHANGED <<job, now, child, log, handle, flag, result, verdict, record, streak>>
Release ==
    /\ main = "release" /\ main' = "exited"
    /\ holds' = holds \ {"server"}
    /\ dog' = [dog EXCEPT !.at = "off"]
    /\ UNCHANGED <<job, now, child, log, handle, flag, result, verdict, record, streak>>

-----------------------------------------------------------------------------
MainStep ==
    \/ BeginMsg \/ BeginTask \/ BeginExec \/ BeginAgent \/ BeginRead \/ Spawn
    \/ Poll \/ Look \/ Cut \/ Drain
    \/ Stop \/ Join \/ FinishDispatch \/ FinishRead \/ Settle
    \/ LeaveMsg \/ LeaveTask \/ LeaveExec \/ LeaveAgent \/ LeaveRead
    \/ Answer \/ Release
DogStep == DogPoll \/ DogCheck \/ DogReport \/ DogFlag \/ DogKill
ChildStep == Ends \/ \E c \in Chunks : Says(c)

Next == MainStep \/ DogStep \/ ChildStep \/ Signal \/ SignalLate \/ Tick

Spec == Init /\ [][Next]_vars

(* Both threads are scheduled and time passes; nothing is asked of the      *)
(* child, which may be silent or hang for ever.                             *)
FairSpec == Spec /\ WF_vars(MainStep) /\ WF_vars(DogStep) /\ WF_vars(Tick)

-----------------------------------------------------------------------------
Stages == {"begin", "spawn", "loop", "look", "cut", "drain", "stop", "join",
           "finish", "settle", "leave", "answer", "release", "exited"}
Resources == {"server", "sentinel", "entry", "file"}
Children == [is : {"none", "running", "zero", "nonzero", "killed"},
             pipe : Chunks \union {"none"}, spoke : 0 .. MaxChunks]
Logs == [model : BOOLEAN, output : BOOLEAN, script : BOOLEAN, size : Nat, at : 0 .. Horizon]
Dogs == [at : {"off", "wait", "check", "silent", "stalled", "flag", "kill"},
         state : {"healthy", "stalled"}, seen : Nat, changed : 0 .. Horizon,
         since : 0 .. Horizon, polled : 0 .. Horizon, output : BOOLEAN, model : BOOLEAN,
         health : {"healthy", "stalled", "unresponsive", "infra_failure"},
         judged : {"no", "silent", "answered"}]
Flags == [stalled : BOOLEAN, external : BOOLEAN, stop : BOOLEAN,
          gaveUp : BOOLEAN, raised : BOOLEAN, late : BOOLEAN]

(* Every variable has its type, and the clocks of the watchdog never run    *)
(* ahead of the time.                                                       *)
TypeOK ==
    /\ job \in [kind : Kinds, watched : Watched]
    /\ now \in 0 .. Horizon
    /\ child \in Children
    /\ log \in Logs
    /\ handle \in BOOLEAN
    /\ main \in Stages
    /\ dog \in Dogs
    /\ flag \in Flags
    /\ result \in {"none", "timed_out", "zero", "nonzero", "killed"}
    /\ verdict \in Verdicts \union {NoVerdict}
    /\ record \in Verdicts \union {NoVerdict}
    /\ holds \subseteq Resources
    /\ streak \in 0 .. 2

(* A late answer counts.  However stale the watchdog's last look at the log *)
(* is when the verdict is made (work.py:257), a dispatch is recorded as     *)
(* unresponsive or as an infrastructure failure only if its log shows no    *)
(* answer, or showed none when the watchdog decided to kill it; one that    *)
(* ended with success and an answer is recorded with rc 0 unless it was     *)
(* killed so; and only the deadline makes a timeout.                        *)
KilledSilent == flag.stalled /\ dog.judged = "silent"
AnswerStands ==
    (record # NoVerdict /\ Guarded) =>
        /\ record.kind = "timeout" <=> result = "timed_out"
        /\ record.kind \in {"unresponsive", "infra_failure"} => ~log.output \/ KilledSilent
        /\ result = "zero" /\ log.output => record.zero \/ KilledSilent

(* The watchdog's thread and the verdict may both count a silence against   *)
(* the server.  They both do only if the main thread gave up waiting for    *)
(* the thread before it had raised its flag, of a child that ended with     *)
(* success and said nothing; and what was counted is not taken back once    *)
(* the flag is up.                                                          *)
SilenceCountedOnce ==
    [][/\ streak' > streak /\ streak > 0 =>
             flag.gaveUp /\ ~flag.stalled /\ result = "zero" /\ ~log.output
       /\ streak' < streak => ~flag.stalled]_vars

(* What a dispatch leaves behind when its process ends, whichever way.  No  *)
(* child runs.  The sentinel stays only for the sender of a SIGTERM, who    *)
(* completes it.  The entry and the task file stay only after a refused     *)
(* input or a SIGTERM inside the finally.  The server stays only after      *)
(* these, or after an exec that an exception or a SIGTERM has left          *)
(* (exec.py:160): LeaksAreHealed gets it back.                              *)
Refused == result = "none" /\ ~flag.raised
NothingLeftBehind ==
    main = "exited" =>
        /\ child.is # "running"
        /\ "sentinel" \in holds => flag.external
        /\ {"entry", "file"} \intersect holds # {} => Refused \/ flag.late
        /\ "server" \in holds => Refused \/ flag.late \/ (job.kind = "exec" /\ flag.raised)

(* The watchdog stops a run as stalled only when nothing was logged for the *)
(* stall time and the kill time together, twice as long under a script.     *)
KillsOnlyTheSilent ==
    [][dog.at = "wait" /\ dog'.at = "stalled" => now - log.at >= (Stall + KillAfter) * Scale]_vars

(* "Reset a server's unresponsive counter after a dispatch that actually    *)
(* produced output." (pool.py:395-398)                                      *)
ResetNeedsOutput == [][streak' < streak => log.output]_vars

(* Every dispatch ends, whatever its child does.                            *)
Settles == <>(main = "exited")

-----------------------------------------------------------------------------
Phase ==
    CASE main = "exited" -> "over"
      [] main \in {"leave", "answer", "release"} -> "settled"
      [] OTHER -> "running"

Promise == INSTANCE DispatchPromise
           WITH phase <- Phase, aborted <- flag.external, held <- "server" \in holds

(* The races of the threads keep the promise of DispatchPromise.            *)
KeepsPromise == Promise!Spec
=============================================================================
