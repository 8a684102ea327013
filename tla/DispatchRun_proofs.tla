------------------------- MODULE DispatchRun_proofs -------------------------
(* One dispatch, for all kinds, times and amounts of output: its verdict is *)
(* what its log shows, its silence is counted once, what it has acquired it *)
(* gives back, and its threads together keep DispatchPromise.               *)
EXTENDS DispatchRun, TLAPS

(* Where the dispatch has its verdict, where the watchdog was joined, and   *)
(* where the watchdog is at work.                                           *)
Judged == {"settle", "leave", "answer", "release"}
Joined == {"finish"} \union Judged
Working == {"silent", "stalled", "flag", "kill"}

(* How often it has reported its server silent: before the verdict the      *)
(* watchdog alone has, when it is past reporting; the verdict adds at most  *)
(* one.  A thread at work past the join is one that was given up.           *)
Counts ==
    /\ main \in {"begin", "spawn"} => streak = 0 /\ dog.at = "off"
    /\ main \notin Judged \union {"exited"} =>
          /\ streak <= 1
          /\ dog.at \in {"wait", "check", "silent", "stalled"} => streak = 0
    /\ dog.at \in {"silent", "stalled"} => streak <= 1
    /\ main \in Joined => dog.at \in Working \union {"off"}
    /\ main = "exited" => dog.at = "off"

(* A child runs only while the main thread reads it, with its handle set.   *)
Ended == child.is = "running" => main \in {"loop", "look", "cut"} /\ handle

(* The watchdog has seen every answer that was in the log when it judged    *)
(* the run: while it waits, one it has not seen makes the log longer than   *)
(* it was at its last look.                                                 *)
Looked ==
    /\ main \in {"begin", "spawn"} => ~log.output
    /\ dog.at \in Working \/ flag.stalled =>
          dog.judged # "no" /\ (dog.judged = "answered" => dog.output)
    /\ dog.at = "wait" /\ log.output => dog.output \/ dog.seen < log.size

(* There is a verdict from the end of the run on, which is what the log     *)
(* shows, or showed the watchdog, and what is recorded.                     *)
After == Judged \union {"exited"}
Sound(v) ==
    /\ v.kind = "timeout" <=> result = "timed_out"
    /\ v.kind \in {"unresponsive", "infra_failure"} => ~log.output \/ KilledSilent
    /\ result = "zero" /\ log.output => v.zero \/ KilledSilent
VerdictsSound ==
    /\ main \notin After => verdict = NoVerdict /\ record = NoVerdict
    /\ main \in Judged => verdict # NoVerdict
    /\ record # NoVerdict => record = verdict
    /\ verdict # NoVerdict /\ Guarded => Sound(verdict)

(* What the watchdog has reported is what the streak says, once it has, and *)
(* nothing before.                                                          *)
Tally == IF dog.health = "unresponsive" THEN 1 ELSE 0
Silenced ==
    /\ main \notin After /\ dog.at # "flag" /\ ~flag.stalled =>
          streak = 0 /\ dog.health # "unresponsive"
    /\ main \notin After /\ (dog.at = "flag" \/ flag.stalled) => streak = Tally
    /\ dog.at = "kill" => flag.stalled
    /\ flag.stalled => dog.at \in {"kill", "off"}
    /\ main \in {"begin", "spawn"} => dog.at = "off" /\ ~flag.stalled
    /\ main \in Joined /\ ~flag.gaveUp => dog.at = "off"
    /\ main \in Judged /\ dog.at \in {"silent", "stalled"} /\ streak > 0 =>
          result = "zero" /\ ~log.output

(* What the dispatch still holds, by its kind and place.                    *)
Holding ==
    /\ "entry" \in holds => job.kind \in {"task", "exec"}
    /\ "file" \in holds => job.kind \in {"task", "agent"}
    /\ main \in {"answer", "release"} => "entry" \notin holds /\ "file" \notin holds
    /\ main \in {"leave", "answer", "release"} => ("sentinel" \in holds => flag.external)
    /\ main = "begin" => holds = {"server"} /\ Refused
    /\ main # "exited" => "server" \in holds
    /\ NothingLeftBehind

(* While the log is as the watchdog has seen it, the last output is older   *)
(* than its clocks.                                                         *)
Clocks ==
    /\ dog.seen <= log.size /\ log.size >= 1
    /\ log.at <= now /\ dog.changed <= now /\ dog.since <= now
    /\ dog.seen = log.size =>
          /\ log.at <= dog.changed
          /\ dog.state = "stalled" => dog.since - dog.changed >= Stall * Scale

-----------------------------------------------------------------------------
LEMMA Horizons == Horizon \in Nat /\ MaxChunks \in Nat
BY TimesAssumption

LEMMA Starts == Init => TypeOK /\ Counts /\ Ended
<1>. SUFFICES ASSUME Init PROVE TypeOK /\ Counts /\ Ended
  OBVIOUS
<1>1. now \in 0 .. Horizon /\ 0 \in 0 .. Horizon /\ 0 \in 0 .. MaxChunks
  BY Horizons DEF Init
<1>2. child \in Children
  BY <1>1 DEF Init, Children
<1>3. log \in Logs
  BY <1>1 DEF Init, Logs
<1>4. dog \in Dogs
  BY <1>1 DEF Init, Dogs
<1>5. flag \in Flags
  BY DEF Init, Flags
<1>6. job \in [kind : Kinds, watched : Watched] /\ Watched \subseteq BOOLEAN
  BY KindsAssumption DEF Init
<1>7. job \in [kind : Kinds, watched : Watched]
  BY <1>6
<1>8. /\ handle = FALSE /\ main = "begin" /\ result = "none"
      /\ verdict = NoVerdict /\ record = NoVerdict
      /\ holds = {"server"} /\ streak = 0
  BY DEF Init
<1>9. TypeOK
  <2>1. main \in Stages /\ holds \subseteq Resources
    BY <1>8 DEF Stages, Resources
  <2>2. handle \in BOOLEAN
    BY <1>8, Zenon
  <2>6. streak \in 0 .. 2
    BY <1>8
  <2>3. result \in {"none", "timed_out", "zero", "nonzero", "killed"}
    BY <1>8
  <2>4. verdict \in Verdicts \union {NoVerdict} /\ record \in Verdicts \union {NoVerdict}
    BY <1>8
  <2>. QED
    BY <1>1, <1>2, <1>3, <1>4, <1>5, <1>7, <2>1, <2>2, <2>3, <2>4, <2>6, Zenon DEF
       TypeOK
<1>10. Counts /\ Ended
  BY DEF Init, Counts, Ended, Judged, Joined
<1>. QED  BY <1>9, <1>10

(* What the threads see and say has its type.                               *)
LEMMA LoggedTyped == TypeOK => Logged \in Logs
<1>. SUFFICES ASSUME TypeOK PROVE Logged \in Logs
  OBVIOUS
<1>1. log \in Logs /\ child \in Children /\ now \in 0 .. Horizon
  BY DEF TypeOK
<1>2. log.size + 1 \in Nat
  BY <1>1 DEF Logs
<1>3. log.model \in BOOLEAN /\ log.output \in BOOLEAN
  BY <1>1 DEF Logs
<1>4. [model |-> log.model \/ child.pipe = "banner",
       output |-> log.output \/ child.pipe # "banner",
       script |-> child.pipe = "script",
       size |-> log.size + 1, at |-> now] \in Logs
  BY <1>1, <1>2, <1>3 DEF Logs
<1>. QED  BY <1>1, <1>4 DEF Logged

LEMMA ReportedTyped == ASSUME NEW d \in Dogs PROVE Reported(d) \in Dogs
BY DEF Reported, Dogs

LEMMA CheckOutputTyped ==
    ASSUME TypeOK
    PROVE  /\ CheckOutput \in Dogs
           /\ CheckOutput.at = dog.at /\ CheckOutput.health = dog.health
           /\ CheckOutput.output = (dog.output \/ log.output)
           /\ CheckOutput.seen = dog.seen /\ CheckOutput.changed = dog.changed
           /\ CheckOutput.since = dog.since /\ CheckOutput.state = dog.state
<1>1. dog \in Dogs /\ log \in Logs
  BY DEF TypeOK
<1>2. /\ dog.output \in BOOLEAN /\ log.output \in BOOLEAN
      /\ dog.model \in BOOLEAN /\ log.model \in BOOLEAN
  BY <1>1 DEF Dogs, Logs
<1>3. (IF dog.output THEN dog.model ELSE dog.model \/ log.model) \in BOOLEAN
  BY <1>2
<1>4. (dog.output \/ log.output) \in BOOLEAN
  BY <1>2
<1>. QED  BY <1>1, <1>3, <1>4 DEF CheckOutput, Dogs

LEMMA PolledTyped == TypeOK => Changed \in Dogs /\ Unchanged \in Dogs
<1>. SUFFICES ASSUME TypeOK PROVE Changed \in Dogs /\ Unchanged \in Dogs
  OBVIOUS
<1>1. dog \in Dogs /\ log.size \in Nat /\ now \in 0 .. Horizon
  BY DEF TypeOK, Logs
<1>2. Changed \in Dogs
  BY <1>1 DEF Changed, Dogs
<1>3. /\ [dog EXCEPT !.state = "stalled", !.since = now, !.health = "stalled",
                     !.polled = now, !.at = "check"] \in Dogs
      /\ [dog EXCEPT !.at = "stalled", !.judged = Shown] \in Dogs
      /\ [dog EXCEPT !.polled = now, !.at = "check"] \in Dogs
  BY <1>1 DEF Dogs, Shown
<1>. QED  BY <1>2, <1>3 DEF Unchanged

LEMMA VerdictsTyped ==
    /\ \A d : Silent(d) \in Verdicts
    /\ \A k \in {"ok", "timeout", "stalled", "crashed", "failed"} :
          Is(k, Zero) \in Verdicts /\ Is(k, TRUE) \in Verdicts /\ Is(k, FALSE) \in Verdicts
    /\ NoVerdict \notin Verdicts
BY DEF Silent, Is, Verdicts, Zero, NoVerdict

(* Every step keeps the types.                                              *)
LEMMA TypesKept ==
    ASSUME TypeOK, Counts, Ended, [Next]_vars
    PROVE  TypeOK'
<1>1. CASE BeginMsg
  BY <1>1, Horizons DEF BeginMsg, Begin, TypeOK, Stages, Resources
<1>2. CASE BeginTask
  BY <1>2, Horizons DEF BeginTask, Begin, TypeOK, Stages, Resources
<1>3. CASE BeginExec
  BY <1>3, Horizons DEF BeginExec, Begin, TypeOK, Stages, Resources
<1>4. CASE BeginAgent
  BY <1>4, Horizons DEF BeginAgent, Begin, TypeOK, Stages, Resources
<1>5. CASE BeginRead
  BY <1>5, Horizons DEF BeginRead, Begin, TypeOK, Stages, Resources
<1>6. CASE Spawn
  <2>1. child' \in Children
    BY <1>6, Horizons DEF Spawn, TypeOK, Children, Chunks
  <2>2. dog' \in Dogs
    BY <1>6, Horizons DEF Spawn, TypeOK, Dogs
  <2>3. flag' \in Flags
    BY <1>6, Horizons DEF Spawn, TypeOK, Flags
  <2>. QED  BY <1>6, <2>1, <2>2, <2>3 DEF Spawn, TypeOK, Stages, Resources
<1>7. CASE Poll
  BY <1>7, Horizons DEF Poll, TypeOK, Stages, Resources
<1>8. CASE Look
  <2>1. child' \in Children
    BY <1>8, Horizons DEF Look, Logged, Deadline, AgentGrace, TypeOK, Children, Chunks
  <2>2. log' \in Logs
    BY <1>8, LoggedTyped DEF Look, TypeOK
  <2>. QED  BY <1>8, <2>1, <2>2 DEF Look, TypeOK, Stages, Resources
<1>9. CASE Cut
  <2>1. child' \in Children
    BY <1>9, Horizons DEF Cut, TerminateProcess, TypeOK, Children, Chunks
  <2>. QED  BY <1>9, <2>1 DEF Cut, TerminateProcess, TypeOK, Stages, Resources
<1>10. CASE Drain
  <2>1. child' \in Children
    BY <1>10, Horizons DEF Drain, Logged, TypeOK, Children, Chunks
  <2>2. log' \in Logs
    BY <1>10, LoggedTyped DEF Drain, TypeOK
  <2>. QED  BY <1>10, <2>1, <2>2 DEF Drain, TypeOK, Stages, Resources, Children, Ended
<1>11. CASE Stop
  <2>1. flag' \in Flags
    BY <1>11, Horizons DEF Stop, TypeOK, Flags
  <2>. QED  BY <1>11, <2>1 DEF Stop, TypeOK, Stages, Resources
<1>12. CASE Join
  <2>1. dog' \in Dogs
    BY <1>12, Horizons DEF Join, TypeOK, Dogs
  <2>2. flag' \in Flags
    BY <1>12, Horizons DEF Join, TypeOK, Flags
  <2>. QED  BY <1>12, <2>1, <2>2 DEF Join, TypeOK, Stages, Resources
<1>13. CASE FinishDispatch
  <2>1. dog' \in Dogs
    BY <1>13, CheckOutputTyped, ReportedTyped DEF FinishDispatch, Classify, TypeOK
  <2>2. verdict' \in Verdicts
    BY <1>13, VerdictsTyped DEF FinishDispatch, Classify
  <2>. QED
    BY <1>13, <2>1, <2>2 DEF FinishDispatch, Classify, Silent, Is, Zero, CheckOutput,
       Reported, Silences, Guarded, TypeOK, Stages, Resources, Counts, Judged
<1>14. CASE FinishRead
  <2>1. verdict' \in Verdicts
    BY <1>14, VerdictsTyped DEF FinishRead
  <2>. QED  BY <1>14, <2>1 DEF FinishRead, Is, Zero, TypeOK, Stages, Resources
<1>15. CASE Settle
  BY <1>15, Horizons DEF Settle, TypeOK, Stages, Resources
<1>16. CASE LeaveMsg
  <2>1. dog' \in Dogs
    BY <1>16, Horizons DEF LeaveMsg, Leave, TypeOK, Dogs
  <2>. QED  BY <1>16, <2>1 DEF LeaveMsg, Leave, TypeOK, Stages, Resources
<1>17. CASE LeaveTask
  <2>1. dog' \in Dogs
    BY <1>17, Horizons DEF LeaveTask, Leave, TypeOK, Dogs
  <2>. QED  BY <1>17, <2>1 DEF LeaveTask, Leave, TypeOK, Stages, Resources
<1>18. CASE LeaveExec
  <2>1. dog' \in Dogs
    BY <1>18, Horizons DEF LeaveExec, Leave, TypeOK, Dogs
  <2>. QED  BY <1>18, <2>1 DEF LeaveExec, Leave, TypeOK, Stages, Resources
<1>19. CASE LeaveAgent
  <2>1. dog' \in Dogs
    BY <1>19, Horizons DEF LeaveAgent, Leave, TypeOK, Dogs
  <2>. QED  BY <1>19, <2>1 DEF LeaveAgent, Leave, TypeOK, Stages, Resources
<1>20. CASE LeaveRead
  <2>1. dog' \in Dogs
    BY <1>20, Horizons DEF LeaveRead, Leave, TypeOK, Dogs
  <2>. QED  BY <1>20, <2>1 DEF LeaveRead, Leave, TypeOK, Stages, Resources
<1>21. CASE Answer
  BY <1>21, Horizons DEF Answer, TypeOK, Stages, Resources
<1>22. CASE Release
  <2>1. dog' \in Dogs
    BY <1>22, Horizons DEF Release, TypeOK, Dogs
  <2>. QED  BY <1>22, <2>1 DEF Release, TypeOK, Stages, Resources
<1>23. CASE DogPoll
  <2>1. dog' \in Dogs
    BY <1>23, PolledTyped DEF DogPoll
  <2>. QED  BY <1>23, <2>1 DEF DogPoll, Changed, Unchanged, TypeOK, Stages, Resources
<1>24. CASE DogCheck
  <2>1. dog' \in Dogs
    <3>1. CheckOutput \in Dogs /\ 0 \in 0 .. Horizon
      BY CheckOutputTyped, Horizons
    <3>2. /\ [CheckOutput EXCEPT !.polled = 0, !.at = "silent"] \in Dogs
          /\ [CheckOutput EXCEPT !.polled = 0, !.at = "wait"] \in Dogs
          /\ [CheckOutput EXCEPT !.polled = 0, !.at = "silent", !.judged = Shown] \in Dogs
      BY <3>1 DEF Dogs, Shown
    <3>. QED  BY <1>24, <3>2 DEF DogCheck
  <2>. QED  BY <1>24, <2>1 DEF DogCheck, CheckOutput, TypeOK, Stages, Resources
<1>25. CASE DogReport
  <2>1. dog' \in Dogs
    BY <1>25, ReportedTyped DEF DogReport, TypeOK, Dogs
  <2>. QED
    BY <1>25, <2>1 DEF DogReport, Reported, Silences, TypeOK, Stages, Resources, Counts,
       Judged
<1>26. CASE DogFlag
  <2>1. dog' \in Dogs
    BY <1>26, Horizons DEF DogFlag, TypeOK, Dogs
  <2>2. flag' \in Flags
    BY <1>26, Horizons DEF DogFlag, TypeOK, Flags
  <2>. QED  BY <1>26, <2>1, <2>2 DEF DogFlag, TypeOK, Stages, Resources
<1>27. CASE DogKill
  <2>1. child' \in Children
    BY <1>27, Horizons DEF DogKill, TerminateProcess, TypeOK, Children, Chunks
  <2>2. dog' \in Dogs
    BY <1>27, Horizons DEF DogKill, TerminateProcess, TypeOK, Dogs
  <2>. QED  BY <1>27, <2>1, <2>2 DEF DogKill, TerminateProcess, TypeOK, Stages, Resources
<1>28. CASE Ends
  <2>1. child' \in Children
    BY <1>28, Horizons DEF Ends, TypeOK, Children, Chunks
  <2>. QED  BY <1>28, <2>1 DEF Ends, TypeOK, Stages, Resources
<1>29. CASE \E c \in Chunks : Says(c)
  <2>1. child' \in Children
    <3>1. PICK c \in Chunks : Says(c)
      BY <1>29
    <3>2. child \in Children /\ child.spoke + 1 \in 0 .. MaxChunks
      BY <3>1, Horizons DEF Says, TypeOK, Children
    <3>. QED  BY <3>1, <3>2 DEF Says, Children
  <2>. QED  BY <1>29, <2>1 DEF Says, TypeOK, Stages, Resources
<1>30. CASE Signal
  <2>1. child' \in Children
    BY <1>30, Horizons DEF Signal, TerminateProcess, TypeOK, Children, Chunks
  <2>2. flag' \in Flags
    BY <1>30, Horizons DEF Signal, TerminateProcess, TypeOK, Flags
  <2>. QED  BY <1>30, <2>1, <2>2 DEF Signal, TerminateProcess, TypeOK, Stages, Resources
<1>31. CASE SignalLate
  <2>1. flag' \in Flags
    BY <1>31, Horizons DEF SignalLate, TypeOK, Flags
  <2>2. dog' \in Dogs
    BY <1>31, Horizons DEF SignalLate, TypeOK, Dogs
  <2>. QED  BY <1>31, <2>1, <2>2 DEF SignalLate, TypeOK, Stages, Resources
<1>32. CASE Tick
  BY <1>32, Horizons DEF Tick, TypeOK, Stages, Resources
<1>33. CASE UNCHANGED vars
  BY <1>33, Horizons DEF vars, TypeOK, Stages, Resources
<1>. QED
  BY <1>1, <1>2, <1>3, <1>4, <1>5, <1>6, <1>7, <1>8, <1>9, <1>10, <1>11, <1>12, <1>13,
     <1>14, <1>15, <1>16, <1>17, <1>18, <1>19, <1>20, <1>21, <1>22, <1>23, <1>24, <1>25,
     <1>26, <1>27, <1>28, <1>29, <1>30, <1>31, <1>32, <1>33
  DEF Next, MainStep, DogStep, ChildStep

(* Every step keeps the count of reports, and the child ended.              *)
LEMMA CountsKept ==
    ASSUME TypeOK, Counts, Ended, [Next]_vars
    PROVE  Counts' /\ Ended'
<1>1. CASE BeginMsg
  BY <1>1 DEF BeginMsg, Begin, TypeOK, Counts, Ended, Judged, Joined, Working, Dogs
<1>2. CASE BeginTask
  BY <1>2 DEF BeginTask, Begin, TypeOK, Counts, Ended, Judged, Joined, Working, Dogs
<1>3. CASE BeginExec
  BY <1>3 DEF BeginExec, Begin, TypeOK, Counts, Ended, Judged, Joined, Working, Dogs
<1>4. CASE BeginAgent
  BY <1>4 DEF BeginAgent, Begin, TypeOK, Counts, Ended, Judged, Joined, Working, Dogs
<1>5. CASE BeginRead
  BY <1>5 DEF BeginRead, Begin, TypeOK, Counts, Ended, Judged, Joined, Working, Dogs
<1>6. CASE Spawn
  BY <1>6 DEF Spawn, TypeOK, Counts, Ended, Judged, Joined, Working, Dogs
<1>7. CASE Poll
  BY <1>7 DEF Poll, TypeOK, Counts, Ended, Judged, Joined, Working, Dogs
<1>8. CASE Look
  <2>1. Counts'
    BY <1>8 DEF Look, Counts, Judged, Joined, Working
  <2>2. main = "look" /\ main' \in {"loop", "cut"} /\ handle' = handle /\ child'.is = child.is
    BY <1>8 DEF Look, TypeOK, Children
  <2>. QED  BY <2>1, <2>2 DEF Ended
<1>9. CASE Cut
  BY <1>9 DEF Cut, TerminateProcess, TypeOK, Counts, Ended, Judged, Joined, Working, Dogs
<1>10. CASE Drain
  BY <1>10 DEF Drain, Logged, TypeOK, Counts, Ended, Judged, Joined, Working, Dogs
<1>11. CASE Stop
  BY <1>11 DEF Stop, TypeOK, Counts, Ended, Judged, Joined, Working, Dogs
<1>12. CASE Join
  BY <1>12 DEF Join, TypeOK, Counts, Ended, Judged, Joined, Working, Dogs
<1>13. CASE FinishDispatch
  <2>0. child.is # "running" /\ child' = child
    BY <1>13 DEF FinishDispatch, Ended
  <2>1. dog'.at = dog.at /\ streak' \in {streak, streak + 1} /\ main' = "settle"
    BY <1>13, CheckOutputTyped DEF FinishDispatch, Classify, Reported, Silences, TypeOK,
       Dogs
  <2>2. /\ streak \in 0 .. 2 /\ streak <= 1 /\ dog.at \in Working \union {"off"}
        /\ dog.at \in {"silent", "stalled"} => streak = 0
    BY <1>13 DEF TypeOK, FinishDispatch, Counts, Joined, Judged
  <2>. QED  BY <2>0, <2>1, <2>2 DEF Counts, Ended, Judged, Joined, Working
<1>14. CASE FinishRead
  BY <1>14 DEF FinishRead, Is, Zero, TypeOK, Counts, Ended, Judged, Joined, Working, Dogs
<1>15. CASE Settle
  BY <1>15 DEF Settle, TypeOK, Counts, Ended, Judged, Joined, Working, Dogs
<1>16. CASE LeaveMsg
  BY <1>16 DEF LeaveMsg, Leave, TypeOK, Counts, Ended, Judged, Joined, Working, Dogs
<1>17. CASE LeaveTask
  BY <1>17 DEF LeaveTask, Leave, TypeOK, Counts, Ended, Judged, Joined, Working, Dogs
<1>18. CASE LeaveExec
  BY <1>18 DEF LeaveExec, Leave, TypeOK, Counts, Ended, Judged, Joined, Working, Dogs
<1>19. CASE LeaveAgent
  BY <1>19 DEF LeaveAgent, Leave, TypeOK, Counts, Ended, Judged, Joined, Working, Dogs
<1>20. CASE LeaveRead
  BY <1>20 DEF LeaveRead, Leave, TypeOK, Counts, Ended, Judged, Joined, Working, Dogs
<1>21. CASE Answer
  BY <1>21 DEF Answer, TypeOK, Counts, Ended, Judged, Joined, Working, Dogs
<1>22. CASE Release
  BY <1>22 DEF Release, TypeOK, Counts, Ended, Judged, Joined, Working, Dogs
<1>23. CASE DogPoll
  BY <1>23 DEF DogPoll, Changed, Unchanged, TypeOK, Counts, Ended, Judged, Joined,
     Working, Dogs
<1>24. CASE DogCheck
  BY <1>24 DEF DogCheck, CheckOutput, TypeOK, Counts, Ended, Judged, Joined, Working, Dogs
<1>25. CASE DogReport
  <2>1. /\ streak \in 0 .. 2 /\ dog.at \in {"silent", "stalled"}
        /\ dog \in Dogs /\ Reported(dog) \in Dogs
    BY <1>25, ReportedTyped DEF DogReport, TypeOK
  <2>2. dog'.at = "flag"
    BY <1>25, <2>1 DEF DogReport, Dogs
  <2>3. /\ streak' \in {streak, streak + 1}
        /\ UNCHANGED <<main, child, handle>>
    BY <1>25 DEF DogReport, Silences
  <2>4. streak <= 1 /\ (main \notin Judged \union {"exited"} => streak = 0)
    BY <2>1 DEF Counts
  <2>5. main \notin {"begin", "spawn", "exited"}
    BY <2>1 DEF Counts
  <2>. QED  BY <2>1, <2>2, <2>3, <2>4, <2>5 DEF Counts, Ended, Joined, Judged, Working
<1>26. CASE DogFlag
  BY <1>26 DEF DogFlag, TypeOK, Counts, Ended, Judged, Joined, Working, Dogs
<1>27. CASE DogKill
  BY <1>27 DEF DogKill, TerminateProcess, TypeOK, Counts, Ended, Judged, Joined,
     Working, Dogs
<1>28. CASE Ends
  BY <1>28 DEF Ends, TypeOK, Counts, Ended, Judged, Joined, Working, Dogs
<1>29. CASE \E c \in Chunks : Says(c)
  BY <1>29 DEF Says, TypeOK, Counts, Ended, Judged, Joined, Working, Dogs
<1>30. CASE Signal
  BY <1>30 DEF Signal, TerminateProcess, TypeOK, Counts, Ended, Judged, Joined, Working,
     Dogs
<1>31. CASE SignalLate
  BY <1>31 DEF SignalLate, TypeOK, Counts, Ended, Judged, Joined, Working, Dogs
<1>32. CASE Tick
  BY <1>32 DEF Tick, TypeOK, Counts, Ended, Judged, Joined, Working, Dogs
<1>33. CASE UNCHANGED vars
  BY <1>33 DEF vars, TypeOK, Counts, Ended, Judged, Joined, Working, Dogs
<1>. QED
  BY <1>1, <1>2, <1>3, <1>4, <1>5, <1>6, <1>7, <1>8, <1>9, <1>10, <1>11, <1>12, <1>13,
     <1>14, <1>15, <1>16, <1>17, <1>18, <1>19, <1>20, <1>21, <1>22, <1>23, <1>24, <1>25,
     <1>26, <1>27, <1>28, <1>29, <1>30, <1>31, <1>32, <1>33
  DEF Next, MainStep, DogStep, ChildStep

(* The variables keep their types: the clocks do not pass the horizon, and  *)
(* a dispatch reports its server silent twice at most.                      *)
THEOREM TypeCorrect == Spec => []TypeOK
<1>1. Init => TypeOK /\ Counts /\ Ended
  BY Starts
<1>2. TypeOK /\ Counts /\ Ended /\ [Next]_vars => (TypeOK /\ Counts /\ Ended)'
  BY TypesKept, CountsKept
<1>. QED  BY <1>1, <1>2, PTL DEF Spec

(* A verdict is made once, from the log as it is then.                      *)
LEMMA VerdictsKept ==
    ASSUME TypeOK, Counts, Looked, VerdictsSound, [Next]_vars
    PROVE  VerdictsSound'
<1>1. CASE BeginMsg
  BY <1>1 DEF BeginMsg, Begin, VerdictsSound, Sound, KilledSilent, Guarded, After, Judged,
     Flags, TypeOK, Dogs
<1>2. CASE BeginTask
  BY <1>2 DEF BeginTask, Begin, VerdictsSound, Sound, KilledSilent, Guarded, After, Judged,
     Flags, TypeOK, Dogs
<1>3. CASE BeginExec
  BY <1>3 DEF BeginExec, Begin, VerdictsSound, Sound, KilledSilent, Guarded, After, Judged,
     Flags, TypeOK, Dogs
<1>4. CASE BeginAgent
  BY <1>4 DEF BeginAgent, Begin, VerdictsSound, Sound, KilledSilent, Guarded, After, Judged,
     Flags, TypeOK, Dogs
<1>5. CASE BeginRead
  BY <1>5 DEF BeginRead, Begin, VerdictsSound, Sound, KilledSilent, Guarded, After, Judged,
     Flags, TypeOK, Dogs
<1>6. CASE Spawn
  BY <1>6 DEF Spawn, VerdictsSound, Sound, KilledSilent, Guarded, After, Judged, Flags, TypeOK, Dogs
<1>7. CASE Poll
  BY <1>7 DEF Poll, VerdictsSound, Sound, KilledSilent, Guarded, After, Judged, Flags, TypeOK, Dogs
<1>8. CASE Look
  BY <1>8 DEF Look, Logged, Deadline, AgentGrace, VerdictsSound, Sound, KilledSilent, Guarded,
     After, Judged, Flags, TypeOK, Dogs
<1>9. CASE Cut
  BY <1>9 DEF Cut, TerminateProcess, VerdictsSound, Sound, KilledSilent, Guarded, After, Judged,
     Flags, TypeOK, Dogs
<1>10. CASE Drain
  BY <1>10 DEF Drain, Logged, VerdictsSound, Sound, KilledSilent, Guarded, After, Judged, Flags, TypeOK, Dogs
<1>11. CASE Stop
  BY <1>11 DEF Stop, VerdictsSound, Sound, KilledSilent, Guarded, After, Judged, Flags, TypeOK, Dogs
<1>12. CASE Join
  BY <1>12 DEF Join, VerdictsSound, Sound, KilledSilent, Guarded, After, Judged, Flags, TypeOK, Dogs
<1>13. CASE FinishDispatch
  <2>1. verdict' \in Verdicts /\ verdict' # NoVerdict /\ main = "finish" /\ main' = "settle"
    BY <1>13, VerdictsTyped DEF FinishDispatch, Classify
  <2>2. /\ record = NoVerdict /\ record' = record
        /\ UNCHANGED <<log, result, flag, job>>
    BY <1>13 DEF FinishDispatch, VerdictsSound, After, Judged
  <2>3. dog'.judged = dog.judged
    BY <1>13 DEF FinishDispatch, Classify, CheckOutput, Reported, TypeOK, Dogs
  <2>4. ASSUME Guarded PROVE Sound(verdict)'
    <3>1. CASE result = "timed_out"
      <4>1. verdict' = Is("timeout", FALSE)
        BY <1>13, <3>1 DEF FinishDispatch, Classify
      <4>. QED  BY <4>1, <2>2, <3>1 DEF Sound, Is
    <3>2. CASE result # "timed_out" /\ flag.stalled
      <4>1. KilledSilent' = KilledSilent
        BY <2>2, <2>3 DEF KilledSilent
      <4>2. dog.output \/ dog.judged = "silent"
        BY <3>2 DEF Looked, TypeOK, Dogs
      <4>3. CASE dog.output
        <5>1. verdict' = Is("stalled", Zero)
          BY <1>13, <3>2, <4>3 DEF FinishDispatch, Classify
        <5>. QED  BY <5>1, <2>2, <3>2 DEF Sound, Is, Zero
      <4>4. CASE ~dog.output
        <5>1. verdict' = Silent(dog) /\ KilledSilent'
          BY <1>13, <3>2, <4>1, <4>2, <4>4 DEF FinishDispatch, Classify, KilledSilent
        <5>. QED  BY <5>1, <2>2, <3>2 DEF Sound, Is, Silent
      <4>. QED  BY <4>3, <4>4
    <3>3. CASE result # "timed_out" /\ ~flag.stalled /\ ~Zero
      <4>1. verdict' = Is("crashed", FALSE)
        BY <1>13, <3>3 DEF FinishDispatch, Classify
      <4>. QED  BY <4>1, <2>2, <3>3 DEF Sound, Is, Zero
    <3>4. CASE result # "timed_out" /\ ~flag.stalled /\ Zero /\ ~CheckOutput.output
      <4>1. verdict' = Silent(CheckOutput) /\ ~log.output
        BY <1>13, <2>4, <3>4, CheckOutputTyped DEF FinishDispatch, Classify
      <4>. QED  BY <4>1, <2>2, <3>4 DEF Sound, Is, Silent
    <3>5. CASE result # "timed_out" /\ ~flag.stalled /\ Zero /\ CheckOutput.output
      <4>1. verdict' = Is("ok", TRUE)
        BY <1>13, <2>4, <3>5 DEF FinishDispatch, Classify
      <4>. QED  BY <4>1, <2>2, <3>5 DEF Sound, Is
    <3>. QED  BY <3>1, <3>2, <3>3, <3>4, <3>5
  <2>. QED  BY <2>1, <2>2, <2>4 DEF VerdictsSound, After, Judged, Guarded
<1>14. CASE FinishRead
  <2>1. verdict' \in Verdicts /\ verdict' # NoVerdict /\ main = "finish" /\ main' = "settle"
    BY <1>14, VerdictsTyped DEF FinishRead
  <2>2. record = NoVerdict /\ record' = record /\ ~Guarded'
    BY <1>14 DEF FinishRead, VerdictsSound, After, Judged, Guarded
  <2>. QED  BY <2>1, <2>2 DEF VerdictsSound, After, Judged
<1>15. CASE Settle
  BY <1>15 DEF Settle, VerdictsSound, Sound, KilledSilent, Guarded, After, Judged, Flags, TypeOK, Dogs
<1>16. CASE LeaveMsg
  BY <1>16 DEF LeaveMsg, Leave, VerdictsSound, Sound, KilledSilent, Guarded, After, Judged,
     Flags, TypeOK, Dogs
<1>17. CASE LeaveTask
  BY <1>17 DEF LeaveTask, Leave, VerdictsSound, Sound, KilledSilent, Guarded, After, Judged,
     Flags, TypeOK, Dogs
<1>18. CASE LeaveExec
  BY <1>18 DEF LeaveExec, Leave, VerdictsSound, Sound, KilledSilent, Guarded, After, Judged,
     Flags, TypeOK, Dogs
<1>19. CASE LeaveAgent
  BY <1>19 DEF LeaveAgent, Leave, VerdictsSound, Sound, KilledSilent, Guarded, After, Judged,
     Flags, TypeOK, Dogs
<1>20. CASE LeaveRead
  BY <1>20 DEF LeaveRead, Leave, VerdictsSound, Sound, KilledSilent, Guarded, After, Judged,
     Flags, TypeOK, Dogs
<1>21. CASE Answer
  BY <1>21 DEF Answer, VerdictsSound, Sound, KilledSilent, Guarded, After, Judged, Flags, TypeOK, Dogs
<1>22. CASE Release
  BY <1>22 DEF Release, VerdictsSound, Sound, KilledSilent, Guarded, After, Judged, Flags, TypeOK, Dogs
<1>23. CASE DogPoll
  BY <1>23 DEF DogPoll, Counts, Joined, Working, Shown, Changed, Unchanged, VerdictsSound, Sound, KilledSilent, Guarded, After,
     Judged, Flags, TypeOK, Dogs
<1>24. CASE DogCheck
  BY <1>24 DEF DogCheck, Counts, Joined, Working, Shown, CheckOutput, VerdictsSound, Sound, KilledSilent, Guarded, After,
     Judged, Flags, TypeOK, Dogs
<1>25. CASE DogReport
  BY <1>25 DEF DogReport, Reported, Silences, VerdictsSound, Sound, KilledSilent, Guarded,
     After, Judged, Flags, TypeOK, Dogs
<1>26. CASE DogFlag
  BY <1>26 DEF DogFlag, VerdictsSound, Sound, KilledSilent, Guarded, After, Judged, Flags, TypeOK, Dogs
<1>27. CASE DogKill
  BY <1>27 DEF DogKill, TerminateProcess, VerdictsSound, Sound, KilledSilent, Guarded, After,
     Judged, Flags, TypeOK, Dogs
<1>28. CASE Ends
  BY <1>28 DEF Ends, VerdictsSound, Sound, KilledSilent, Guarded, After, Judged, Flags, TypeOK, Dogs
<1>29. CASE \E c \in Chunks : Says(c)
  BY <1>29 DEF Says, VerdictsSound, Sound, KilledSilent, Guarded, After, Judged, Flags, TypeOK, Dogs
<1>30. CASE Signal
  BY <1>30 DEF Signal, TerminateProcess, VerdictsSound, Sound, KilledSilent, Guarded, After,
     Judged, Flags, TypeOK, Dogs
<1>31. CASE SignalLate
  BY <1>31 DEF SignalLate, VerdictsSound, Sound, KilledSilent, Guarded, After, Judged, Flags, TypeOK, Dogs
<1>32. CASE Tick
  BY <1>32 DEF Tick, VerdictsSound, Sound, KilledSilent, Guarded, After, Judged, Flags, TypeOK, Dogs
<1>33. CASE UNCHANGED vars
  BY <1>33 DEF vars, VerdictsSound, Sound, KilledSilent, Guarded, After, Judged, Flags, TypeOK, Dogs
<1>. QED
  BY <1>1, <1>2, <1>3, <1>4, <1>5, <1>6, <1>7, <1>8, <1>9, <1>10, <1>11, <1>12, <1>13,
     <1>14, <1>15, <1>16, <1>17, <1>18, <1>19, <1>20, <1>21, <1>22, <1>23, <1>24, <1>25,
     <1>26, <1>27, <1>28, <1>29, <1>30, <1>31, <1>32, <1>33
  DEF Next, MainStep, DogStep, ChildStep

(* The watchdog reports once, and the main thread leaves its count alone.   *)
LEMMA SilencesKept ==
    ASSUME TypeOK, Counts, Silenced, [Next]_vars
    PROVE  Silenced'
<1>1. CASE BeginMsg
  BY <1>1 DEF BeginMsg, Begin, TypeOK, Silenced, Tally, After, Judged, Joined, Working,
     Dogs, Flags
<1>2. CASE BeginTask
  BY <1>2 DEF BeginTask, Begin, TypeOK, Silenced, Tally, After, Judged, Joined, Working,
     Dogs, Flags
<1>3. CASE BeginExec
  BY <1>3 DEF BeginExec, Begin, TypeOK, Silenced, Tally, After, Judged, Joined, Working,
     Dogs, Flags
<1>4. CASE BeginAgent
  BY <1>4 DEF BeginAgent, Begin, TypeOK, Silenced, Tally, After, Judged, Joined,
     Working, Dogs, Flags
<1>5. CASE BeginRead
  BY <1>5 DEF BeginRead, Begin, TypeOK, Silenced, Tally, After, Judged, Joined, Working,
     Dogs, Flags
<1>6. CASE Spawn
  BY <1>6 DEF Spawn, TypeOK, Silenced, Tally, After, Judged, Joined, Working, Dogs, Flags
<1>7. CASE Poll
  BY <1>7 DEF Poll, TypeOK, Silenced, Tally, After, Judged, Joined, Working, Dogs, Flags
<1>8. CASE Look
  BY <1>8 DEF Look, Logged, Deadline, AgentGrace, TypeOK, Silenced, Tally, After,
     Judged, Joined, Working, Dogs, Flags
<1>9. CASE Cut
  BY <1>9 DEF Cut, TerminateProcess, TypeOK, Silenced, Tally, After, Judged, Joined,
     Working, Dogs, Flags
<1>10. CASE Drain
  BY <1>10 DEF Drain, Logged, TypeOK, Silenced, Tally, After, Judged, Joined, Working,
     Dogs, Flags
<1>11. CASE Stop
  BY <1>11 DEF Stop, TypeOK, Silenced, Tally, After, Judged, Joined, Working, Dogs, Flags
<1>12. CASE Join
  BY <1>12 DEF Join, TypeOK, Silenced, Tally, After, Judged, Joined, Working, Dogs, Flags
<1>13. CASE FinishDispatch
  <2>1. /\ main = "finish" /\ main' = "settle" /\ UNCHANGED <<flag, log, result>>
        /\ dog'.at = dog.at
    BY <1>13, CheckOutputTyped DEF FinishDispatch, Classify, Reported, TypeOK, Dogs
  <2>2. ASSUME dog.at \in {"silent", "stalled"}, streak' > 0
        PROVE  result = "zero" /\ ~log.output
    <3>1. streak = 0
      BY <2>1, <2>2 DEF Silenced, After, Judged
    <3>2. streak' # streak
      BY <2>2, <3>1
    <3>3. Zero /\ ~CheckOutput.output
      BY <1>13, <3>2 DEF FinishDispatch, Classify
    <3>. QED  BY <3>3, CheckOutputTyped DEF Zero
  <2>. QED  BY <2>1, <2>2 DEF Silenced, After, Judged, Joined
<1>14. CASE FinishRead
  BY <1>14 DEF FinishRead, Is, Zero, TypeOK, Silenced, Tally, After, Judged, Joined,
     Working, Dogs, Flags
<1>15. CASE Settle
  BY <1>15 DEF Settle, TypeOK, Silenced, Tally, After, Judged, Joined, Working, Dogs, Flags
<1>16. CASE LeaveMsg
  BY <1>16 DEF LeaveMsg, Leave, TypeOK, Silenced, Tally, After, Judged, Joined, Working,
     Dogs, Flags
<1>17. CASE LeaveTask
  BY <1>17 DEF LeaveTask, Leave, TypeOK, Silenced, Tally, After, Judged, Joined,
     Working, Dogs, Flags
<1>18. CASE LeaveExec
  BY <1>18 DEF LeaveExec, Leave, TypeOK, Silenced, Tally, After, Judged, Joined,
     Working, Dogs, Flags
<1>19. CASE LeaveAgent
  BY <1>19 DEF LeaveAgent, Leave, TypeOK, Silenced, Tally, After, Judged, Joined,
     Working, Dogs, Flags
<1>20. CASE LeaveRead
  BY <1>20 DEF LeaveRead, Leave, TypeOK, Silenced, Tally, After, Judged, Joined,
     Working, Dogs, Flags
<1>21. CASE Answer
  BY <1>21 DEF Answer, TypeOK, Silenced, Tally, After, Judged, Joined, Working, Dogs, Flags
<1>22. CASE Release
  BY <1>22 DEF Release, TypeOK, Silenced, Tally, After, Judged, Joined, Working, Dogs, Flags
<1>23. CASE DogPoll
  BY <1>23 DEF DogPoll, Counts, Changed, Unchanged, TypeOK, Silenced, Tally, After, Judged,
     Joined, Working, Dogs, Flags
<1>24. CASE DogCheck
  BY <1>24 DEF DogCheck, Counts, CheckOutput, TypeOK, Silenced, Tally, After, Judged, Joined,
     Working, Dogs, Flags
<1>25. CASE DogReport
  <2>1. /\ dog \in Dogs /\ Reported(dog) \in Dogs /\ dog.at \in {"silent", "stalled"}
        /\ ~flag.stalled /\ flag' = flag /\ main' = main
    BY <1>25, ReportedTyped DEF DogReport, TypeOK, Silenced
  <2>2. dog'.at = "flag" /\ main \notin {"begin", "spawn"}
    BY <1>25, <2>1 DEF DogReport, Dogs, Silenced
  <2>3. ASSUME main \notin After PROVE streak' = Tally'
    <3>1. streak = 0 /\ dog.health # "unresponsive"
      BY <2>1, <2>3 DEF Silenced
    <3>2. CASE dog.at = "stalled" /\ dog.output
      <4>1. streak' = streak /\ dog'.health = dog.health
        BY <1>25, <3>2, <2>1 DEF DogReport, Dogs
      <4>. QED  BY <3>1, <4>1 DEF Tally
    <3>3. CASE ~(dog.at = "stalled" /\ dog.output)
      <4>1. streak' = Silences(dog) /\ dog'.health = Reported(dog).health
        BY <1>25, <3>3, <2>1 DEF DogReport, Dogs
      <4>2. Reported(dog).health = IF dog.model THEN "infra_failure" ELSE "unresponsive"
        BY <2>1 DEF Reported, Dogs
      <4>. QED  BY <3>1, <4>1, <4>2 DEF Tally, Silences
    <3>. QED  BY <3>2, <3>3
  <2>. QED  BY <2>1, <2>2, <2>3 DEF Silenced, Joined, Judged, After
<1>26. CASE DogFlag
  BY <1>26 DEF DogFlag, TypeOK, Silenced, Tally, After, Judged, Joined, Working, Dogs, Flags
<1>27. CASE DogKill
  BY <1>27 DEF DogKill, TerminateProcess, TypeOK, Silenced, Tally, After, Judged,
     Joined, Working, Dogs, Flags
<1>28. CASE Ends
  BY <1>28 DEF Ends, TypeOK, Silenced, Tally, After, Judged, Joined, Working, Dogs, Flags
<1>29. CASE \E c \in Chunks : Says(c)
  BY <1>29 DEF Says, TypeOK, Silenced, Tally, After, Judged, Joined, Working, Dogs, Flags
<1>30. CASE Signal
  BY <1>30 DEF Signal, TerminateProcess, TypeOK, Silenced, Tally, After, Judged, Joined,
     Working, Dogs, Flags
<1>31. CASE SignalLate
  BY <1>31 DEF SignalLate, TypeOK, Silenced, Tally, After, Judged, Joined, Working,
     Dogs, Flags
<1>32. CASE Tick
  BY <1>32 DEF Tick, TypeOK, Silenced, Tally, After, Judged, Joined, Working, Dogs, Flags
<1>33. CASE UNCHANGED vars
  BY <1>33 DEF vars, TypeOK, Silenced, Tally, After, Judged, Joined, Working, Dogs, Flags
<1>. QED
  BY <1>1, <1>2, <1>3, <1>4, <1>5, <1>6, <1>7, <1>8, <1>9, <1>10, <1>11, <1>12, <1>13,
     <1>14, <1>15, <1>16, <1>17, <1>18, <1>19, <1>20, <1>21, <1>22, <1>23, <1>24, <1>25,
     <1>26, <1>27, <1>28, <1>29, <1>30, <1>31, <1>32, <1>33
  DEF Next, MainStep, DogStep, ChildStep

(* Each way out gives back what its kind has acquired.                      *)
LEMMA HoldingsKept ==
    ASSUME TypeOK, VerdictsSound, Ended, Holding, [Next]_vars
    PROVE  Holding'
<1>1. CASE BeginMsg
  BY <1>1 DEF BeginMsg, Begin, TypeOK, Holding, NothingLeftBehind, Refused, Ended, VerdictsSound, After,
     Judged, Resources, Flags
<1>2. CASE BeginTask
  BY <1>2 DEF BeginTask, Begin, TypeOK, Holding, NothingLeftBehind, Refused, Ended, VerdictsSound,
     After, Judged, Resources, Flags
<1>3. CASE BeginExec
  BY <1>3 DEF BeginExec, Begin, TypeOK, Holding, NothingLeftBehind, Refused, Ended, VerdictsSound,
     After, Judged, Resources, Flags
<1>4. CASE BeginAgent
  BY <1>4 DEF BeginAgent, Begin, TypeOK, Holding, NothingLeftBehind, Refused, Ended, VerdictsSound,
     After, Judged, Resources, Flags
<1>5. CASE BeginRead
  BY <1>5 DEF BeginRead, Begin, TypeOK, Holding, NothingLeftBehind, Refused, Ended, VerdictsSound,
     After, Judged, Resources, Flags
<1>6. CASE Spawn
  BY <1>6 DEF Spawn, TypeOK, Holding, NothingLeftBehind, Refused, Ended, VerdictsSound, After, Judged,
     Resources, Flags
<1>7. CASE Poll
  BY <1>7 DEF Poll, TypeOK, Holding, NothingLeftBehind, Refused, Ended, VerdictsSound, After, Judged,
     Resources, Flags
<1>8. CASE Look
  BY <1>8 DEF Look, Logged, Deadline, AgentGrace, TypeOK, Holding, NothingLeftBehind, Refused, Ended,
     VerdictsSound, After, Judged, Resources, Flags
<1>9. CASE Cut
  BY <1>9 DEF Cut, TerminateProcess, TypeOK, Holding, NothingLeftBehind, Refused, Ended, VerdictsSound,
     After, Judged, Resources, Flags
<1>10. CASE Drain
  BY <1>10 DEF Drain, Logged, TypeOK, Holding, NothingLeftBehind, Refused, Ended, VerdictsSound, After,
     Judged, Resources, Flags
<1>11. CASE Stop
  BY <1>11 DEF Stop, TypeOK, Holding, NothingLeftBehind, Refused, Ended, VerdictsSound, After, Judged,
     Resources, Flags
<1>12. CASE Join
  BY <1>12 DEF Join, TypeOK, Holding, NothingLeftBehind, Refused, Ended, VerdictsSound, After, Judged,
     Resources, Flags
<1>13. CASE FinishDispatch
  <2>1. main = "finish" /\ main' = "settle" /\ UNCHANGED <<job, holds, flag>>
    BY <1>13 DEF FinishDispatch
  <2>. QED  BY <2>1 DEF Holding, NothingLeftBehind, Refused, Ended
<1>14. CASE FinishRead
  BY <1>14 DEF FinishRead, Is, Zero, TypeOK, Holding, NothingLeftBehind, Refused, Ended, VerdictsSound,
     After, Judged, Resources, Flags
<1>15. CASE Settle
  BY <1>15 DEF Settle, TypeOK, Holding, NothingLeftBehind, Refused, Ended, VerdictsSound, After, Judged,
     Resources, Flags
<1>16. CASE LeaveMsg
  BY <1>16 DEF LeaveMsg, Leave, TypeOK, Holding, NothingLeftBehind, Refused, Ended, VerdictsSound,
     After, Judged, Resources, Flags
<1>17. CASE LeaveTask
  BY <1>17 DEF LeaveTask, Leave, TypeOK, Holding, NothingLeftBehind, Refused, Ended, VerdictsSound,
     After, Judged, Resources, Flags
<1>18. CASE LeaveExec
  BY <1>18 DEF LeaveExec, Leave, TypeOK, Holding, NothingLeftBehind, Refused, Ended, VerdictsSound,
     After, Judged, Resources, Flags
<1>19. CASE LeaveAgent
  BY <1>19 DEF LeaveAgent, Leave, TypeOK, Holding, NothingLeftBehind, Refused, Ended, VerdictsSound,
     After, Judged, Resources, Flags
<1>20. CASE LeaveRead
  BY <1>20 DEF LeaveRead, Leave, TypeOK, Holding, NothingLeftBehind, Refused, Ended, VerdictsSound,
     After, Judged, Resources, Flags
<1>21. CASE Answer
  BY <1>21 DEF Answer, TypeOK, Holding, NothingLeftBehind, Refused, Ended, VerdictsSound, After, Judged,
     Resources, Flags
<1>22. CASE Release
  BY <1>22 DEF Release, TypeOK, Holding, NothingLeftBehind, Refused, Ended, VerdictsSound, After,
     Judged, Resources, Flags
<1>23. CASE DogPoll
  BY <1>23 DEF DogPoll, Changed, Unchanged, TypeOK, Holding, NothingLeftBehind, Refused, Ended,
     VerdictsSound, After, Judged, Resources, Flags
<1>24. CASE DogCheck
  BY <1>24 DEF DogCheck, CheckOutput, TypeOK, Holding, NothingLeftBehind, Refused, Ended, VerdictsSound,
     After, Judged, Resources, Flags
<1>25. CASE DogReport
  BY <1>25 DEF DogReport, Reported, Silences, TypeOK, Holding, NothingLeftBehind, Refused, Ended,
     VerdictsSound, After, Judged, Resources, Flags
<1>26. CASE DogFlag
  BY <1>26 DEF DogFlag, TypeOK, Holding, NothingLeftBehind, Refused, Ended, VerdictsSound, After,
     Judged, Resources, Flags
<1>27. CASE DogKill
  BY <1>27 DEF DogKill, TerminateProcess, TypeOK, Holding, NothingLeftBehind, Refused, Ended,
     VerdictsSound, After, Judged, Resources, Flags
<1>28. CASE Ends
  BY <1>28 DEF Ends, TypeOK, Holding, NothingLeftBehind, Refused, Ended, VerdictsSound, After, Judged,
     Resources, Flags
<1>29. CASE \E c \in Chunks : Says(c)
  BY <1>29 DEF Says, TypeOK, Holding, NothingLeftBehind, Refused, Ended, VerdictsSound, After, Judged,
     Resources, Flags
<1>30. CASE Signal
  BY <1>30 DEF Signal, TerminateProcess, TypeOK, Holding, NothingLeftBehind, Refused, Ended,
     VerdictsSound, After, Judged, Resources, Flags
<1>31. CASE SignalLate
  BY <1>31 DEF SignalLate, TypeOK, Holding, NothingLeftBehind, Refused, Ended, VerdictsSound, After,
     Judged, Resources, Flags
<1>32. CASE Tick
  BY <1>32 DEF Tick, TypeOK, Holding, NothingLeftBehind, Refused, Ended, VerdictsSound, After, Judged,
     Resources, Flags
<1>33. CASE UNCHANGED vars
  BY <1>33 DEF vars, TypeOK, Holding, NothingLeftBehind, Refused, Ended, VerdictsSound, After, Judged,
     Resources, Flags
<1>. QED
  BY <1>1, <1>2, <1>3, <1>4, <1>5, <1>6, <1>7, <1>8, <1>9, <1>10, <1>11, <1>12, <1>13,
     <1>14, <1>15, <1>16, <1>17, <1>18, <1>19, <1>20, <1>21, <1>22, <1>23, <1>24, <1>25,
     <1>26, <1>27, <1>28, <1>29, <1>30, <1>31, <1>32, <1>33
  DEF Next, MainStep, DogStep, ChildStep

(* New output is newer than the clocks, and a poll that sees it resets      *)
(* them.                                                                    *)
LEMMA ClocksKept ==
    ASSUME TypeOK, Clocks, [Next]_vars
    PROVE  Clocks'
<1>1. CASE BeginMsg
  BY <1>1, Horizons DEF BeginMsg, Begin, TypeOK, Clocks, Scale, Dogs, Logs
<1>2. CASE BeginTask
  BY <1>2, Horizons DEF BeginTask, Begin, TypeOK, Clocks, Scale, Dogs, Logs
<1>3. CASE BeginExec
  BY <1>3, Horizons DEF BeginExec, Begin, TypeOK, Clocks, Scale, Dogs, Logs
<1>4. CASE BeginAgent
  BY <1>4, Horizons DEF BeginAgent, Begin, TypeOK, Clocks, Scale, Dogs, Logs
<1>5. CASE BeginRead
  BY <1>5, Horizons DEF BeginRead, Begin, TypeOK, Clocks, Scale, Dogs, Logs
<1>6. CASE Spawn
  BY <1>6, Horizons DEF Spawn, TypeOK, Clocks, Scale, Dogs, Logs
<1>7. CASE Poll
  BY <1>7, Horizons DEF Poll, TypeOK, Clocks, Scale, Dogs, Logs
<1>8. CASE Look
  BY <1>8, Horizons DEF Look, Logged, Deadline, AgentGrace, TypeOK, Clocks, Scale, Dogs,
     Logs
<1>9. CASE Cut
  BY <1>9, Horizons DEF Cut, TerminateProcess, TypeOK, Clocks, Scale, Dogs, Logs
<1>10. CASE Drain
  BY <1>10, Horizons DEF Drain, Logged, TypeOK, Clocks, Scale, Dogs, Logs
<1>11. CASE Stop
  BY <1>11, Horizons DEF Stop, TypeOK, Clocks, Scale, Dogs, Logs
<1>12. CASE Join
  BY <1>12, Horizons DEF Join, TypeOK, Clocks, Scale, Dogs, Logs
<1>13. CASE FinishDispatch
  BY <1>13, Horizons DEF FinishDispatch, Classify, Silent, Is, Zero, CheckOutput,
     Reported, Silences, Guarded, TypeOK, Clocks, Scale, Dogs, Logs
<1>14. CASE FinishRead
  BY <1>14, Horizons DEF FinishRead, Is, Zero, TypeOK, Clocks, Scale, Dogs, Logs
<1>15. CASE Settle
  BY <1>15, Horizons DEF Settle, TypeOK, Clocks, Scale, Dogs, Logs
<1>16. CASE LeaveMsg
  BY <1>16, Horizons DEF LeaveMsg, Leave, TypeOK, Clocks, Scale, Dogs, Logs
<1>17. CASE LeaveTask
  BY <1>17, Horizons DEF LeaveTask, Leave, TypeOK, Clocks, Scale, Dogs, Logs
<1>18. CASE LeaveExec
  BY <1>18, Horizons DEF LeaveExec, Leave, TypeOK, Clocks, Scale, Dogs, Logs
<1>19. CASE LeaveAgent
  BY <1>19, Horizons DEF LeaveAgent, Leave, TypeOK, Clocks, Scale, Dogs, Logs
<1>20. CASE LeaveRead
  BY <1>20, Horizons DEF LeaveRead, Leave, TypeOK, Clocks, Scale, Dogs, Logs
<1>21. CASE Answer
  BY <1>21, Horizons DEF Answer, TypeOK, Clocks, Scale, Dogs, Logs
<1>22. CASE Release
  BY <1>22, Horizons DEF Release, TypeOK, Clocks, Scale, Dogs, Logs
<1>23. CASE DogPoll
  BY <1>23, Horizons DEF DogPoll, Changed, Unchanged, TypeOK, Clocks, Scale, Dogs, Logs
<1>24. CASE DogCheck
  BY <1>24, Horizons DEF DogCheck, CheckOutput, TypeOK, Clocks, Scale, Dogs, Logs
<1>25. CASE DogReport
  BY <1>25, Horizons DEF DogReport, Reported, Silences, TypeOK, Clocks, Scale, Dogs, Logs
<1>26. CASE DogFlag
  BY <1>26, Horizons DEF DogFlag, TypeOK, Clocks, Scale, Dogs, Logs
<1>27. CASE DogKill
  BY <1>27, Horizons DEF DogKill, TerminateProcess, TypeOK, Clocks, Scale, Dogs, Logs
<1>28. CASE Ends
  BY <1>28, Horizons DEF Ends, TypeOK, Clocks, Scale, Dogs, Logs
<1>29. CASE \E c \in Chunks : Says(c)
  BY <1>29, Horizons DEF Says, TypeOK, Clocks, Scale, Dogs, Logs
<1>30. CASE Signal
  BY <1>30, Horizons DEF Signal, TerminateProcess, TypeOK, Clocks, Scale, Dogs, Logs
<1>31. CASE SignalLate
  BY <1>31, Horizons DEF SignalLate, TypeOK, Clocks, Scale, Dogs, Logs
<1>32. CASE Tick
  BY <1>32, Horizons DEF Tick, TypeOK, Clocks, Scale, Dogs, Logs
<1>33. CASE UNCHANGED vars
  BY <1>33, Horizons DEF vars, TypeOK, Clocks, Scale, Dogs, Logs
<1>. QED
  BY <1>1, <1>2, <1>3, <1>4, <1>5, <1>6, <1>7, <1>8, <1>9, <1>10, <1>11, <1>12, <1>13,
     <1>14, <1>15, <1>16, <1>17, <1>18, <1>19, <1>20, <1>21, <1>22, <1>23, <1>24, <1>25,
     <1>26, <1>27, <1>28, <1>29, <1>30, <1>31, <1>32, <1>33
  DEF Next, MainStep, DogStep, ChildStep

(* What it has seen of the log is all there was when it judged the run.     *)
LEMMA LooksKept ==
    ASSUME TypeOK, Counts, Clocks, Looked, [Next]_vars
    PROVE  Looked'
<1>1. CASE BeginMsg
  BY <1>1 DEF BeginMsg, Begin, TypeOK, Looked, Working, Dogs, Logs, Flags
<1>2. CASE BeginTask
  BY <1>2 DEF BeginTask, Begin, TypeOK, Looked, Working, Dogs, Logs, Flags
<1>3. CASE BeginExec
  BY <1>3 DEF BeginExec, Begin, TypeOK, Looked, Working, Dogs, Logs, Flags
<1>4. CASE BeginAgent
  BY <1>4 DEF BeginAgent, Begin, TypeOK, Looked, Working, Dogs, Logs, Flags
<1>5. CASE BeginRead
  BY <1>5 DEF BeginRead, Begin, TypeOK, Looked, Working, Dogs, Logs, Flags
<1>6. CASE Spawn
  BY <1>6 DEF Spawn, Counts, Joined, Clocks, Shown, TypeOK, Looked, Working, Dogs, Logs, Flags
<1>7. CASE Poll
  BY <1>7 DEF Poll, TypeOK, Looked, Working, Dogs, Logs, Flags
<1>8. CASE Look
  BY <1>8 DEF Look, Counts, Joined, Clocks, Shown, Logged, Deadline, AgentGrace, TypeOK, Looked, Working, Dogs, Logs, Flags
<1>9. CASE Cut
  BY <1>9 DEF Cut, TerminateProcess, TypeOK, Looked, Working, Dogs, Logs, Flags
<1>10. CASE Drain
  BY <1>10 DEF Drain, Counts, Joined, Clocks, Shown, Logged, TypeOK, Looked, Working, Dogs, Logs, Flags
<1>11. CASE Stop
  BY <1>11 DEF Stop, TypeOK, Looked, Working, Dogs, Logs, Flags
<1>12. CASE Join
  BY <1>12 DEF Join, Counts, Joined, Clocks, Shown, TypeOK, Looked, Working, Dogs, Logs, Flags
<1>13. CASE FinishDispatch
  BY <1>13 DEF FinishDispatch, Counts, Joined, Clocks, Shown, Classify, Silent, Is, Zero, CheckOutput,
     Reported, Silences, Guarded, TypeOK, Looked, Working, Dogs, Logs, Flags
<1>14. CASE FinishRead
  BY <1>14 DEF FinishRead, Is, Zero, TypeOK, Looked, Working, Dogs, Logs, Flags
<1>15. CASE Settle
  BY <1>15 DEF Settle, TypeOK, Looked, Working, Dogs, Logs, Flags
<1>16. CASE LeaveMsg
  BY <1>16 DEF LeaveMsg, Leave, TypeOK, Looked, Working, Dogs, Logs, Flags
<1>17. CASE LeaveTask
  BY <1>17 DEF LeaveTask, Leave, TypeOK, Looked, Working, Dogs, Logs, Flags
<1>18. CASE LeaveExec
  BY <1>18 DEF LeaveExec, Leave, TypeOK, Looked, Working, Dogs, Logs, Flags
<1>19. CASE LeaveAgent
  BY <1>19 DEF LeaveAgent, Leave, TypeOK, Looked, Working, Dogs, Logs, Flags
<1>20. CASE LeaveRead
  BY <1>20 DEF LeaveRead, Leave, TypeOK, Looked, Working, Dogs, Logs, Flags
<1>21. CASE Answer
  BY <1>21 DEF Answer, TypeOK, Looked, Working, Dogs, Logs, Flags
<1>22. CASE Release
  BY <1>22 DEF Release, TypeOK, Looked, Working, Dogs, Logs, Flags
<1>23. CASE DogPoll
  BY <1>23 DEF DogPoll, Counts, Joined, Clocks, Shown, Changed, Unchanged, TypeOK, Looked, Working, Dogs, Logs, Flags
<1>24. CASE DogCheck
  BY <1>24 DEF DogCheck, Counts, Joined, Clocks, Shown, CheckOutput, TypeOK, Looked, Working, Dogs, Logs, Flags
<1>25. CASE DogReport
  BY <1>25 DEF DogReport, Reported, Silences, TypeOK, Looked, Working, Dogs, Logs, Flags
<1>26. CASE DogFlag
  BY <1>26 DEF DogFlag, TypeOK, Looked, Working, Dogs, Logs, Flags
<1>27. CASE DogKill
  BY <1>27 DEF DogKill, TerminateProcess, TypeOK, Looked, Working, Dogs, Logs, Flags
<1>28. CASE Ends
  BY <1>28 DEF Ends, TypeOK, Looked, Working, Dogs, Logs, Flags
<1>29. CASE \E c \in Chunks : Says(c)
  BY <1>29 DEF Says, TypeOK, Looked, Working, Dogs, Logs, Flags
<1>30. CASE Signal
  BY <1>30 DEF Signal, TerminateProcess, TypeOK, Looked, Working, Dogs, Logs, Flags
<1>31. CASE SignalLate
  BY <1>31 DEF SignalLate, TypeOK, Looked, Working, Dogs, Logs, Flags
<1>32. CASE Tick
  BY <1>32 DEF Tick, TypeOK, Looked, Working, Dogs, Logs, Flags
<1>33. CASE UNCHANGED vars
  BY <1>33 DEF vars, TypeOK, Looked, Working, Dogs, Logs, Flags
<1>. QED
  BY <1>1, <1>2, <1>3, <1>4, <1>5, <1>6, <1>7, <1>8, <1>9, <1>10, <1>11, <1>12, <1>13,
     <1>14, <1>15, <1>16, <1>17, <1>18, <1>19, <1>20, <1>21, <1>22, <1>23, <1>24, <1>25,
     <1>26, <1>27, <1>28, <1>29, <1>30, <1>31, <1>32, <1>33
  DEF Next, MainStep, DogStep, ChildStep

(* Only its poll takes the watchdog from waiting to a stall.                *)
LEMMA StalledByPoll ==
    ASSUME TypeOK, dog.at = "wait", [Next]_vars
    PROVE  DogPoll \/ dog'.at # "stalled"
<1>1. CASE BeginMsg
  BY <1>1 DEF BeginMsg, Begin, TypeOK, Dogs
<1>2. CASE BeginTask
  BY <1>2 DEF BeginTask, Begin, TypeOK, Dogs
<1>3. CASE BeginExec
  BY <1>3 DEF BeginExec, Begin, TypeOK, Dogs
<1>4. CASE BeginAgent
  BY <1>4 DEF BeginAgent, Begin, TypeOK, Dogs
<1>5. CASE BeginRead
  BY <1>5 DEF BeginRead, Begin, TypeOK, Dogs
<1>6. CASE Spawn
  BY <1>6 DEF Spawn, TypeOK, Dogs
<1>7. CASE Poll
  BY <1>7 DEF Poll, TypeOK, Dogs
<1>8. CASE Look
  BY <1>8 DEF Look, Logged, Deadline, AgentGrace, TypeOK, Dogs
<1>9. CASE Cut
  BY <1>9 DEF Cut, TerminateProcess, TypeOK, Dogs
<1>10. CASE Drain
  BY <1>10 DEF Drain, Logged, TypeOK, Dogs
<1>11. CASE Stop
  BY <1>11 DEF Stop, TypeOK, Dogs
<1>12. CASE Join
  BY <1>12 DEF Join, TypeOK, Dogs
<1>13. CASE FinishDispatch
  <2>1. dog'.at = dog.at
    BY <1>13, CheckOutputTyped DEF FinishDispatch, Classify, Reported, TypeOK, Dogs
  <2>. QED  BY <2>1
<1>14. CASE FinishRead
  BY <1>14 DEF FinishRead, Is, Zero, TypeOK, Dogs
<1>15. CASE Settle
  BY <1>15 DEF Settle, TypeOK, Dogs
<1>16. CASE LeaveMsg
  BY <1>16 DEF LeaveMsg, Leave, TypeOK, Dogs
<1>17. CASE LeaveTask
  BY <1>17 DEF LeaveTask, Leave, TypeOK, Dogs
<1>18. CASE LeaveExec
  BY <1>18 DEF LeaveExec, Leave, TypeOK, Dogs
<1>19. CASE LeaveAgent
  BY <1>19 DEF LeaveAgent, Leave, TypeOK, Dogs
<1>20. CASE LeaveRead
  BY <1>20 DEF LeaveRead, Leave, TypeOK, Dogs
<1>21. CASE Answer
  BY <1>21 DEF Answer, TypeOK, Dogs
<1>22. CASE Release
  BY <1>22 DEF Release, TypeOK, Dogs
<1>23. CASE DogPoll
  BY <1>23
<1>24. CASE DogCheck
  BY <1>24 DEF DogCheck
<1>25. CASE DogReport
  BY <1>25 DEF DogReport
<1>26. CASE DogFlag
  BY <1>26 DEF DogFlag, TypeOK, Dogs
<1>27. CASE DogKill
  BY <1>27 DEF DogKill, TerminateProcess, TypeOK, Dogs
<1>28. CASE Ends
  BY <1>28 DEF Ends, TypeOK, Dogs
<1>29. CASE \E c \in Chunks : Says(c)
  BY <1>29 DEF Says, TypeOK, Dogs
<1>30. CASE Signal
  BY <1>30 DEF Signal, TerminateProcess, TypeOK, Dogs
<1>31. CASE SignalLate
  BY <1>31 DEF SignalLate, TypeOK, Dogs
<1>32. CASE Tick
  BY <1>32 DEF Tick, TypeOK, Dogs
<1>33. CASE UNCHANGED vars
  BY <1>33 DEF vars, TypeOK, Dogs
<1>. QED
  BY <1>1, <1>2, <1>3, <1>4, <1>5, <1>6, <1>7, <1>8, <1>9, <1>10, <1>11, <1>12, <1>13,
     <1>14, <1>15, <1>16, <1>17, <1>18, <1>19, <1>20, <1>21, <1>22, <1>23, <1>24, <1>25,
     <1>26, <1>27, <1>28, <1>29, <1>30, <1>31, <1>32, <1>33
  DEF Next, MainStep, DogStep, ChildStep

-----------------------------------------------------------------------------
(* All of it together.                                                      *)
Inv ==
    /\ TypeOK /\ Counts /\ Ended /\ VerdictsSound /\ Silenced /\ Holding
    /\ Clocks /\ Looked

LEMMA InvHolds == Spec => []Inv
<1>1. Init => Inv
  <2>. SUFFICES ASSUME Init PROVE Inv
    OBVIOUS
  <2>1. TypeOK /\ Counts /\ Ended
    BY Starts
  <2>2. VerdictsSound /\ Silenced
    BY DEF Init, VerdictsSound, Silenced, After, Judged, Joined
  <2>3. Holding
    BY DEF Init, Holding, NothingLeftBehind, Refused
  <2>4. Clocks /\ Looked
    BY DEF Init, Clocks, Looked, Working
  <2>. QED  BY <2>1, <2>2, <2>3, <2>4 DEF Inv
<1>2. Inv /\ [Next]_vars => Inv'
  BY TypesKept, CountsKept, VerdictsKept, SilencesKept, HoldingsKept, ClocksKept, LooksKept
  DEF Inv
<1>. QED  BY <1>1, <1>2, PTL DEF Spec

(* Whatever the order in which the child answers, the deadline passes, the  *)
(* watchdog looks, decides and kills, and the log is read, the verdict is   *)
(* what the log shows at the end or showed when the watchdog decided        *)
(* (work.py:257), runs that were cut short included.                        *)
THEOREM AnswersCount == Spec => []AnswerStands
<1>1. Inv => AnswerStands
  BY DEF Inv, VerdictsSound, AnswerStands, Sound
<1>. QED  BY <1>1, InvHolds, PTL

(* Only a report, a verdict and record_responsive change the streak.        *)
LEMMA StreakSteps ==
    ASSUME [Next]_vars
    PROVE  UNCHANGED streak \/ DogReport \/ FinishDispatch \/ Answer
BY DEF Next, MainStep, DogStep, ChildStep, vars, BeginMsg, BeginTask, BeginExec, BeginAgent,
   BeginRead, Begin, Spawn, Poll, Look, Cut, Drain, Stop, Join, FinishRead, Settle, LeaveMsg,
   LeaveTask, LeaveExec, LeaveAgent, LeaveRead, Leave, Release, DogPoll, DogCheck, DogFlag,
   DogKill, Ends, Says, Signal, SignalLate, Tick

(* The watchdog's report and the verdict both count a silence only when the *)
(* main thread has given the watchdog up and its child was silent as well,  *)
(* and the count stays once the watchdog's flag is up.                      *)
THEOREM SilencesCountOnce == Spec => SilenceCountedOnce
<1>1. ASSUME Inv, [Next]_vars
      PROVE  /\ streak' > streak /\ streak > 0 =>
                   flag.gaveUp /\ ~flag.stalled /\ result = "zero" /\ ~log.output
             /\ streak' < streak => ~flag.stalled
  <2>0. /\ streak \in 0 .. 2 /\ dog \in Dogs /\ flag \in Flags
        /\ Counts /\ Silenced
    BY <1>1 DEF Inv, TypeOK
  <2>1. CASE UNCHANGED streak
    BY <2>0, <2>1
  <2>2. CASE DogReport
    <3>1. dog.at \in {"silent", "stalled"} /\ streak' \in {streak, streak + 1}
      BY <2>2 DEF DogReport, Silences
    <3>2. streak > 0 => main \in Judged /\ ~flag.stalled /\ flag.gaveUp
      BY <2>0, <3>1 DEF Counts, Silenced, Joined, Flags
    <3>3. streak > 0 => result = "zero" /\ ~log.output
      BY <2>0, <3>1, <3>2 DEF Silenced
    <3>. QED  BY <2>0, <3>1, <3>2, <3>3
  <2>3. CASE FinishDispatch
    <3>1. main = "finish" /\ main \notin After /\ main \in Joined
      BY <2>3 DEF FinishDispatch, After, Judged, Joined
    <3>2. \/ streak' = streak
          \/ /\ streak' = Silences(CheckOutput) /\ result # "timed_out" /\ ~flag.stalled
             /\ Zero /\ ~CheckOutput.output
      BY <2>3 DEF FinishDispatch, Classify
    <3>3. CASE streak' = streak
      BY <2>0, <3>3
    <3>4. CASE /\ streak' = Silences(CheckOutput) /\ ~flag.stalled
               /\ Zero /\ ~CheckOutput.output
      <4>1. streak' \in {streak, streak + 1}
        BY <3>4 DEF Silences
      <4>2. result = "zero" /\ ~log.output
        BY <1>1, <3>4, CheckOutputTyped DEF Zero, Inv
      <4>3. streak > 0 => flag.gaveUp
        BY <2>0, <3>1, <3>4 DEF Silenced
      <4>. QED  BY <2>0, <3>4, <4>1, <4>2, <4>3
    <3>. QED  BY <3>2, <3>3, <3>4
  <2>4. CASE Answer
    BY <2>0, <2>4 DEF Answer
  <2>. QED  BY <1>1, <2>1, <2>2, <2>3, <2>4, StreakSteps
<1>. QED  BY <1>1, InvHolds, PTL DEF Spec, SilenceCountedOnce

(* What a dispatch can leave behind, for every way in which it can end.     *)
THEOREM EverythingIsGivenBack == Spec => []NothingLeftBehind
<1>1. Inv => NothingLeftBehind
  BY DEF Inv, Holding
<1>. QED  BY <1>1, InvHolds, PTL

(* The watchdog takes a run for stalled only after a silence of both times. *)
THEOREM OnlyTheSilentAreKilled == Spec => KillsOnlyTheSilent
<1>1. ASSUME Inv, [Next]_vars, dog.at = "wait", dog'.at = "stalled"
      PROVE  now - log.at >= (Stall + KillAfter) * Scale
  <2>1. dog \in Dogs /\ log \in Logs /\ now \in 0 .. Horizon /\ Horizon \in Nat
    BY <1>1, Horizons DEF Inv, TypeOK
  <2>2. DogPoll
    BY <1>1, StalledByPoll DEF Inv
  <2>3. dog.seen = log.size /\ dog' = Unchanged
    BY <1>1, <2>1, <2>2 DEF DogPoll, Changed, Dogs
  <2>4. dog.state = "stalled" /\ now - dog.since >= KillAfter * Scale
    BY <1>1, <2>1, <2>3 DEF Unchanged, Dogs
  <2>5. log.at <= dog.changed /\ dog.since - dog.changed >= Stall * Scale
    BY <1>1, <2>3, <2>4 DEF Inv, Clocks
  <2>6. (Stall + KillAfter) * Scale = Stall * Scale + KillAfter * Scale
    BY TimesAssumption DEF Scale
  <2>7. Stall * Scale \in Nat /\ KillAfter * Scale \in Nat
    BY TimesAssumption DEF Scale
  <2>. QED  BY <2>1, <2>4, <2>5, <2>6, <2>7 DEF Dogs, Logs
<1>. QED  BY <1>1, InvHolds, PTL DEF Spec, KillsOnlyTheSilent

(* Every step is one of the promise, or none.                               *)
LEMMA StepsPromise ==
    ASSUME Inv, [Next]_vars
    PROVE  [Promise!Next]_(Promise!promised)
<1>1. CASE BeginMsg
  <2>1. UNCHANGED <<record, flag>> /\ ("server" \in holds' <=> "server" \in holds)
    BY <1>1 DEF BeginMsg, Begin
  <2>2. main = "begin" /\ main' \in {"spawn", "exited"}
    BY <1>1 DEF BeginMsg, Begin
  <2>3. CASE main' = "spawn"
    BY <2>1, <2>2, <2>3 DEF Promise!promised, Phase
  <2>4. CASE main' = "exited"
    BY <2>1, <2>2, <2>4 DEF Promise!Next, Promise!Quit, Phase
  <2>. QED  BY <2>2, <2>3, <2>4
<1>2. CASE BeginTask
  <2>1. UNCHANGED <<record, flag>> /\ ("server" \in holds' <=> "server" \in holds)
    BY <1>2 DEF BeginTask, Begin
  <2>2. main = "begin" /\ main' \in {"spawn", "exited"}
    BY <1>2 DEF BeginTask, Begin
  <2>3. CASE main' = "spawn"
    BY <2>1, <2>2, <2>3 DEF Promise!promised, Phase
  <2>4. CASE main' = "exited"
    BY <2>1, <2>2, <2>4 DEF Promise!Next, Promise!Quit, Phase
  <2>. QED  BY <2>2, <2>3, <2>4
<1>3. CASE BeginExec
  BY <1>3 DEF BeginExec, Begin, Promise!Next, Promise!promised, Promise!TakeOver,
     Promise!Settle, Promise!GiveBack, Promise!Quit, Phase
<1>4. CASE BeginAgent
  BY <1>4 DEF BeginAgent, Begin, Promise!Next, Promise!promised, Promise!TakeOver,
     Promise!Settle, Promise!GiveBack, Promise!Quit, Phase
<1>5. CASE BeginRead
  BY <1>5 DEF BeginRead, Begin, Promise!Next, Promise!promised, Promise!TakeOver,
     Promise!Settle, Promise!GiveBack, Promise!Quit, Phase
<1>6. CASE Spawn
  <2>1. flag \in Flags
    BY DEF Inv, TypeOK
  <2>2. flag'.external = flag.external
    BY <1>6, <2>1 DEF Spawn, Flags
  <2>3. UNCHANGED Promise!promised
    BY <1>6, <2>2 DEF Spawn, Promise!promised, Phase
  <2>. QED  BY <2>3
<1>7. CASE Poll
  BY <1>7 DEF Poll, Promise!Next, Promise!promised, Promise!TakeOver, Promise!Settle,
     Promise!GiveBack, Promise!Quit, Phase
<1>8. CASE Look
  BY <1>8 DEF Look, Logged, Deadline, AgentGrace, Promise!Next, Promise!promised,
     Promise!TakeOver, Promise!Settle, Promise!GiveBack, Promise!Quit, Phase
<1>9. CASE Cut
  BY <1>9 DEF Cut, TerminateProcess, Promise!Next, Promise!promised, Promise!TakeOver,
     Promise!Settle, Promise!GiveBack, Promise!Quit, Phase
<1>10. CASE Drain
  BY <1>10 DEF Drain, Logged, Promise!Next, Promise!promised, Promise!TakeOver,
     Promise!Settle, Promise!GiveBack, Promise!Quit, Phase
<1>11. CASE Stop
  BY <1>11 DEF Stop, Promise!Next, Promise!promised, Promise!TakeOver, Promise!Settle,
     Promise!GiveBack, Promise!Quit, Phase
<1>12. CASE Join
  <2>1. flag \in Flags
    BY DEF Inv, TypeOK
  <2>2. flag'.external = flag.external
    BY <1>12, <2>1 DEF Join, Flags
  <2>3. UNCHANGED Promise!promised
    BY <1>12, <2>2 DEF Join, Promise!promised, Phase
  <2>. QED  BY <2>3
<1>13. CASE FinishDispatch
  BY <1>13 DEF FinishDispatch, Classify, Silent, Is, Zero, CheckOutput, Reported,
     Silences, Guarded, Promise!Next, Promise!promised, Promise!TakeOver, Promise!Settle,
     Promise!GiveBack, Promise!Quit, Phase
<1>14. CASE FinishRead
  BY <1>14 DEF FinishRead, Is, Zero, Promise!Next, Promise!promised, Promise!TakeOver,
     Promise!Settle, Promise!GiveBack, Promise!Quit, Phase
<1>15. CASE Settle
  <2>1. main = "settle" /\ main' = "leave" /\ flag' = flag /\ verdict \in Verdicts
    BY <1>15 DEF Settle, Inv, VerdictsSound, Judged, TypeOK
  <2>2. "server" \in holds' <=> "server" \in holds
    BY <1>15 DEF Settle
  <2>3. record' = record \/ (~flag.external /\ record' = verdict)
    BY <1>15 DEF Settle
  <2>. QED  BY <2>1, <2>2, <2>3 DEF Promise!Next, Promise!Settle, Phase
<1>16. CASE LeaveMsg
  BY <1>16 DEF LeaveMsg, Leave, Promise!Next, Promise!promised, Promise!TakeOver,
     Promise!Settle, Promise!GiveBack, Promise!Quit, Phase
<1>17. CASE LeaveTask
  BY <1>17 DEF LeaveTask, Leave, Promise!Next, Promise!promised, Promise!TakeOver,
     Promise!Settle, Promise!GiveBack, Promise!Quit, Phase
<1>18. CASE LeaveExec
  BY <1>18 DEF LeaveExec, Leave, Promise!Next, Promise!promised, Promise!TakeOver,
     Promise!Settle, Promise!GiveBack, Promise!Quit, Phase
<1>19. CASE LeaveAgent
  BY <1>19 DEF LeaveAgent, Leave, Promise!Next, Promise!promised, Promise!TakeOver,
     Promise!Settle, Promise!GiveBack, Promise!Quit, Phase
<1>20. CASE LeaveRead
  BY <1>20 DEF LeaveRead, Leave, Promise!Next, Promise!promised, Promise!TakeOver,
     Promise!Settle, Promise!GiveBack, Promise!Quit, Phase
<1>21. CASE Answer
  BY <1>21 DEF Answer, Promise!Next, Promise!promised, Promise!TakeOver, Promise!Settle,
     Promise!GiveBack, Promise!Quit, Phase
<1>22. CASE Release
  BY <1>22 DEF Release, Promise!Next, Promise!promised, Promise!TakeOver,
     Promise!Settle, Promise!GiveBack, Promise!Quit, Phase
<1>23. CASE DogPoll
  BY <1>23 DEF DogPoll, Changed, Unchanged, Promise!Next, Promise!promised,
     Promise!TakeOver, Promise!Settle, Promise!GiveBack, Promise!Quit, Phase
<1>24. CASE DogCheck
  BY <1>24 DEF DogCheck, CheckOutput, Promise!Next, Promise!promised, Promise!TakeOver,
     Promise!Settle, Promise!GiveBack, Promise!Quit, Phase
<1>25. CASE DogReport
  BY <1>25 DEF DogReport, Reported, Silences, Promise!Next, Promise!promised,
     Promise!TakeOver, Promise!Settle, Promise!GiveBack, Promise!Quit, Phase
<1>26. CASE DogFlag
  BY <1>26 DEF DogFlag, Promise!Next, Promise!promised, Promise!TakeOver,
     Promise!Settle, Promise!GiveBack, Promise!Quit, Phase
<1>27. CASE DogKill
  BY <1>27 DEF DogKill, TerminateProcess, Promise!Next, Promise!promised,
     Promise!TakeOver, Promise!Settle, Promise!GiveBack, Promise!Quit, Phase
<1>28. CASE Ends
  BY <1>28 DEF Ends, Promise!Next, Promise!promised, Promise!TakeOver, Promise!Settle,
     Promise!GiveBack, Promise!Quit, Phase
<1>29. CASE \E c \in Chunks : Says(c)
  BY <1>29 DEF Says, Promise!Next, Promise!promised, Promise!TakeOver, Promise!Settle,
     Promise!GiveBack, Promise!Quit, Phase
<1>30. CASE Signal
  <2>1. flag \in Flags
    BY DEF Inv, TypeOK
  <2>2. flag'.external = TRUE
    BY <1>30, <2>1 DEF Signal, Flags
  <2>. QED  BY <1>30, <2>2 DEF Signal, Promise!Next, Promise!TakeOver, Phase
<1>31. CASE SignalLate
  <2>1. flag \in Flags
    BY DEF Inv, TypeOK
  <2>2. flag'.external = TRUE
    BY <1>31, <2>1 DEF SignalLate, Flags
  <2>. QED  BY <1>31, <2>2 DEF SignalLate, Promise!Next, Promise!Quit, Phase
<1>32. CASE Tick
  BY <1>32 DEF Tick, Promise!Next, Promise!promised, Promise!TakeOver, Promise!Settle,
     Promise!GiveBack, Promise!Quit, Phase
<1>33. CASE UNCHANGED vars
  BY <1>33 DEF vars, Promise!Next, Promise!promised, Promise!TakeOver, Promise!Settle,
     Promise!GiveBack, Promise!Quit, Phase
<1>. QED
  BY <1>1, <1>2, <1>3, <1>4, <1>5, <1>6, <1>7, <1>8, <1>9, <1>10, <1>11, <1>12, <1>13,
     <1>14, <1>15, <1>16, <1>17, <1>18, <1>19, <1>20, <1>21, <1>22, <1>23, <1>24, <1>25,
     <1>26, <1>27, <1>28, <1>29, <1>30, <1>31, <1>32, <1>33
  DEF Next, MainStep, DogStep, ChildStep

(* A dispatch, whatever its threads do, keeps the promise the rest of the   *)
(* system relies on.                                                        *)
THEOREM PromiseIsKept == Spec => KeepsPromise
<1>1. Init => Promise!Init
  BY DEF Init, Promise!Init, Phase
<1>2. Inv /\ [Next]_vars => [Promise!Next]_(Promise!promised)
  BY StepsPromise
<1>. QED  BY <1>1, <1>2, InvHolds, PTL DEF Spec, KeepsPromise, Promise!Spec

=============================================================================
