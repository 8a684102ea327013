-------------------------- MODULE DispatchPromise --------------------------
(* What a dispatch promises to the rest of the system: it records at most   *)
(* one verdict, none once somebody else has taken its completion over, and  *)
(* gives its server back at most once and never before it has settled.      *)
CONSTANTS Verdicts, NoVerdict

VARIABLES
    phase,     \* "running", "settled" or "over"
    record,    \* the verdict it has recorded
    aborted,   \* whether its completion was taken over
    held       \* whether it holds its server

promised == <<phase, record, aborted, held>>

Init == phase = "running" /\ record = NoVerdict /\ aborted = FALSE /\ held = TRUE

TakeOver == phase # "over" /\ aborted' = TRUE /\ UNCHANGED <<phase, record, held>>

Settle ==
    /\ phase = "running" /\ phase' = "settled"
    /\ \/ ~aborted /\ \E v \in Verdicts : record' = v
       \/ UNCHANGED record
    /\ UNCHANGED <<aborted, held>>

GiveBack ==
    /\ phase = "settled" /\ phase' = "over"
    /\ held /\ held' = FALSE
    /\ UNCHANGED <<record, aborted>>

(* The process ends with its server: the daemon's heal gets it back.        *)
Quit == phase # "over" /\ phase' = "over" /\ aborted' \in {aborted, TRUE} /\ UNCHANGED <<record, held>>

Next == TakeOver \/ Settle \/ GiveBack \/ Quit

Spec == Init /\ [][Next]_promised
=============================================================================
