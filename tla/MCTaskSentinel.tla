--------------------------- MODULE MCTaskSentinel ---------------------------
(* TaskSentinel on one or two tasks, for TLC.                               *)
EXTENDS TaskSentinel

CONSTANTS t1, t2, c1, c2, r1, r2

OneTask == {t1}
TwoTasks == {t1, t2}
OneCloser == {c1}
TwoClosers == {c1, c2}
OneReaper == {r1}
TwoReapers == {r1, r2}
=============================================================================
