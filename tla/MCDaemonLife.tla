---------------------------- MODULE MCDaemonLife ----------------------------
(* DaemonLife with a few processes, for TLC.                                *)
EXTENDS DaemonLife

CONSTANTS p1, p2, p3, u1, u2

ThreeDaemons == {p1, p2, p3}
TwoUsers == {u1, u2}
AllCommands == {"tick", "start", "stop", "restart", "kill"}
=============================================================================
