--------------------------- MODULE MCDispatchRun ---------------------------
(* DispatchRun with every kind of dispatch and short clocks, for TLC.       *)
EXTENDS DispatchRun

Either == {TRUE, FALSE}
Guard == {TRUE}
MsgOnly == {"msg"}
=============================================================================
