--------------------------- MODULE MC_ConsoleTool ---------------------------
(* Instances of ConsoleTool for TLC. *)
EXTENDS ConsoleTool

MCOneMaster == [a \in Axles |-> 1]
MCTwoMasters == [a \in Axles |-> IF a = CHOOSE b \in Axles : TRUE THEN 1 ELSE 2]

\* A user who keeps to the order, and one who sets values too early, restarts
\* auto start on old samples and quits under a running task.
MCUsers == {{}, {"set unfilled", "start over stale", "quit running"}}
MCCareful == {{}}
MCOrders == {contrlword_shutdown({})}
MCBothWays == {contrlword_shutdown({}), contrlword_enable_operation({})}
=============================================================================
