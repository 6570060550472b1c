------------------------------ MODULE MC_Server ------------------------------
(* Instances of Server for TLC. *)
EXTENDS Server, TLC

CONSTANTS c1, c2

SetLine == [length |-> 2, exit |-> FALSE]
ExitLine == [length |-> 2, exit |-> TRUE]

MCClients == {c1, c2}
MCScript == (c1 :> <<SetLine, SetLine>>) @@ (c2 :> <<ExitLine>>)
MCTwoLines == (c1 :> <<SetLine, SetLine>>) @@ (c2 :> <<SetLine, ExitLine>>)

\* Careful clients; clients who connect any time; who leave any time; who do not
\* wait for the reply.
MCHabits == {{}, {"follows"}, {"crowds", "resets"}, {"leaves", "resets"}, {"pipelines", "crowds"}}
MCFollows == {{"follows"}}
=============================================================================
