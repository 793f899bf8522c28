---------------------------- MODULE MCTurnTaking ----------------------------
(* Instances of TurnTaking: conversations that dwell on one thing each.      *)
EXTENDS TurnTaking, TLC

OrderValue == <<"r1", "r2", "r3">>

Nothing == [k \in {"turn", "barge", "frame", "text", "call", "command", "fault", "stop"} |-> 0]
\* Frames in every place when the user speaks; two answers, the second one asked
\* for while the first is spoken; tool calls of two answers; an interrupt command;
\* a session that is stopped, or fails, anywhere.
Audio == ("turn" :> 1) @@ ("barge" :> 1) @@ ("frame" :> 3) @@ Nothing
History == ("turn" :> 2) @@ ("barge" :> 1) @@ ("text" :> 2) @@ Nothing
ToolCalls == ("turn" :> 2) @@ ("call" :> 2) @@ Nothing
Commands == ("turn" :> 1) @@ ("text" :> 1) @@ ("command" :> 1) @@ ("fault" :> 1) @@ Nothing
Stopped == ("turn" :> 1) @@ ("barge" :> 1) @@ ("call" :> 1) @@ ("stop" :> 1) @@ Nothing
Failing == ("turn" :> 1) @@ ("barge" :> 1) @@ ("frame" :> 1) @@ ("fault" :> 1) @@ Nothing
BudgetsValue == {Audio, History, ToolCalls, Commands, Stopped, Failing}
=============================================================================
