--------------------------- MODULE MCAgentRuntime ---------------------------
(* An answered event handled by both workers and the terminal one by the     *)
(* second: the other worker's attachment is under way or done by then.       *)
EXTENDS AgentRuntime, TLC

CONSTANTS w1, w2, a1, a2, t1
DeliveriesValue == (a1 :> [event |-> "answered", worker |-> w1])
                   @@ (a2 :> [event |-> "answered", worker |-> w2])
                   @@ (t1 :> [event |-> "terminal", worker |-> w2])
SidsValue == {1, 2}
=============================================================================
