--------------------------- MODULE MCInboundCall ---------------------------
(***************************************************************************)
(* Three instances of InboundCall in one model; the frozen variable mode   *)
(* says which one a behaviour belongs to.                                  *)
(*   race    two workers admit the channel of c1 while its events come in  *)
(*   faults  one worker does, and every operation may fail or crash        *)
(*   limit   one worker admits two channels on a trunk with one slot       *)
(***************************************************************************)
EXTENDS InboundCall

CONSTANTS t1, c2, w1, h1

OneTrunk == [c \in Calls |-> t1]
AllOps == {"crash", "event", "lookup", "route", "create", "attribute", "acquire",
           "rebind", "bind", "tag", "hangup", "mark", "read", "sip", "refresh", "delete", "release"}

VARIABLE mode
mcVars == <<vars, mode>>

Faults == INSTANCE InboundCall WITH Workers <- {w1}, FaultyOps <- AllOps
Limit == INSTANCE InboundCall WITH Workers <- {w1}, Tasks <- {h1}

MCInit ==
    \/ mode = "race" /\ Init
    \/ mode = "faults" /\ Faults!Init
    \/ mode = "limit" /\ Limit!Init

\* The second channel only comes in where the limit is in question.
OneChannel == chan'[c2].st = "none"
MCNext ==
    /\ UNCHANGED mode
    /\ \/ mode = "race" /\ Next /\ OneChannel
       \/ mode = "faults" /\ Faults!Next /\ OneChannel
       \/ mode = "limit" /\ Limit!Next

\* The fairness of InboundCall, where nothing fails.
MCFairness ==
    /\ \A c \in Calls, w \in Workers : WF_mcVars(mode = "race" /\ AdmitInbound(c, w) /\ UNCHANGED mode)
    /\ \A h \in Tasks : WF_mcVars(mode = "race" /\ Observe(h) /\ UNCHANGED mode)
    /\ WF_mcVars(mode = "race" /\ Reconciliation /\ UNCHANGED mode)

MCSpec == MCInit /\ [][MCNext]_mcVars /\ MCFairness

\* A call whose channel is gone reaches a terminal row, whichever worker had won
\* the unique index: no inbound row is left ringing for ever, with its lease
\* renewed by every reconciliation.
GoneReachesTerminal ==
    \A c \in Calls : (mode = "race" /\ Gone(c)) ~> row[c].state \in TerminalStates
=============================================================================
