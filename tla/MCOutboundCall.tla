--------------------------- MODULE MCOutboundCall ---------------------------
(***************************************************************************)
(* Two instances of OutboundCall in one model; the frozen variable         *)
(* overtaking says which one a behaviour belongs to.  In the first a call  *)
(* fails over between two routes and every operation may fail.  In the     *)
(* second two event handlers overtake each other on one route, with holds, *)
(* and only the steps of Create fail.                                      *)
(***************************************************************************)
EXTENDS OutboundCall

CONSTANTS t1, t2, h1, h2

TwoRoutes == <<t1, t2>>
CreateOps == {"create", "route", "attribute", "acquire", "originate", "bind"}
AllOps == CreateOps \cup {"request", "event", "hangup", "mark", "read", "sip", "refresh",
                          "delete", "release"}

VARIABLE overtaking
mcVars == <<vars, overtaking>>

Overtaking == INSTANCE OutboundCall
    WITH Plan <- <<t1>>, Tasks <- {h1, h2}, MaxHolds <- 1, FaultyOps <- CreateOps

MCInit == overtaking \in BOOLEAN /\ IF overtaking THEN Overtaking!Init ELSE Init
MCNext ==
    /\ UNCHANGED overtaking
    /\ \/ ~overtaking /\ Next
       \/ overtaking /\ Overtaking!Next

\* The fairness of OutboundCall, where the events of a call are not lost.
MCFairness ==
    /\ \A c \in Calls :
          WF_mcVars(overtaking /\ Overtaking!CreateStep(c) /\ creator[c].pc # "idle" /\ UNCHANGED overtaking)
    /\ \A h \in {h1, h2} : WF_mcVars(overtaking /\ Overtaking!Observe(h) /\ UNCHANGED overtaking)
    /\ WF_mcVars(overtaking /\ Overtaking!Reconciliation /\ UNCHANGED overtaking)

MCSpec == MCInit /\ [][MCNext]_mcVars /\ MCFairness

\* With working infrastructure a call whose channel has hung up reaches a
\* terminal row, whatever order its events were handled in.
HangupReachesTerminal ==
    \A c \in Calls : (overtaking /\ HungUp(c)) ~> row[c].state \in TerminalStates
=============================================================================
