----------------------------- MODULE CallStore -----------------------------
(***************************************************************************)
(* The durable call rows and the outbox rows written with them.            *)
(*                                                                         *)
(* telephony/calls never writes a call's state unconditionally: every      *)
(* transition is one UPDATE ... WHERE state IN (...) that commits together *)
(* with one outbox event (Repository.mutate).  This module is that table   *)
(* of guards and effects.  Its specification, StoreSpec, lets any client   *)
(* issue any statement at any time: it is what the repository promises     *)
(* whoever calls it, and the protocol modules that extend this one         *)
(* implement it.                                                           *)
(***************************************************************************)
EXTENDS Naturals

CONSTANTS
    Calls,     \* call ids
    Trunks,    \* trunk ids
    NoTrunk,   \* NULL trunk_id
    Dialogs    \* SIP Call-IDs

ASSUME StoreAssumption ==
    /\ Calls # {} /\ NoTrunk \notin Trunks
    /\ Dialogs # {} /\ Dialogs \subseteq Nat \ {0}

VARIABLES
    row,       \* calls table
    emitted    \* outbox rows written for a call, counted by event type

storeVars == <<row, emitted>>

\* calls.state (chk_calls_state) and its terminal part (isTerminalState).
CallStates == {"initiating", "ringing", "answered", "active",
               "completed", "failed", "cancelled"}
TerminalStates == {"completed", "failed", "cancelled"}
MediaStates == {"active", "held"}

Directions == {"outbound", "inbound"}

\* LifecycleEventType.
TerminalEvents == {"completed", "failed", "cancelled"}
ProgressEvents == {"initiated", "ringing", "answered", "active", "held", "resumed"}
LifecycleEvents == TerminalEvents \cup ProgressEvents

IsTerminalLifecycle(e) == e \in TerminalEvents

\* The states each UPDATE accepts.  MarkCallFailed and MarkCallCompleted accept
\* every non-terminal state, MarkCallCancelled only an unanswered call.
MarkCallRinging == {"initiating"}
MarkCallAnswered == {"initiating", "ringing"}
MarkCallActive == {"answered", "ringing"}
MarkCallHeld == {"answered", "active"}
MarkCallResumed == {"answered", "active"}
MarkCallCompleted == CallStates \ TerminalStates
MarkCallFailed == CallStates \ TerminalStates
MarkCallCancelled == {"initiating", "ringing"}

MarkableFrom(e) ==
    CASE e = "ringing"   -> MarkCallRinging
      [] e = "answered"  -> MarkCallAnswered
      [] e = "active"    -> MarkCallActive
      [] e = "held"      -> MarkCallHeld
      [] e = "resumed"   -> MarkCallResumed
      [] e = "completed" -> MarkCallCompleted
      [] e = "failed"    -> MarkCallFailed
      [] e = "cancelled" -> MarkCallCancelled
      [] OTHER           -> {}

\* Mutants: an UPDATE that only checks that the call exists; one that completes
\* active calls only.
CanMarkAnyState(e, r) == r.state # "none"
CanMarkActiveOnly(e, r) ==
    IF e = "completed" THEN r.state = "active" ELSE r.state \in MarkableFrom(e)

\* The WHERE clause of MarkCall<e>.
CanMark(e, r) ==
    /\ r.state \in MarkableFrom(e)
    /\ e = "held" => r.media = "active"
    /\ e = "resumed" => r.media = "held"

\* The SET clause of MarkCall<e>: hold and resume touch media_state only.
Marked(e, r) ==
    CASE e = "held"     -> [r EXCEPT !.media = "held"]
      [] e = "resumed"  -> [r EXCEPT !.media = "active"]
      [] e = "answered" -> [r EXCEPT !.state = "answered", !.answered = TRUE]
      [] OTHER          -> [r EXCEPT !.state = e]

NoDialog == 0
NoRow == [state |-> "none", direction |-> "outbound", media |-> "active",
          answered |-> FALSE, trunk |-> NoTrunk, sip |-> NoDialog]
Rows == [state : CallStates \cup {"none"}, direction : Directions, media : MediaStates,
         answered : BOOLEAN, trunk : Trunks \cup {NoTrunk}, sip : Dialogs \cup {NoDialog}]

StoreInit ==
    /\ row = [c \in Calls |-> NoRow]
    /\ emitted = [c \in Calls |-> [e \in LifecycleEvents |-> 0]]

\* The outbox insert of Repository.mutate, in the row's transaction.
Emit(c, e) == emitted' = [emitted EXCEPT ![c][e] = @ + 1]

\* CreateCall through Repository.Create ("call.initiated").
InsertOutbound(c) ==
    /\ row[c].state = "none"
    /\ row' = [row EXCEPT ![c] = [NoRow EXCEPT !.state = "initiating"]]
    /\ Emit(c, "initiated")

\* CreateCall through Repository.CreateInbound ("call.ringing").
InsertInbound(c, k) ==
    /\ row[c].state = "none"
    /\ row' = [row EXCEPT ![c] =
          [NoRow EXCEPT !.state = "ringing", !.direction = "inbound", !.sip = k]]
    /\ Emit(c, "ringing")

SetRouteAttribution(c, t) ==
    /\ row[c].state # "none"
    /\ row' = [row EXCEPT ![c].trunk = t]
    /\ UNCHANGED emitted

\* Mutant: the dialog column is overwritten.
OverwriteSIP(c, k) ==
    /\ row[c].direction = "outbound" /\ row[c].state # "none"
    /\ row' = [row EXCEPT ![c].sip = k]
    /\ UNCHANGED emitted

\* Only NULL or the same dialog may be written.
SetOutboundSIP(c, k) ==
    /\ row[c].direction = "outbound" /\ row[c].state # "none"
    /\ row[c].sip \in {NoDialog, k}
    /\ row' = [row EXCEPT ![c].sip = k]
    /\ UNCHANGED emitted

\* Repository.Mark<e>: the guarded UPDATE and its event.
Mark(c, e) ==
    /\ CanMark(e, row[c])
    /\ row' = [row EXCEPT ![c] = Marked(e, @)]
    /\ Emit(c, e)

StoreNext ==
    \E c \in Calls :
        \/ InsertOutbound(c)
        \/ \E k \in Dialogs : InsertInbound(c, k) \/ SetOutboundSIP(c, k)
        \/ \E t \in Trunks : SetRouteAttribution(c, t)
        \/ \E e \in LifecycleEvents : Mark(c, e)

StoreSpec == StoreInit /\ [][StoreNext]_storeVars
-----------------------------------------------------------------------------
StoreTypeOK ==
    /\ row \in [Calls -> Rows]
    /\ emitted \in [Calls -> [LifecycleEvents -> Nat]]

Count(b) == IF b THEN 1 ELSE 0

\* The events n of a call are the history of its row r: each milestone at most
\* once, one terminal event and only the one the row ended in, and hold events
\* that alternate in step with media_state.
EventsTell(r, n) ==
    /\ n["initiated"] = Count(r.state # "none" /\ r.direction = "outbound")
    /\ n["ringing"] <= Count(r.state \notin {"none", "initiating"})
    /\ r.direction = "inbound" => r.state \notin {"none", "initiating"} /\ n["ringing"] = 1
    /\ n["answered"] = Count(r.answered)
    /\ n["held"] = n["resumed"] + Count(r.media = "held")
    /\ \A e \in TerminalEvents : n[e] = Count(r.state = e)
    /\ r.answered => r.state \in {"answered", "active", "completed", "failed"}

\* Repository.mutate: "Failed or replayed lifecycle transitions do not emit
\* duplicate events."  However the handlers, the request and their retries
\* interleave, the outbox of every call tells exactly its row's history.
EventsMatchRow == \A c \in Calls : EventsTell(row[c], emitted[c])

\* SetOutboundCallSIPCallID: "a different Call-ID must never overwrite a
\* previously attributed dialog"; and no step leaves a terminal state or
\* reopens an unanswered call that was already answered.
RowMovesForward ==
    [][\A c \in Calls :
          /\ row[c].sip # NoDialog => row'[c].sip = row[c].sip
          /\ row[c].state \in TerminalStates => row'[c].state = row[c].state
          /\ row[c].answered => row'[c].answered
                /\ row'[c].state \notin {"initiating", "ringing", "cancelled"}]_storeVars
=============================================================================
