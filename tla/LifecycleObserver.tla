------------------------- MODULE LifecycleObserver -------------------------
(***************************************************************************)
(* Service.ObserveLifecycle: what a FreeSWITCH event does to a call.       *)
(*                                                                         *)
(* The ESL client starts one goroutine per event, so the handlers of one   *)
(* call's events interleave and overtake each other.  A handler makes up   *)
(* to five database and Redis calls, each a step of its own, and decides   *)
(* from a snapshot of the row it read before.                              *)
(***************************************************************************)
EXTENDS CallAdmission

CONSTANT Tasks   \* bound: event goroutines in flight

VARIABLE task    \* the goroutines of dispatched ESL events

Snapshots == [state : CallStates \cup {"none"}, media : MediaStates,
              trunk : Trunks \cup {NoTrunk}]

TaskPCs == {"idle", "bind", "read", "sip", "refresh", "apply", "delete", "release"}
NoSnap == [state |-> "initiating", media |-> "active", trunk |-> NoTrunk]
IdleTask == [pc |-> "idle", call |-> CHOOSE c \in Calls : TRUE,
             chan |-> CHOOSE k \in Dialogs : TRUE, type |-> "initiated", snap |-> NoSnap]
TaskRecs == [pc : TaskPCs, call : Calls, chan : Dialogs,
             type : LifecycleEvents, snap : Snapshots]

ObserverInit == task = [t \in Tasks |-> IdleTask]

\* client.dispatchEvent; ObserveLifecycle begins with the channel binding
\* unless the event is terminal.  An event that finds no ESL connection is gone.
Dispatch(c, i, e) ==
    \/ \E h \in Tasks :
          /\ task[h].pc = "idle"
          /\ task' = [task EXCEPT ![h] =
                [pc |-> IF IsTerminalLifecycle(e) THEN "read" ELSE "bind",
                 call |-> c, chan |-> i, type |-> e, snap |-> NoSnap]]
    \/ MayFail("event") /\ UNCHANGED task

TaskTo(h, pc) == task' = [task EXCEPT ![h].pc = pc]
TaskEnds(h) == task' = [task EXCEPT ![h] = IdleTask]

\* An operation fails and the handler returns its error.
TaskFails(h, op) == MayFail(op) /\ TaskEnds(h)

\* channels.Bind, before the call row is looked at.
TaskBind(h) ==
    /\ task[h].pc = "bind"
    /\ \/ TaskTo(h, "read") /\ binding' = Bound(task[h].call, task[h].chan)
       \/ TaskFails(h, "bind")
          /\ binding' \in {binding, Bound(task[h].call, task[h].chan)}
    /\ UNCHANGED <<row, emitted, leases>>

\* repo.GetLifecycleSnapshot.  The row is there: an event carries the id of a
\* call that was created.
TaskRead(h) ==
    LET r == row[task[h].call] IN
    /\ task[h].pc = "read"
    /\ \/ task' = [task EXCEPT ![h].pc = "sip",
                      ![h].snap = [state |-> r.state, media |-> r.media, trunk |-> r.trunk]]
       \/ TaskFails(h, "read")
    /\ UNCHANGED <<row, emitted, leases, binding>>

\* repo.BindOutboundSIPCallID: a dialog other than the row's ends the handler.
\* An inbound row has its dialog, and CHANNEL_CREATE carries none yet.
TaskSIP(h) ==
    LET c == task[h].call
        k == task[h].chan
        skip == row[c].direction = "inbound" \/ task[h].type = "initiated"
        next == IF ~IsTerminalLifecycle(task[h].type) /\ task[h].snap.trunk # NoTrunk
                THEN "refresh" ELSE "apply"
    IN
    /\ task[h].pc = "sip"
    /\ \/ skip /\ UNCHANGED storeVars /\ TaskTo(h, next)
       \/ ~skip /\ SetOutboundSIP(c, k) /\ (TaskTo(h, next) \/ TaskFails(h, "sip"))
       \/ ~skip /\ row[c].sip \notin {NoDialog, k} /\ UNCHANGED storeVars /\ TaskEnds(h)
       \/ ~skip /\ UNCHANGED storeVars /\ TaskFails(h, "sip")
    /\ UNCHANGED <<leases, binding>>

\* admission.Refresh, from the trunk of the snapshot.
TaskRefresh(h) ==
    LET Renewed == Leased(task[h].snap.trunk, CallLease(task[h].call)) IN
    /\ task[h].pc = "refresh"
    /\ \/ TaskTo(h, "apply") /\ leases' = Renewed
       \/ TaskFails(h, "refresh") /\ leases' \in {leases, Renewed}
    /\ UNCHANGED <<row, emitted, binding>>

\* The decision taken from the snapshot, before the UPDATE is attempted.
LifecycleAlreadyApplied(snap, e) ==
    CASE e = "initiated" -> TRUE
      [] e = "ringing"   -> snap.state # "initiating"
      [] e = "answered"  -> snap.state \in {"answered", "active"} \cup TerminalStates
      [] e = "active"    -> snap.state \in {"active"} \cup TerminalStates
      [] e = "held"      -> snap.media = "held" \/ snap.state \in TerminalStates
      [] e = "resumed"   -> snap.media = "active" \/ snap.state \in TerminalStates
      [] OTHER           -> snap.state \in TerminalStates

\* The stale-snapshot test, then the guarded UPDATE with its outbox row.  A
\* transition the row no longer allows is an error and skips the cleanup, and
\* so does a commit whose outcome was lost.
TaskApply(h) ==
    LET c == task[h].call
        e == task[h].type
        applied == LifecycleAlreadyApplied(task[h].snap, e)
        Cleanup == IF IsTerminalLifecycle(e) THEN TaskTo(h, "delete") ELSE TaskEnds(h)
    IN
    /\ task[h].pc = "apply"
    /\ \/ applied /\ UNCHANGED storeVars /\ Cleanup
       \/ ~applied /\ Mark(c, e) /\ (Cleanup \/ TaskFails(h, "mark"))
       \/ ~applied /\ ~CanMark(e, row[c]) /\ UNCHANGED storeVars /\ TaskEnds(h)
       \/ ~applied /\ UNCHANGED storeVars /\ TaskFails(h, "mark")
    /\ UNCHANGED <<leases, binding>>

\* channels.Delete and admission.Release of a terminal event; errors ignored.
TaskDelete(h) ==
    /\ task[h].pc = "delete"
    /\ \/ binding' = Unbound(task[h].call)
       \/ MayFail("delete") /\ UNCHANGED binding
    /\ IF task[h].snap.trunk # NoTrunk THEN TaskTo(h, "release") ELSE TaskEnds(h)
    /\ UNCHANGED <<row, emitted, leases>>

TaskRelease(h) ==
    /\ task[h].pc = "release"
    /\ \/ leases' = Released(task[h].snap.trunk, CallLease(task[h].call))
       \/ MayFail("release") /\ UNCHANGED leases
    /\ TaskEnds(h)
    /\ UNCHANGED <<row, emitted, binding>>

ObserveLifecycle(h) ==
    /\ \/ TaskBind(h) \/ TaskRead(h) \/ TaskSIP(h) \/ TaskRefresh(h)
       \/ TaskApply(h) \/ TaskDelete(h) \/ TaskRelease(h)
    /\ UNCHANGED recon

\* lifecycleEventType of CHANNEL_HANGUP_COMPLETE: completed if the channel was
\* answered; otherwise the hangup cause decides.
HangupEvents(st) ==
    IF st \in {"answered", "held"} THEN {"completed"} ELSE {"cancelled", "failed"}

Up == {"created", "progress", "answered", "held"}

ObserverTypeOK == task \in [Tasks -> TaskRecs]
=============================================================================
