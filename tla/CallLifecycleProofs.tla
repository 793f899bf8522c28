------------------------ MODULE CallLifecycleProofs -------------------------
(***************************************************************************)
(* What the call repository guarantees its clients, for any set of calls   *)
(* (theorems of StoreSpec), and what the inbound and the outbound proofs   *)
(* need of the event handlers and of the reconciliation: they keep the     *)
(* types of the state they share, and each of their steps is one statement *)
(* of the call store or none.                                              *)
(***************************************************************************)
EXTENDS LifecycleObserver, TLAPS

\* The states each statement accepts are sets of literals: always expanded.
USE DEF MarkCallRinging, MarkCallAnswered, MarkCallActive, MarkCallHeld, MarkCallResumed,
        MarkCallCompleted, MarkCallFailed, MarkCallCancelled

LEMMA NoRowType == NoRow \in Rows
  BY DEF NoRow, Rows, Directions, MediaStates, NoDialog

\* A guarded transition keeps the row a row.
LEMMA MarkedType ==
    ASSUME NEW r \in Rows, NEW e \in LifecycleEvents, CanMark(e, r)
    PROVE  Marked(e, r) \in Rows
  BY DEF Rows, LifecycleEvents, ProgressEvents, TerminalEvents, CanMark, Marked,
     MarkableFrom, CallStates, TerminalStates, MediaStates

LEMMA EmitType ==
    ASSUME StoreTypeOK, NEW c \in Calls, NEW e \in LifecycleEvents, Emit(c, e)
    PROVE  /\ emitted' \in [Calls -> [LifecycleEvents -> Nat]]
           /\ emitted'[c] = [emitted[c] EXCEPT ![e] = @ + 1]
           /\ \A d \in Calls \ {c} : emitted'[d] = emitted[d]
<1>1. emitted[c] \in [LifecycleEvents -> Nat]
  BY DEF StoreTypeOK
<1>2. [emitted[c] EXCEPT ![e] = @ + 1] \in [LifecycleEvents -> Nat]
  BY <1>1
<1>3. QED BY <1>2 DEF StoreTypeOK, Emit

\* What one statement does to the row and the events of one call.
RowStep(r, n, s, m) ==
    \/ s = r /\ m = n
    \/ /\ r.state = "none" /\ s = [NoRow EXCEPT !.state = "initiating"]
       /\ m = [n EXCEPT !["initiated"] = @ + 1]
    \/ \E k \in Dialogs :
         /\ r.state = "none"
         /\ s = [NoRow EXCEPT !.state = "ringing", !.direction = "inbound", !.sip = k]
         /\ m = [n EXCEPT !["ringing"] = @ + 1]
    \/ \E t \in Trunks : r.state # "none" /\ s = [r EXCEPT !.trunk = t] /\ m = n
    \/ \E k \in Dialogs : /\ r.sip \in {NoDialog, k} /\ r.state # "none"
                          /\ s = [r EXCEPT !.sip = k] /\ m = n
    \/ \E e \in LifecycleEvents :
         /\ CanMark(e, r) /\ s = Marked(e, r) /\ m = [n EXCEPT ![e] = @ + 1]

LEMMA StatementIsRowStep ==
    ASSUME StoreTypeOK, [StoreNext]_storeVars
    PROVE  /\ \A d \in Calls : RowStep(row[d], emitted[d], row'[d], emitted'[d])
           /\ row' \in [Calls -> Rows]
           /\ emitted' \in [Calls -> [LifecycleEvents -> Nat]]
<1> USE DEF StoreTypeOK
<1> DEFINE Goal == /\ \A d \in Calls : RowStep(row[d], emitted[d], row'[d], emitted'[d])
                   /\ row' \in [Calls -> Rows]
                   /\ emitted' \in [Calls -> [LifecycleEvents -> Nat]]
<1>1. ASSUME NEW c \in Calls, InsertOutbound(c) PROVE Goal
  <2> DEFINE new == [NoRow EXCEPT !.state = "initiating"]
  <2>1. new \in Rows
    BY NoRowType DEF Rows, CallStates
  <2>2. row' = [row EXCEPT ![c] = new] /\ Emit(c, "initiated") /\ row[c].state = "none"
    BY <1>1 DEF InsertOutbound
  <2>3. RowStep(row[c], emitted[c], row'[c], emitted'[c])
    BY <2>2, EmitType DEF RowStep, LifecycleEvents, ProgressEvents
  <2> HIDE DEF new
  <2> QED BY ZenonT(60), <2>1, <2>2, <2>3, EmitType DEF RowStep, LifecycleEvents, ProgressEvents
<1>2. ASSUME NEW c \in Calls, NEW k \in Dialogs, InsertInbound(c, k) PROVE Goal
  <2> DEFINE new == [NoRow EXCEPT !.state = "ringing", !.direction = "inbound", !.sip = k]
  <2>1. new \in Rows
    BY NoRowType DEF Rows, CallStates, Directions
  <2>2. row' = [row EXCEPT ![c] = new] /\ Emit(c, "ringing") /\ row[c].state = "none"
    BY <1>2 DEF InsertInbound
  <2>3. RowStep(row[c], emitted[c], row'[c], emitted'[c])
    BY <2>2, EmitType DEF RowStep, LifecycleEvents, ProgressEvents
  <2> HIDE DEF new
  <2> QED BY ZenonT(60), <2>1, <2>2, <2>3, EmitType DEF RowStep, LifecycleEvents, ProgressEvents
<1>3. ASSUME NEW c \in Calls, NEW k \in Dialogs, SetOutboundSIP(c, k) PROVE Goal
  <2>1. [row[c] EXCEPT !.sip = k] \in Rows
    BY DEF Rows
  <2> QED BY <1>3, <2>1 DEF SetOutboundSIP, RowStep
<1>4. ASSUME NEW c \in Calls, NEW t \in Trunks, SetRouteAttribution(c, t) PROVE Goal
  <2>1. [row[c] EXCEPT !.trunk = t] \in Rows
    BY DEF Rows
  <2> QED BY <1>4, <2>1 DEF SetRouteAttribution, RowStep
<1>5. ASSUME NEW c \in Calls, NEW e \in LifecycleEvents, Mark(c, e) PROVE Goal
  <2>1. CanMark(e, row[c]) /\ row' = [row EXCEPT ![c] = Marked(e, row[c])] /\ Emit(c, e)
    BY <1>5 DEF Mark
  <2>2. Marked(e, row[c]) \in Rows
    BY <2>1, MarkedType
  <2>3. RowStep(row[c], emitted[c], row'[c], emitted'[c])
    BY <2>1, EmitType DEF RowStep
  <2>4. ASSUME NEW d \in Calls \ {c}
        PROVE  RowStep(row[d], emitted[d], row'[d], emitted'[d])
    BY <2>1, EmitType DEF RowStep
  <2>5. row' \in [Calls -> Rows] /\ emitted' \in [Calls -> [LifecycleEvents -> Nat]]
    BY <2>1, <2>2, EmitType
  <2> QED BY <2>3, <2>4, <2>5
<1>6. CASE UNCHANGED storeVars
  BY <1>6 DEF storeVars, RowStep
<1>7. QED
  BY <1>1, <1>2, <1>3, <1>4, <1>5, <1>6 DEF StoreNext

\* The heart of the matter: each statement keeps the events the row's history.
LEMMA RowStepKeepsHistory ==
    ASSUME NEW r \in Rows, NEW n \in [LifecycleEvents -> Nat],
           NEW s \in Rows, NEW m \in [LifecycleEvents -> Nat],
           EventsTell(r, n), r.state = "none" => r = NoRow, RowStep(r, n, s, m)
    PROVE  EventsTell(s, m) /\ (s.state = "none" => s = NoRow)
<1> DEFINE Goal == EventsTell(s, m) /\ (s.state = "none" => s = NoRow)
<1> USE DEF EventsTell, Count
<1>1. CASE s = r /\ m = n
  BY <1>1
<1>2. CASE r.state = "none" /\ s = [NoRow EXCEPT !.state = "initiating"]
           /\ m = [n EXCEPT !["initiated"] = @ + 1]
  BY <1>2 DEF NoRow, LifecycleEvents, ProgressEvents, TerminalEvents, Rows
<1>3. ASSUME NEW k \in Dialogs, r.state = "none",
             s = [NoRow EXCEPT !.state = "ringing", !.direction = "inbound", !.sip = k],
             m = [n EXCEPT !["ringing"] = @ + 1]
      PROVE  Goal
  BY <1>3 DEF NoRow, LifecycleEvents, ProgressEvents, TerminalEvents, Rows
<1>4. ASSUME NEW t \in Trunks, r.state # "none", s = [r EXCEPT !.trunk = t], m = n
      PROVE  Goal
  BY <1>4 DEF Rows
<1>5. ASSUME NEW k \in Dialogs, r.state # "none", s = [r EXCEPT !.sip = k], m = n
      PROVE  Goal
  BY <1>5 DEF Rows
<1>6. ASSUME NEW e \in LifecycleEvents, CanMark(e, r), s = Marked(e, r),
             m = [n EXCEPT ![e] = @ + 1]
      PROVE  Goal
  <2> USE <1>6 DEF LifecycleEvents, ProgressEvents, TerminalEvents, Rows, CanMark,
          MarkableFrom, Marked, CallStates, TerminalStates
  <2>1. CASE e = "initiated"
    BY <2>1
  <2>2. CASE e = "ringing"
    BY <2>2
  <2>3. CASE e = "answered"
    <3>1. s = [r EXCEPT !.state = "answered", !.answered = TRUE]
      BY <2>3
    <3>2. /\ s.state = "answered" /\ s.answered = TRUE
          /\ s.media = r.media /\ s.direction = r.direction
      BY <3>1
    <3>3. r.state \in {"initiating", "ringing"} /\ r.answered = FALSE
      BY <2>3
    <3>4. /\ n["answered"] = 0 /\ m["answered"] = 1
          /\ \A x \in LifecycleEvents \ {"answered"} : m[x] = n[x]
      BY <2>3, <3>3
    <3> QED BY <3>2, <3>3, <3>4
  <2>4. CASE e = "active"
    BY <2>4
  <2>5. CASE e = "held"
    BY <2>5
  <2>6. CASE e = "resumed"
    BY <2>6
  <2>7. CASE e = "completed"
    BY <2>7
  <2>8. CASE e = "failed"
    BY <2>8
  <2>9. CASE e = "cancelled"
    BY <2>9
  <2> QED BY <2>1, <2>2, <2>3, <2>4, <2>5, <2>6, <2>7, <2>8, <2>9
<1>7. QED
  BY <1>1, <1>2, <1>3, <1>4, <1>5, <1>6 DEF RowStep

\* A call that does not exist yet has a blank row: EventsMatchRow alone does
\* not stop CreateCall from resurrecting old column values.
BlankUntilCreated == \A c \in Calls : row[c].state = "none" => row[c] = NoRow

StoreInv == StoreTypeOK /\ EventsMatchRow /\ BlankUntilCreated

LEMMA StoreInvInit ==
    ASSUME StoreInit PROVE StoreInv
<1>1. StoreTypeOK
  BY NoRowType DEF StoreInit, StoreTypeOK
<1>2. EventsMatchRow
  <2> DEFINE none == [e \in LifecycleEvents |-> 0]
  <2>1. EventsTell(NoRow, none)
    BY DEF EventsTell, NoRow, Count, LifecycleEvents, ProgressEvents, TerminalEvents
  <2>2. \A c \in Calls : row[c] = NoRow /\ emitted[c] = none
    BY DEF StoreInit
  <2> HIDE DEF none
  <2> QED BY <2>1, <2>2 DEF EventsMatchRow
<1>3. BlankUntilCreated
  BY DEF StoreInit, BlankUntilCreated
<1>4. QED
  BY <1>1, <1>2, <1>3 DEF StoreInv

LEMMA StoreInvStep ==
    ASSUME StoreInv, [StoreNext]_storeVars PROVE StoreInv'
<1>1. StoreTypeOK /\ StoreTypeOK'
  BY StatementIsRowStep DEF StoreInv, StoreTypeOK
<1>2. ASSUME NEW c \in Calls
      PROVE  /\ EventsTell(row'[c], emitted'[c])
             /\ row'[c].state = "none" => row'[c] = NoRow
  <2>1. /\ row[c] \in Rows /\ row'[c] \in Rows
        /\ emitted[c] \in [LifecycleEvents -> Nat]
        /\ emitted'[c] \in [LifecycleEvents -> Nat]
    BY <1>1 DEF StoreTypeOK
  <2>2. EventsTell(row[c], emitted[c]) /\ (row[c].state = "none" => row[c] = NoRow)
    BY DEF StoreInv, EventsMatchRow, BlankUntilCreated
  <2>3. RowStep(row[c], emitted[c], row'[c], emitted'[c])
    BY <1>1, StatementIsRowStep
  <2> QED BY <2>1, <2>2, <2>3, RowStepKeepsHistory
<1>3. QED
  BY <1>1, <1>2 DEF StoreInv, EventsMatchRow, BlankUntilCreated

\* Every statement keeps rows and event counts well typed.
THEOREM StoreTypeCorrect == StoreSpec => []StoreTypeOK
<1>1. StoreInv => StoreTypeOK
  BY DEF StoreInv
<1>2. QED
  BY <1>1, StoreInvInit, StoreInvStep, PTL DEF StoreSpec

\* Whatever statements the clients of the repository issue, in whatever order,
\* the outbox of each call is exactly the history of its row.
THEOREM StoreEventsMatchRow == StoreSpec => []EventsMatchRow
<1>1. StoreInv => EventsMatchRow
  BY DEF StoreInv
<1>2. QED
  BY <1>1, StoreInvInit, StoreInvStep, PTL DEF StoreSpec

\* No statement of the repository leaves a terminal state, un-answers a call or
\* rebinds its SIP dialog.
THEOREM StoreRowMovesForward == StoreSpec => RowMovesForward
<1> DEFINE Forward(r, s) ==
      /\ r.sip # NoDialog => s.sip = r.sip
      /\ r.state \in TerminalStates => s.state = r.state
      /\ r.answered => s.answered /\ s.state \notin {"initiating", "ringing", "cancelled"}
<1>1. ASSUME NEW r \in Rows, NEW n, NEW s \in Rows, NEW m, RowStep(r, n, s, m),
             r.answered => r.state \in {"answered", "active", "completed", "failed"},
             r.state = "none" => r = NoRow
      PROVE  Forward(r, s)
  <2>1. CASE s = r
    BY <1>1, <2>1 DEF Rows
  <2>2. CASE r.state = "none"
    BY <1>1, <2>2 DEF NoRow, TerminalStates
  <2>3. ASSUME NEW t \in Trunks, s = [r EXCEPT !.trunk = t] PROVE Forward(r, s)
    BY <1>1, <2>3 DEF Rows
  <2>4. ASSUME NEW k \in Dialogs, r.sip \in {NoDialog, k}, s = [r EXCEPT !.sip = k]
        PROVE  Forward(r, s)
    BY <1>1, <2>4 DEF Rows
  <2>5. ASSUME NEW e \in LifecycleEvents, CanMark(e, r), s = Marked(e, r)
        PROVE  Forward(r, s)
    BY <1>1, <2>5 DEF Rows, CanMark, Marked, MarkableFrom, CallStates,
       TerminalStates, LifecycleEvents, ProgressEvents, TerminalEvents
  <2>6. QED
    <3> HIDE DEF Forward
    <3> QED BY <1>1, <2>1, <2>2, <2>3, <2>4, <2>5 DEF RowStep
<1>2. ASSUME StoreInv, [StoreNext]_storeVars
      PROVE  [\A c \in Calls : Forward(row[c], row'[c])]_storeVars
  <2>1. ASSUME NEW c \in Calls PROVE Forward(row[c], row'[c])
    <3> HIDE DEF Forward
    <3>1. RowStep(row[c], emitted[c], row'[c], emitted'[c])
      BY <1>2, StatementIsRowStep DEF StoreInv
    <3>2. /\ row[c] \in Rows /\ row'[c] \in Rows
          /\ row[c].answered => row[c].state \in {"answered", "active", "completed", "failed"}
          /\ row[c].state = "none" => row[c] = NoRow
      BY <1>2, StatementIsRowStep
      DEF StoreInv, StoreTypeOK, EventsMatchRow, EventsTell, BlankUntilCreated
    <3> QED BY <1>1, <3>1, <3>2
  <2> QED BY <2>1
<1>3. QED
  BY <1>2, StoreInvInit, StoreInvStep, PTL DEF StoreSpec, RowMovesForward

-----------------------------------------------------------------------------
SharedTypeOK == StoreTypeOK /\ AdmissionTypeOK /\ ObserverTypeOK

\* The Redis operations keep lease sets lease sets.
LEMMA LeaseTypes ==
    ASSUME AdmissionTypeOK, NEW t \in Trunks, NEW c \in Calls
    PROVE  /\ CallLease(c) \in LeaseIds /\ ChannelLease(c) \in LeaseIds
           /\ \A m \in LeaseIds : /\ Leased(t, m) \in [Trunks -> SUBSET LeaseIds]
                                  /\ Released(t, m) \in [Trunks -> SUBSET LeaseIds]
           /\ Rebound(t, c) \in [Trunks -> SUBSET LeaseIds]
<1>1. CallLease(c) \in LeaseIds /\ ChannelLease(c) \in LeaseIds
  BY DEF CallLease, ChannelLease, LeaseIds
<1>2. leases \in [Trunks -> SUBSET LeaseIds]
  BY DEF AdmissionTypeOK
<1>3. ASSUME NEW m \in LeaseIds
      PROVE  /\ Leased(t, m) \in [Trunks -> SUBSET LeaseIds]
             /\ Released(t, m) \in [Trunks -> SUBSET LeaseIds]
  BY <1>2 DEF Leased, Released
<1>4. Rebound(t, c) \in [Trunks -> SUBSET LeaseIds]
  BY <1>1, <1>2 DEF Rebound
<1>5. QED
  BY <1>1, <1>3, <1>4

LEMMA BindingTypes ==
    ASSUME AdmissionTypeOK, NEW c \in Calls
    PROVE  /\ \A k \in ChannelIds : Bound(c, k) \in [Calls -> ChannelIds]
           /\ Unbound(c) \in [Calls -> ChannelIds]
  BY DEF AdmissionTypeOK, Bound, Unbound, ChannelIds, NoDialog

LEMMA IdleTaskType == IdleTask \in TaskRecs /\ NoSnap \in Snapshots
  BY StoreAssumption DEF IdleTask, TaskRecs, TaskPCs, LifecycleEvents, ProgressEvents,
     Snapshots, NoSnap, CallStates, MediaStates

LEMMA DispatchType ==
    ASSUME ObserverTypeOK, NEW c \in Calls, NEW i \in Dialogs, NEW e \in LifecycleEvents,
           Dispatch(c, i, e)
    PROVE  ObserverTypeOK'
<1> DEFINE new == [pc |-> IF IsTerminalLifecycle(e) THEN "read" ELSE "bind",
                   call |-> c, chan |-> i, type |-> e, snap |-> NoSnap]
<1>1. new \in TaskRecs
  BY IdleTaskType DEF TaskRecs, TaskPCs
<1>2. task \in [Tasks -> TaskRecs]
  BY DEF ObserverTypeOK
<1>3. CASE UNCHANGED task
  BY <1>2, <1>3 DEF ObserverTypeOK
<1>4. CASE \E h \in Tasks : task' = [task EXCEPT ![h] = new]
  <2> HIDE DEF new
  <2> QED BY <1>1, <1>2, <1>4 DEF ObserverTypeOK
<1>5. QED
  BY <1>3, <1>4 DEF Dispatch

LEMMA HangupEventType ==
    \A st : HangupEvents(st) \subseteq LifecycleEvents
  BY DEF HangupEvents, LifecycleEvents, TerminalEvents

\* What a handler's goroutine may become.
LEMMA TaskType ==
    ASSUME ObserverTypeOK, NEW h \in Tasks,
           TaskEnds(h) \/ \E pc \in TaskPCs : TaskTo(h, pc)
    PROVE  ObserverTypeOK'
<1>1. CASE TaskEnds(h)
  BY <1>1, IdleTaskType DEF TaskEnds, ObserverTypeOK
<1>2. ASSUME NEW pc \in TaskPCs, TaskTo(h, pc) PROVE ObserverTypeOK'
  <2>1. [task[h] EXCEPT !.pc = pc] \in TaskRecs
    BY DEF ObserverTypeOK, TaskRecs
  <2> QED BY <1>2, <2>1 DEF TaskTo, ObserverTypeOK
<1>3. QED BY <1>1, <1>2

LEMMA ObserveType ==
    ASSUME SharedTypeOK, NEW h \in Tasks, ObserveLifecycle(h)
    PROVE  AdmissionTypeOK' /\ ObserverTypeOK'
<1> USE DEF SharedTypeOK
<1>0. /\ task[h].call \in Calls /\ task[h].type \in LifecycleEvents
      /\ task[h].chan \in ChannelIds /\ task[h].snap \in Snapshots
  <2>1. task[h] \in TaskRecs
    BY DEF ObserverTypeOK
  <2> QED BY <2>1 DEF TaskRecs, ChannelIds
<1>1. CASE TaskBind(h)
  <2>1. ObserverTypeOK'
    BY <1>1, TaskType DEF TaskBind, TaskFails, TaskPCs
  <2>2. binding' \in [Calls -> ChannelIds]
    <3>1. Bound(task[h].call, task[h].chan) \in [Calls -> ChannelIds]
      BY <1>0, BindingTypes
    <3> QED BY <1>1, <3>1 DEF TaskBind, AdmissionTypeOK
  <2> QED BY <1>1, <2>1, <2>2 DEF ObserveLifecycle, TaskBind, AdmissionTypeOK
<1>2. CASE TaskRead(h)
  <2> DEFINE r == row[task[h].call]
             snap == [state |-> r.state, media |-> r.media, trunk |-> r.trunk]
  <2>1. snap \in Snapshots
    BY <1>0 DEF StoreTypeOK, Rows, Snapshots
  <2>2. AdmissionTypeOK'
    BY <1>2 DEF ObserveLifecycle, TaskRead, AdmissionTypeOK
  <2>3. CASE task' = [task EXCEPT ![h].pc = "sip", ![h].snap = snap]
    <3> HIDE DEF snap
    <3>1. [task[h] EXCEPT !.pc = "sip", !.snap = snap] \in TaskRecs
      BY <2>1 DEF ObserverTypeOK, TaskRecs, TaskPCs
    <3> QED BY <2>2, <2>3, <3>1 DEF ObserverTypeOK
  <2>4. CASE TaskFails(h, "read")
    BY <2>2, <2>4, TaskType DEF TaskFails
  <2> QED BY <1>2, <2>3, <2>4 DEF TaskRead
<1>3. CASE TaskSIP(h)
  <2>1. ObserverTypeOK'
    BY <1>3, TaskType DEF TaskSIP, TaskFails, TaskPCs
  <2> QED BY <1>3, <2>1 DEF ObserveLifecycle, TaskSIP, AdmissionTypeOK
<1>4. CASE TaskRefresh(h)
  <2>1. ObserverTypeOK'
    BY <1>4, TaskType DEF TaskRefresh, TaskFails, TaskPCs
  <2>2. leases' \in [Trunks -> SUBSET LeaseIds]
    <3>1. CASE task[h].snap.trunk \in Trunks
      BY <1>0, <1>4, <3>1, LeaseTypes DEF TaskRefresh, AdmissionTypeOK
    <3>2. CASE task[h].snap.trunk \notin Trunks
      BY <1>4, <3>2 DEF TaskRefresh, Leased, AdmissionTypeOK
    <3> QED BY <3>1, <3>2
  <2> QED BY <1>4, <2>1, <2>2 DEF ObserveLifecycle, TaskRefresh, AdmissionTypeOK
<1>5. CASE TaskApply(h)
  <2>1. ObserverTypeOK'
    BY <1>5, TaskType DEF TaskApply, TaskFails, TaskPCs
  <2> QED BY <1>5, <2>1 DEF ObserveLifecycle, TaskApply, AdmissionTypeOK
<1>6. CASE TaskDelete(h)
  <2>1. ObserverTypeOK'
    BY <1>6, TaskType DEF TaskDelete, TaskPCs
  <2>2. binding' \in [Calls -> ChannelIds]
    BY <1>0, <1>6, BindingTypes DEF TaskDelete, AdmissionTypeOK
  <2> QED BY <1>6, <2>1, <2>2 DEF ObserveLifecycle, TaskDelete, AdmissionTypeOK
<1>7. CASE TaskRelease(h)
  <2>1. ObserverTypeOK'
    BY <1>7, TaskType DEF TaskRelease
  <2>2. leases' \in [Trunks -> SUBSET LeaseIds]
    BY <1>7 DEF TaskRelease, Released, AdmissionTypeOK
  <2> QED BY <1>7, <2>1, <2>2 DEF ObserveLifecycle, TaskRelease, AdmissionTypeOK
<1>8. QED
  BY <1>1, <1>2, <1>3, <1>4, <1>5, <1>6, <1>7 DEF ObserveLifecycle

LEMMA ReconcileType ==
    ASSUME SharedTypeOK, Reconcile
    PROVE  AdmissionTypeOK'
<1>1. CASE ReconcileList
  <2>1. \A c \in ActiveForAdmission : c \in Calls /\ row[c].trunk \in Trunks
    BY DEF ActiveForAdmission, SharedTypeOK, StoreTypeOK, Rows
  <2> QED BY <1>1, <2>1 DEF ReconcileList, SharedTypeOK, AdmissionTypeOK
<1>2. CASE ReconcileRefresh
  <2>1. \A p \in recon : p[1] \in Trunks /\ p[2] \in Calls
    BY DEF SharedTypeOK, AdmissionTypeOK
  <2>2. leases' \in [Trunks -> SUBSET LeaseIds]
    BY <1>2, <2>1, LeaseTypes DEF ReconcileRefresh, SharedTypeOK, AdmissionTypeOK
  <2> QED BY <1>2, <2>2 DEF ReconcileRefresh, SharedTypeOK, AdmissionTypeOK
<1>3. QED BY <1>1, <1>2 DEF Reconcile

\* An event handler's step is one statement of the call store, or none.
LEMMA ObserveIsStatement ==
    ASSUME SharedTypeOK, NEW h \in Tasks, ObserveLifecycle(h)
    PROVE  [StoreNext]_storeVars
<1>0. task[h].call \in Calls /\ task[h].type \in LifecycleEvents /\ task[h].chan \in Dialogs
  BY DEF SharedTypeOK, ObserverTypeOK, TaskRecs
<1>1. CASE TaskSIP(h)
  BY <1>0, <1>1 DEF TaskSIP, StoreNext
<1>2. CASE TaskApply(h)
  BY <1>0, <1>2 DEF TaskApply, StoreNext
<1>3. CASE ~(TaskSIP(h) \/ TaskApply(h))
  BY <1>3 DEF ObserveLifecycle, TaskBind, TaskRead, TaskRefresh, TaskDelete, TaskRelease,
     storeVars
<1>4. QED BY <1>1, <1>2, <1>3

LEMMA ReconcileIsNoStatement ==
    ASSUME Reconcile PROVE UNCHANGED storeVars
  BY DEF Reconcile, ReconcileList, ReconcileRefresh, storeVars
=============================================================================
