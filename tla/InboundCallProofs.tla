------------------------- MODULE InboundCallProofs -------------------------
(***************************************************************************)
(* Proofs about InboundCall, for any number of calls, workers and event    *)
(* handlers, with and without infrastructure faults and crashes.           *)
(* The two theorems about admissions, at the end, name the combinations of *)
(* faults under which they are false, and exclude those.                   *)
(***************************************************************************)
EXTENDS InboundCall, CallLifecycleProofs, FiniteSetTheorems

AdmittersOK == admission \in [Calls -> [Workers -> Admissions]]
ChannelsOK == chan \in [Calls -> ChanRecs]

LEMMA AdmissionRecType ==
    ASSUME AdmittersOK, NEW c \in Calls, NEW w \in Workers, NEW new \in Admissions,
           admission' = [admission EXCEPT ![c][w] = new]
    PROVE  AdmittersOK'
<1>1. admission[c] \in [Workers -> Admissions]
  BY DEF AdmittersOK
<1>2. [admission[c] EXCEPT ![w] = new] \in [Workers -> Admissions]
  BY <1>1
<1>3. QED
  BY <1>2 DEF AdmittersOK

LEMMA GotoType ==
    ASSUME AdmittersOK, NEW c \in Calls, NEW w \in Workers, NEW pc \in AdmissionPCs,
           Goto(c, w, pc)
    PROVE  AdmittersOK'
<1>1. admission[c][w] \in Admissions
  BY DEF AdmittersOK
<1>2. [admission[c][w] EXCEPT !.pc = pc] \in Admissions
  BY <1>1 DEF Admissions
<1>3. admission' = [admission EXCEPT ![c][w] = [admission[c][w] EXCEPT !.pc = pc]]
  BY DEF Goto
<1>4. QED
  BY <1>2, <1>3, AdmissionRecType

LEMMA ReadThenType ==
    ASSUME StoreTypeOK, AdmittersOK, NEW c \in Calls, NEW w \in Workers,
           NEW pc \in AdmissionPCs, NEW b \in BOOLEAN, ReadThen(c, w, pc, b)
    PROVE  AdmittersOK'
<1>1. [pc |-> pc, trunk |-> row[c].trunk, valid |-> b] \in Admissions
  BY DEF Admissions, StoreTypeOK, Rows
<1>2. QED
  BY <1>1, AdmissionRecType DEF ReadThen

LEMMA GiveUpType ==
    ASSUME StoreTypeOK, AdmittersOK, NEW c \in Calls, NEW w \in Workers,
           NEW pc \in AdmissionPCs, GiveUp(c, w, pc)
    PROVE  AdmittersOK'
  BY ReadThenType DEF GiveUp

LEMMA ChanStType ==
    ASSUME ChannelsOK, NEW c \in Calls,
           \/ chan' = chan
           \/ chan' = Tagged(c)
           \/ \E s \in {"created", "progress", "answered", "hungup"} :
                chan' = [chan EXCEPT ![c].st = s]
    PROVE  ChannelsOK'
<1>1. chan[c] \in ChanRecs
  BY DEF ChannelsOK
<1>2. [chan[c] EXCEPT !.tagged = TRUE] \in ChanRecs
  BY <1>1 DEF ChanRecs
<1>3. \A s \in {"created", "progress", "answered", "hungup"} :
        [chan[c] EXCEPT !.st = s] \in ChanRecs
  BY <1>1 DEF ChanRecs
<1>4. QED
  BY <1>2, <1>3 DEF ChannelsOK, Tagged

LEMMA ChannelEventType ==
    ASSUME ObserverTypeOK, NEW c \in Calls, NEW e \in LifecycleEvents, ChannelEvent(c, e)
    PROVE  ObserverTypeOK'
  BY DispatchType, InboundAssumption DEF ChannelEvent, theDialog, ObserverTypeOK

LEMMA HangUpType ==
    ASSUME ObserverTypeOK, ChannelsOK, NEW c \in Calls, HangUp(c)
    PROVE  ObserverTypeOK' /\ ChannelsOK'
  BY HangupEventType, ChannelEventType, ChanStType DEF HangUp

\* The admission handler keeps the types of what it writes.
LEMMA AdmitType ==
    ASSUME TypeOK, NEW c \in Calls, NEW w \in Workers, AdmitInbound(c, w)
    PROVE  AdmissionTypeOK' /\ ObserverTypeOK' /\ ChannelsOK' /\ AdmittersOK'
<1>0. /\ StoreTypeOK /\ AdmissionTypeOK /\ ObserverTypeOK /\ ChannelsOK /\ AdmittersOK
      /\ TrunkOf[c] \in Trunks /\ theDialog \in ChannelIds
  BY InboundAssumption DEF TypeOK, ChannelsOK, AdmittersOK, theDialog, ChannelIds
<1>1. AdmittersOK'
  <2>1. CASE Lookup(c, w)
    BY <1>0, <2>1, GotoType, ReadThenType DEF Lookup, AdmissionPCs
  <2>2. CASE Reread(c, w)
    <3>1. ValidExisting(c) \in BOOLEAN
      BY DEF ValidExisting
    <3> QED BY <1>0, <2>2, <3>1, ReadThenType, GiveUpType DEF Reread, AdmissionPCs
  <2>3. CASE AttributeNew(c, w) \/ FailBind(c, w)
    BY <1>0, <2>3, GotoType, GiveUpType DEF AttributeNew, FailBind, AdmissionPCs
  <2>4. CASE Resolve(c, w) \/ AcquireLease(c, w) \/ CreateInbound(c, w) \/ Unlease(c, w)
    BY <1>0, <2>4, GotoType DEF Resolve, AcquireLease, CreateInbound, Unlease, AdmissionPCs
  <2>5. CASE Ensure(c, w) \/ RefreshReused(c, w) \/ BindReused(c, w) \/ TagReused(c, w)
    BY <1>0, <2>5, GotoType DEF Ensure, RefreshReused, BindReused, TagReused, AdmissionPCs
  <2>6. CASE BindLease(c, w) \/ BindNew(c, w) \/ TagNew(c, w) \/ UndoBind(c, w)
    BY <1>0, <2>6, GotoType DEF BindLease, BindNew, TagNew, UndoBind, AdmissionPCs
  <2>7. CASE UnleaseChan(c, w) \/ FailChan(c, w) \/ Reject(c, w)
    BY <1>0, <2>7, GotoType DEF UnleaseChan, FailChan, Reject, AdmissionPCs
  <2> QED BY <2>1, <2>2, <2>3, <2>4, <2>5, <2>6, <2>7 DEF AdmitInbound
<1>2. leases' \in [Trunks -> SUBSET LeaseIds]
  <2>1. /\ leases \in [Trunks -> SUBSET LeaseIds]
        /\ Leased(TrunkOf[c], ChannelLease(c)) \in [Trunks -> SUBSET LeaseIds]
        /\ Leased(TrunkOf[c], CallLease(c)) \in [Trunks -> SUBSET LeaseIds]
        /\ Released(TrunkOf[c], ChannelLease(c)) \in [Trunks -> SUBSET LeaseIds]
        /\ Released(TrunkOf[c], CallLease(c)) \in [Trunks -> SUBSET LeaseIds]
        /\ Rebound(TrunkOf[c], c) \in [Trunks -> SUBSET LeaseIds]
    BY <1>0, LeaseTypes DEF AdmissionTypeOK
  <2>2. CASE AcquireLease(c, w)
    BY <2>1, <2>2 DEF AcquireLease
  <2>3. CASE BindLease(c, w)
    BY <2>1, <2>3 DEF BindLease
  <2>4. CASE Unlease(c, w) \/ RefreshReused(c, w) \/ UnleaseChan(c, w)
    BY <2>1, <2>4 DEF Unlease, RefreshReused, UnleaseChan
  <2>5. CASE UNCHANGED leases
    BY <2>1, <2>5
  <2> QED BY <2>2, <2>3, <2>4, <2>5 DEF AdmitInbound, Lookup, Resolve, CreateInbound, Reread,
             Ensure, BindReused, TagReused, AttributeNew, FailBind, BindNew, TagNew,
             UndoBind, FailChan, Reject
<1>3. binding' \in [Calls -> ChannelIds]
  <2>1. /\ binding \in [Calls -> ChannelIds]
        /\ Bound(c, theDialog) \in [Calls -> ChannelIds]
        /\ Unbound(c) \in [Calls -> ChannelIds]
    BY <1>0, BindingTypes DEF AdmissionTypeOK
  <2>2. CASE BindReused(c, w) \/ BindNew(c, w)
    BY <2>1, <2>2 DEF BindReused, BindNew
  <2>3. CASE UndoBind(c, w)
    BY <2>1, <2>3 DEF UndoBind
  <2>4. CASE UNCHANGED binding
    BY <2>1, <2>4
  <2> QED BY <2>2, <2>3, <2>4 DEF AdmitInbound, Lookup, Resolve, AcquireLease, CreateInbound,
             Reread, Unlease, Ensure, RefreshReused, TagReused, AttributeNew, BindLease,
             FailBind, TagNew, UnleaseChan, FailChan, Reject
<1>4. ObserverTypeOK' /\ ChannelsOK'
  <2>1. CASE Reject(c, w)
    BY <1>0, <2>1, HangUpType DEF Reject, ObserverTypeOK, ChannelsOK
  <2>2. CASE TagReused(c, w) \/ TagNew(c, w)
    BY <1>0, <2>2, ChanStType DEF TagReused, TagNew, ObserverTypeOK
  <2>3. CASE UNCHANGED <<chan, task>>
    BY <1>0, <2>3 DEF ObserverTypeOK, ChannelsOK
  <2> QED BY <2>1, <2>2, <2>3 DEF AdmitInbound, Lookup, Resolve, AcquireLease, CreateInbound,
             Reread, Unlease, Ensure, RefreshReused, BindReused, AttributeNew, BindLease,
             FailBind, BindNew, UndoBind, UnleaseChan, FailChan
<1>5. recon' \subseteq Trunks \X Calls
  BY <1>0 DEF AdmitInbound, AdmissionTypeOK
<1>6. QED
  BY <1>1, <1>2, <1>3, <1>4, <1>5 DEF AdmissionTypeOK

LEMMA SwitchType ==
    ASSUME TypeOK, NEW c \in Calls, SwitchStep(c)
    PROVE  AdmissionTypeOK' /\ ObserverTypeOK' /\ ChannelsOK' /\ AdmittersOK'
<1> USE DEF LifecycleEvents, ProgressEvents
<1>0. /\ StoreTypeOK /\ AdmissionTypeOK /\ ObserverTypeOK /\ ChannelsOK /\ AdmittersOK
  BY DEF TypeOK, ChannelsOK, AdmittersOK
<1>1. AdmissionTypeOK'
  BY <1>0 DEF SwitchStep, ChannelCreate, ChannelProgress, ChannelAnswer, ChannelHangup,
     AdmissionTypeOK
<1>2. CASE ChannelCreate(c)
  <2>1. \A p \in AdmissionPCs : [NoAdmission EXCEPT !.pc = p] \in Admissions
    BY DEF NoAdmission, Admissions
  <2>2. PICK ws \in SUBSET Workers :
          admission' = [admission EXCEPT ![c] =
             [w \in Workers |-> IF w \in ws THEN [NoAdmission EXCEPT !.pc = "lookup"]
                                            ELSE [NoAdmission EXCEPT !.pc = "done"]]]
    BY <1>2 DEF ChannelCreate
  <2>3. [w \in Workers |-> IF w \in ws THEN [NoAdmission EXCEPT !.pc = "lookup"]
                                       ELSE [NoAdmission EXCEPT !.pc = "done"]]
          \in [Workers -> Admissions]
    BY <2>1 DEF AdmissionPCs
  <2>4. AdmittersOK'
    BY <1>0, <2>2, <2>3 DEF AdmittersOK
  <2> QED BY <1>0, <1>1, <1>2, <2>4, ChanStType DEF ChannelCreate, ObserverTypeOK
<1>3. CASE ChannelProgress(c)
  BY <1>0, <1>1, <1>3, ChanStType, ChannelEventType DEF ChannelProgress, AdmittersOK
<1>4. CASE ChannelAnswer(c)
  BY <1>0, <1>1, <1>4, ChanStType, ChannelEventType DEF ChannelAnswer, AdmittersOK
<1>5. CASE ChannelHangup(c)
  BY <1>0, <1>1, <1>5, HangUpType DEF ChannelHangup, AdmittersOK
<1>6. QED
  BY <1>2, <1>3, <1>4, <1>5 DEF SwitchStep

\* Every step of the protocol is one statement of the call store, or none.
LEMMA StepIsStatement ==
    ASSUME TypeOK, [Next]_vars
    PROVE  [StoreNext]_storeVars
<1> USE DEF storeVars
<1>1. ASSUME NEW c \in Calls, NEW w \in Workers, AdmitInbound(c, w)
      PROVE  [StoreNext]_storeVars
  <2>0. TrunkOf[c] \in Trunks /\ theDialog \in Dialogs /\ "failed" \in LifecycleEvents
    BY InboundAssumption DEF theDialog, LifecycleEvents, TerminalEvents
  <2>1. CASE CreateInbound(c, w)
    BY <2>0, <2>1 DEF CreateInbound, StoreNext
  <2>2. CASE Ensure(c, w) \/ AttributeNew(c, w)
    BY <2>0, <2>2 DEF Ensure, AttributeNew, StoreNext
  <2>3. CASE FailBind(c, w) \/ FailChan(c, w)
    BY <2>0, <2>3 DEF FailBind, FailChan, MarkAdmissionFailed, StoreNext
  <2>4. CASE UNCHANGED storeVars
    BY <2>4
  <2> QED BY <1>1, <2>1, <2>2, <2>3, <2>4 DEF AdmitInbound, Lookup, Resolve, AcquireLease,
             Reread, Unlease, RefreshReused, BindReused, TagReused, BindLease, BindNew,
             TagNew, UndoBind, UnleaseChan, Reject
<1>2. ASSUME NEW c \in Calls, SwitchStep(c) PROVE [StoreNext]_storeVars
  BY <1>2 DEF SwitchStep, ChannelCreate, ChannelProgress, ChannelAnswer, ChannelHangup
<1>3. ASSUME NEW c \in Calls, NEW w \in Workers, WorkerCrash(c, w)
      PROVE  [StoreNext]_storeVars
  BY <1>3 DEF WorkerCrash
<1>4. ASSUME NEW h \in Tasks, Observe(h) PROVE [StoreNext]_storeVars
  BY <1>4, ObserveIsStatement DEF Observe, TypeOK, SharedTypeOK
<1>5. CASE Reconciliation
  BY <1>5, ReconcileIsNoStatement DEF Reconciliation
<1>6. CASE UNCHANGED vars
  BY <1>6 DEF vars
<1>7. QED
  BY <1>1, <1>2, <1>3, <1>4, <1>5, <1>6 DEF Next

LEMMA TypeInit ==
    ASSUME Init PROVE TypeOK
<1>1. StoreTypeOK
  BY StoreInvInit DEF Init, StoreInv
<1>2. AdmissionTypeOK
  BY DEF Init, AdmissionInit, AdmissionTypeOK, ChannelIds, NoDialog
<1>3. ObserverTypeOK
  BY IdleTaskType DEF Init, ObserverInit, ObserverTypeOK
<1>4. chan \in [Calls -> ChanRecs]
  BY DEF Init, ChanRecs
<1>5. NoAdmission \in Admissions
  BY DEF NoAdmission, Admissions, AdmissionPCs
<1>6. admission \in [Calls -> [Workers -> Admissions]]
  BY <1>5 DEF Init
<1>7. QED
  BY <1>1, <1>2, <1>3, <1>4, <1>6 DEF TypeOK

LEMMA TypeStep ==
    ASSUME TypeOK, [Next]_vars
    PROVE  TypeOK'
<1> DEFINE RestOK == AdmissionTypeOK /\ ObserverTypeOK /\ ChannelsOK /\ AdmittersOK
<1>0. RestOK /\ SharedTypeOK
  BY DEF TypeOK, SharedTypeOK, ChannelsOK, AdmittersOK
<1>1. StoreTypeOK'
  BY StepIsStatement, StatementIsRowStep DEF TypeOK, StoreTypeOK
<1>2. RestOK'
  <2>1. ASSUME NEW c \in Calls, NEW w \in Workers, AdmitInbound(c, w) PROVE RestOK'
    BY <2>1, AdmitType
  <2>2. ASSUME NEW c \in Calls, SwitchStep(c) PROVE RestOK'
    BY <2>2, SwitchType
  <2>3. ASSUME NEW c \in Calls, NEW w \in Workers, WorkerCrash(c, w), UNCHANGED recon
        PROVE  RestOK'
    BY <1>0, <2>3, GotoType DEF WorkerCrash, AdmissionPCs, AdmissionTypeOK, ObserverTypeOK,
       ChannelsOK
  <2>4. ASSUME NEW h \in Tasks, Observe(h) PROVE RestOK'
    BY <1>0, <2>4, ObserveType DEF Observe, ChannelsOK, AdmittersOK
  <2>5. CASE Reconciliation
    BY <1>0, <2>5, ReconcileType DEF Reconciliation, ObserverTypeOK, ChannelsOK, AdmittersOK
  <2>6. CASE UNCHANGED vars
    BY <1>0, <2>6 DEF vars, AdmissionTypeOK, ObserverTypeOK, ChannelsOK, AdmittersOK
  <2> QED BY <2>1, <2>2, <2>3, <2>4, <2>5, <2>6 DEF Next
<1>3. QED
  BY <1>1, <1>2 DEF TypeOK, ChannelsOK, AdmittersOK

\* Every reachable state of an inbound admission is well typed, for any number
\* of workers racing for the same channel.
THEOREM InboundTypeCorrect == Spec => []TypeOK
  BY TypeInit, TypeStep, PTL DEF Spec

\* AdmitInbound in several workers, the ESL event handlers and the
\* reconciliation, interleaved in any way, failing or crashing anywhere,
\* implement the call store's specification.
THEOREM InboundImplementsStore == Spec => ImplementsStore
<1>1. Init => StoreInit
  BY DEF Init
<1>2. QED
  BY <1>1, StepIsStatement, TypeInit, TypeStep, PTL DEF Spec, StoreSpec, ImplementsStore

\* Hence duplicate deliveries and crashed admissions leave the outbox of every
\* call telling exactly its row's history ...
THEOREM InboundEventsMatchRow == Spec => []EventsMatchRow
  BY InboundImplementsStore, StoreEventsMatchRow DEF ImplementsStore

\* ... and never move a row backwards.
THEOREM InboundRowMovesForward == Spec => RowMovesForward
  BY InboundImplementsStore, StoreRowMovesForward DEF ImplementsStore

-----------------------------------------------------------------------------
(***************************************************************************)
(* The admission handler, one step at a time: what every step of it may do *)
(* to its own program counter, to the two leases and the binding of its    *)
(* call, to the row and to the channel.                                    *)
(***************************************************************************)

\* Handlers that hold the call's lease, and those that also bound the channel.
HoldsLease == {"reuse", "tagreuse", "bindchan", "tag", "admitted"}
HoldsBinding == {"tagreuse", "tag", "admitted"}

\* Handlers about to take back the binding or the call's lease.
Undoing == {"untag", "untagreuse", "unleasechan"}

\* Handlers that own the new row and have yet to move the channel's lease to it.
Claims == {"attribute", "bindlease"}

\* Handlers that can only end in rejectInbound.
DoomedAt(a) ==
    \/ a.pc \in Undoing \cup {"failbind", "failchan", "reject"}
    \/ a.pc = "unlease" /\ ~a.valid

\* Handlers that have seen the call's row, or written it.
KnowsRow(a) ==
    \/ a.pc \in Claims \cup HoldsLease \cup {"ensure", "refresh"}
    \/ a.pc = "unlease" /\ a.valid

HasCallLease(c) == CallLease(c) \in leases[TrunkOf[c]]
HasChannelLease(c) == ChannelLease(c) \in leases[TrunkOf[c]]
HasRow(c) == row[c].state # "none"

\* The handler goes from a to b.
HandlerStep(c, a, b) ==
    /\ a.pc \notin {"idle", "admitted", "done"} /\ b.pc # "idle"
    /\ b.pc \in HoldsLease => a.pc \in HoldsLease \/ HasCallLease(c)'
    /\ b.pc \in HoldsBinding => a.pc \in HoldsBinding \/ binding'[c] = theDialog
    /\ b.pc \in Undoing => \/ a.pc = "untag" \/ chan[c].st \notin Up
                           \/ MayFail("bind") \/ MayFail("tag")
    /\ DoomedAt(a) => \/ DoomedAt(b)
                      \/ /\ a.pc = "reject" /\ b.pc = "done"
                         /\ \/ chan[c].st \notin Up \/ chan'[c].st = "hungup"
                            \/ MayFail("hangup")
    /\ KnowsRow(b) => KnowsRow(a) \/ HasRow(c)'
    /\ a.pc \in Claims => \/ b.pc \in Claims \/ DoomedAt(b)
                          \/ HasChannelLease(c) /\ HasCallLease(c)'
    /\ b.pc \in Claims => a.pc \in Claims \/ a.pc = "insert"

\* What it does to the state it shares.
SharedStep(c, a, b) ==
    /\ HasCallLease(c) => HasCallLease(c)' \/ a.pc = "unleasechan"
    /\ binding[c] = theDialog => binding'[c] = theDialog \/ a.pc \in {"untag", "untagreuse"}
    /\ \/ chan'[c].st = chan[c].st
       \/ chan[c].st \in Up /\ chan'[c].st = "hungup"
    /\ HasChannelLease(c)' =>
          \/ HasChannelLease(c)
          \/ a.pc = "acquire" /\ Cardinality(leases[TrunkOf[c]]) < MaxConcurrentCalls
    /\ HasRow(c) => HasRow(c)'
    /\ HasRow(c)' => \/ HasRow(c) \/ b.pc = "attribute" \/ MayFail("create")

\* The other handlers of the channel and the other calls' do not move.
OthersStay(c, w) ==
    /\ \A v \in Workers \ {w} : admission'[c][v] = admission[c][v]
    /\ \A d \in Calls \ {c} : admission'[d] = admission[d]

LEMMA AdmissionMoves ==
    ASSUME AdmittersOK, NEW c \in Calls, NEW w \in Workers, NEW new,
           admission' = [admission EXCEPT ![c][w] = new]
    PROVE  admission'[c][w] = new /\ OthersStay(c, w)
  BY DEF AdmittersOK, OthersStay

LEMMA GotoMoves ==
    ASSUME AdmittersOK, NEW c \in Calls, NEW w \in Workers, NEW p, Goto(c, w, p)
    PROVE  /\ admission'[c][w].pc = p /\ admission'[c][w].valid = admission[c][w].valid
           /\ OthersStay(c, w)
<1>1. admission' = [admission EXCEPT ![c][w] = [admission[c][w] EXCEPT !.pc = p]]
  BY DEF Goto
<1>2. admission[c][w] \in Admissions
  BY DEF AdmittersOK
<1>3. /\ [admission[c][w] EXCEPT !.pc = p].pc = p
      /\ [admission[c][w] EXCEPT !.pc = p].valid = admission[c][w].valid
  BY <1>2 DEF Admissions
<1> DEFINE new == [admission[c][w] EXCEPT !.pc = p]
<1>4. new.pc = p /\ new.valid = admission[c][w].valid
  BY <1>3
<1> HIDE DEF new
<1>5. admission'[c][w] = new /\ OthersStay(c, w)
  <2>1. admission' = [admission EXCEPT ![c][w] = new]
    BY <1>1 DEF new
  <2>2. QED
    BY <2>1, AdmissionMoves
<1>6. QED
  BY <1>4, <1>5

LEMMA ReadThenMoves ==
    ASSUME AdmittersOK, NEW c \in Calls, NEW w \in Workers, NEW p, NEW b,
           ReadThen(c, w, p, b)
    PROVE  /\ admission'[c][w].pc = p /\ admission'[c][w].valid = b
           /\ OthersStay(c, w)
<1> DEFINE new == [pc |-> p, trunk |-> row[c].trunk, valid |-> b]
<1>1. new.pc = p /\ new.valid = b
  OBVIOUS
<1> HIDE DEF new
<1>2. admission'[c][w] = new /\ OthersStay(c, w)
  <2>1. admission' = [admission EXCEPT ![c][w] = new]
    BY DEF ReadThen, new
  <2>2. QED
    BY <2>1, AdmissionMoves
<1>3. QED
  BY <1>1, <1>2

\* The Redis scripts, as seen by one call.
LEMMA LeaseEffects ==
    ASSUME AdmissionTypeOK, NEW c \in Calls, NEW d \in Calls, NEW t \in Trunks
    PROVE  /\ leases' = Leased(t, CallLease(d)) =>
                 /\ HasChannelLease(c)' = HasChannelLease(c)
                 /\ HasCallLease(c) => HasCallLease(c)'
                 /\ d = c /\ t = TrunkOf[c] => HasCallLease(c)'
           /\ leases' = Leased(t, ChannelLease(d)) =>
                 /\ HasCallLease(c)' = HasCallLease(c)
                 /\ d # c => HasChannelLease(c)' = HasChannelLease(c)
           /\ leases' = Released(t, CallLease(d)) =>
                 /\ HasChannelLease(c)' = HasChannelLease(c)
                 /\ d # c => HasCallLease(c)' = HasCallLease(c)
           /\ leases' = Released(t, ChannelLease(d)) =>
                 /\ HasCallLease(c)' = HasCallLease(c)
                 /\ HasChannelLease(c)' => HasChannelLease(c)
                 /\ d # c => HasChannelLease(c)' = HasChannelLease(c)
           /\ leases' = Rebound(t, d) =>
                 /\ HasCallLease(c) => HasCallLease(c)'
                 /\ HasChannelLease(c)' => HasChannelLease(c)
                 /\ d = c /\ t = TrunkOf[c] => HasCallLease(c)'
                 /\ d # c => HasChannelLease(c)' = HasChannelLease(c)
<1>1. TrunkOf[c] \in Trunks /\ leases \in [Trunks -> SUBSET LeaseIds]
  BY InboundAssumption DEF AdmissionTypeOK
<1>2. /\ CallLease(c) # ChannelLease(d) /\ CallLease(d) # ChannelLease(c)
      /\ d # c => CallLease(c) # CallLease(d) /\ ChannelLease(c) # ChannelLease(d)
  BY DEF CallLease, ChannelLease
<1> USE DEF HasCallLease, HasChannelLease
<1>3. QED
  BY <1>1, <1>2 DEF Leased, Released, Rebound

LEMMA AttributionKeepsState ==
    ASSUME StoreTypeOK, NEW c \in Calls, NEW t, SetRouteAttribution(c, t)
    PROVE  row'[c].state = row[c].state
  BY DEF StoreTypeOK, Rows, SetRouteAttribution

LEMMA FailureKeepsRow ==
    ASSUME StoreTypeOK, NEW c \in Calls, MarkAdmissionFailed(c)
    PROVE  HasRow(c)' = HasRow(c)
<1>1. CASE UNCHANGED storeVars
  BY <1>1 DEF HasRow, storeVars
<1>2. CASE Mark(c, "failed")
  <2>1. row[c].state # "none"
    BY <1>2 DEF Mark, CanMark, MarkableFrom, MarkCallFailed, CallStates
  <2>2. row'[c].state = "failed"
    BY <1>2 DEF StoreTypeOK, Rows, Mark, Marked
  <2> QED BY <2>1, <2>2 DEF HasRow
<1>3. QED
  BY <1>1, <1>2 DEF MarkAdmissionFailed

LEMMA TagKeepsState ==
    ASSUME ChannelsOK, NEW c \in Calls, chan' = chan \/ chan' = Tagged(c)
    PROVE  chan'[c].st = chan[c].st
  BY DEF ChannelsOK, ChanRecs, Tagged

LEMMA AdmitEffects ==
    ASSUME TypeOK, NEW c \in Calls, NEW w \in Workers, AdmitInbound(c, w)
    PROVE  /\ OthersStay(c, w)
           /\ HandlerStep(c, admission[c][w], admission'[c][w])
           /\ SharedStep(c, admission[c][w], admission'[c][w])
<1> DEFINE a == admission[c][w]
           b == admission'[c][w]
<1> SUFFICES OthersStay(c, w) /\ HandlerStep(c, a, b) /\ SharedStep(c, a, b)
  OBVIOUS
<1>0. /\ AdmittersOK /\ AdmissionTypeOK /\ StoreTypeOK /\ TrunkOf[c] \in Trunks
      /\ ChannelsOK /\ a \in Admissions
  BY InboundAssumption DEF TypeOK, AdmittersOK, ChannelsOK
<1> USE DEF HandlerStep, SharedStep, DoomedAt, KnowsRow, Undoing, Claims, HoldsLease,
        HoldsBinding, At
<1>1. UNCHANGED leases => UNCHANGED <<HasCallLease(c), HasChannelLease(c)>>
  BY DEF HasCallLease, HasChannelLease
<1>2. UNCHANGED row => UNCHANGED HasRow(c)
  BY DEF HasRow
<1>3. CASE Lookup(c, w)
  <2>1. /\ OthersStay(c, w) /\ a.pc = "lookup"
        /\ b.pc \in {"ensure", "reject", "resolve"}
        /\ b.pc = "ensure" => HasRow(c)
    <3>1. \/ HasRow(c) /\ ReadThen(c, w, "ensure", TRUE)
          \/ Goto(c, w, "reject") \/ Goto(c, w, "resolve")
      BY <1>3 DEF Lookup, HasRow
    <3>2. a.pc = "lookup"
      BY <1>3 DEF Lookup
    <3>3. CASE HasRow(c) /\ ReadThen(c, w, "ensure", TRUE)
      BY <1>0, <3>2, <3>3, ReadThenMoves
    <3>4. CASE Goto(c, w, "reject") \/ Goto(c, w, "resolve")
      BY <1>0, <3>2, <3>4, GotoMoves
    <3> QED BY <3>1, <3>3, <3>4
  <2>2. UNCHANGED <<row, leases, binding, chan>>
    BY <1>3 DEF Lookup
  <2> HIDE DEF a, b
  <2> QED BY <1>1, <1>2, <2>1, <2>2
<1>4. CASE Resolve(c, w)
  <2>1. OthersStay(c, w) /\ a.pc = "resolve" /\ b.pc \in {"acquire", "reject"}
    BY <1>0, <1>4, GotoMoves DEF Resolve
  <2>2. UNCHANGED <<row, leases, binding, chan>>
    BY <1>4 DEF Resolve
  <2> HIDE DEF a, b
  <2> QED BY <1>1, <1>2, <2>1, <2>2
<1>5. CASE AcquireLease(c, w)
  <2>1. OthersStay(c, w) /\ a.pc = "acquire" /\ b.pc \in {"insert", "reject"}
    BY <1>0, <1>5, GotoMoves DEF AcquireLease
  <2>2. UNCHANGED <<row, binding, chan>>
    BY <1>5 DEF AcquireLease
  <2>3. \/ UNCHANGED leases
        \/ /\ leases' = Leased(TrunkOf[c], ChannelLease(c))
           /\ CanLease(TrunkOf[c], ChannelLease(c))
    BY <1>5 DEF AcquireLease
  <2>4. /\ HasCallLease(c)' = HasCallLease(c)
        /\ HasChannelLease(c)' => \/ HasChannelLease(c)
                                  \/ Cardinality(leases[TrunkOf[c]]) < MaxConcurrentCalls
    BY <1>0, <1>1, <2>3, LeaseEffects DEF CanLease, HasChannelLease
  <2> HIDE DEF a, b
  <2> QED BY <1>2, <2>1, <2>2, <2>4
<1>6. CASE CreateInbound(c, w)
  <2>1. /\ OthersStay(c, w) /\ a.pc = "insert" /\ b.pc \in {"attribute", "reread"}
        /\ b.pc = "attribute" => InsertInbound(c, theDialog)
    BY <1>0, <1>6, GotoMoves DEF CreateInbound
  <2>2. UNCHANGED <<leases, binding, chan>>
    BY <1>6 DEF CreateInbound
  <2>3. /\ InsertInbound(c, theDialog) => HasRow(c)'
        /\ UNCHANGED row \/ InsertInbound(c, theDialog)
    BY <1>0, <1>6 DEF CreateInbound, InsertInbound, storeVars, HasRow, StoreTypeOK, NoRow
  <2>4. HasRow(c)' => HasRow(c) \/ b.pc = "attribute" \/ MayFail("create")
    BY <1>0, <1>2, <1>6, GotoMoves DEF CreateInbound, storeVars
  <2> HIDE DEF a, b
  <2> QED BY <1>1, <1>2, <2>1, <2>2, <2>3, <2>4
<1>7. CASE Reread(c, w)
  <2>1. /\ OthersStay(c, w) /\ a.pc = "reread" /\ b.pc = "unlease"
        /\ b.valid => HasRow(c)
    BY <1>0, <1>7, ReadThenMoves DEF Reread, GiveUp, HasRow
  <2>2. UNCHANGED <<row, leases, binding, chan>>
    BY <1>7 DEF Reread
  <2> HIDE DEF a, b
  <2> QED BY <1>1, <1>2, <2>1, <2>2
<1>8. CASE Unlease(c, w)
  <2>1. /\ OthersStay(c, w) /\ a.pc = "unlease"
        /\ b.pc = IF a.valid THEN "ensure" ELSE "reject"
    BY <1>0, <1>8, GotoMoves DEF Unlease
  <2>2. UNCHANGED <<row, binding, chan>>
    BY <1>8 DEF Unlease
  <2>3. /\ HasCallLease(c)' = HasCallLease(c)
        /\ HasChannelLease(c)' => HasChannelLease(c)
    BY <1>0, <1>1, <1>8, LeaseEffects DEF Unlease
  <2> HIDE DEF a, b
  <2> QED BY <1>2, <2>1, <2>2, <2>3
<1>9. CASE Ensure(c, w)
  <2>1. OthersStay(c, w) /\ a.pc = "ensure" /\ b.pc \in {"refresh", "reject"}
    BY <1>0, <1>9, GotoMoves DEF Ensure
  <2>2. UNCHANGED <<leases, binding, chan>>
    BY <1>9 DEF Ensure
  <2>3. HasRow(c)' = HasRow(c)
    BY <1>0, <1>9, AttributionKeepsState DEF Ensure, storeVars, HasRow
  <2> HIDE DEF a, b
  <2> QED BY <1>1, <2>1, <2>2, <2>3
<1>10. CASE RefreshReused(c, w)
  <2>1. OthersStay(c, w) /\ a.pc = "refresh" /\ b.pc \in {"reuse", "reject"}
    BY <1>0, <1>10, GotoMoves DEF RefreshReused
  <2>2. UNCHANGED <<row, binding, chan>>
    BY <1>10 DEF RefreshReused
  <2>3. /\ leases' = leases \/ leases' = Leased(TrunkOf[c], CallLease(c))
        /\ b.pc = "reuse" => leases' = Leased(TrunkOf[c], CallLease(c))
    BY <1>0, <1>10, GotoMoves DEF RefreshReused
  <2>4. /\ HasChannelLease(c)' = HasChannelLease(c)
        /\ HasCallLease(c) => HasCallLease(c)'
        /\ b.pc = "reuse" => HasCallLease(c)'
    BY <1>0, <1>1, <2>3, LeaseEffects
  <2> HIDE DEF a, b
  <2> QED BY <1>2, <2>1, <2>2, <2>4
<1>11. CASE BindReused(c, w)
  <2>1. OthersStay(c, w) /\ a.pc = "reuse" /\ b.pc \in {"tagreuse", "reject"}
    BY <1>0, <1>11, GotoMoves DEF BindReused
  <2>2. UNCHANGED <<row, leases, chan>>
    BY <1>11 DEF BindReused
  <2>3. /\ binding'[c] = binding[c] \/ binding'[c] = theDialog
        /\ b.pc = "tagreuse" => binding'[c] = theDialog
    BY <1>0, <1>11, GotoMoves DEF BindReused, Bound, AdmissionTypeOK
  <2> HIDE DEF a, b
  <2> QED BY <1>1, <1>2, <2>1, <2>2, <2>3
<1>12. CASE TagReused(c, w)
  <2>1. /\ OthersStay(c, w) /\ a.pc = "tagreuse" /\ b.pc \in {"admitted", "untagreuse"}
        /\ b.pc = "untagreuse" => chan[c].st \notin Up \/ MayFail("tag")
    BY <1>0, <1>12, GotoMoves DEF TagReused
  <2>2. UNCHANGED <<row, leases, binding>> /\ chan'[c].st = chan[c].st
    BY <1>0, <1>12, TagKeepsState DEF TagReused
  <2> HIDE DEF a, b
  <2> QED BY <1>1, <1>2, <2>1, <2>2
<1>13. CASE AttributeNew(c, w)
  <2>1. /\ OthersStay(c, w) /\ a.pc = "attribute" /\ b.pc \in {"bindlease", "unlease"}
        /\ b.pc = "unlease" => ~b.valid
    <3>1. a.pc = "attribute" /\ (Goto(c, w, "bindlease") \/ ReadThen(c, w, "unlease", FALSE))
      BY <1>13 DEF AttributeNew, GiveUp
    <3>2. CASE Goto(c, w, "bindlease")
      BY <1>0, <3>1, <3>2, GotoMoves
    <3>3. CASE ReadThen(c, w, "unlease", FALSE)
      BY <1>0, <3>1, <3>3, ReadThenMoves
    <3> QED BY <3>1, <3>2, <3>3
  <2>2. UNCHANGED <<leases, binding, chan>>
    BY <1>13 DEF AttributeNew
  <2>3. HasRow(c)' = HasRow(c)
    BY <1>0, <1>13, AttributionKeepsState DEF AttributeNew, storeVars, HasRow
  <2> HIDE DEF a, b
  <2> QED BY <1>1, <2>1, <2>2, <2>3
<1>14. CASE BindLease(c, w)
  <2>1. /\ OthersStay(c, w) /\ a.pc = "bindlease" /\ b.pc \in {"bindchan", "failbind"}
    BY <1>0, <1>14, GotoMoves DEF BindLease
  <2>2. UNCHANGED <<row, binding, chan>>
    BY <1>14 DEF BindLease
  <2>3. /\ leases' = leases \/ leases' = Rebound(TrunkOf[c], c)
        /\ b.pc = "bindchan" => HasChannelLease(c) /\ leases' = Rebound(TrunkOf[c], c)
    BY <1>0, <1>14, GotoMoves DEF BindLease, HasChannelLease
  <2>4. /\ HasChannelLease(c)' => HasChannelLease(c)
        /\ HasCallLease(c) => HasCallLease(c)'
        /\ b.pc = "bindchan" => HasChannelLease(c) /\ HasCallLease(c)'
    BY <1>0, <1>1, <2>3, LeaseEffects
  <2> HIDE DEF a, b
  <2> QED BY <1>2, <2>1, <2>2, <2>4
<1>15. CASE FailBind(c, w)
  <2>1. OthersStay(c, w) /\ a.pc = "failbind" /\ b.pc = "unlease" /\ ~b.valid
    BY <1>0, <1>15, ReadThenMoves DEF FailBind, GiveUp
  <2>2. UNCHANGED <<leases, binding, chan>>
    BY <1>15 DEF FailBind
  <2>3. HasRow(c)' = HasRow(c)
    BY <1>0, <1>15, FailureKeepsRow DEF FailBind
  <2> HIDE DEF a, b
  <2> QED BY <1>1, <2>1, <2>2, <2>3
<1>16. CASE BindNew(c, w)
  <2>1. /\ OthersStay(c, w) /\ a.pc = "bindchan" /\ b.pc \in {"tag", "unleasechan"}
        /\ b.pc = "unleasechan" => MayFail("bind")
    BY <1>0, <1>16, GotoMoves DEF BindNew
  <2>2. UNCHANGED <<row, leases, chan>>
    BY <1>16 DEF BindNew
  <2>3. /\ binding'[c] = binding[c] \/ binding'[c] = theDialog
        /\ b.pc = "tag" => binding'[c] = theDialog
    BY <1>0, <1>16, GotoMoves DEF BindNew, Bound, AdmissionTypeOK
  <2> HIDE DEF a, b
  <2> QED BY <1>1, <1>2, <2>1, <2>2, <2>3
<1>17. CASE TagNew(c, w)
  <2>1. /\ OthersStay(c, w) /\ a.pc = "tag" /\ b.pc \in {"admitted", "untag"}
        /\ b.pc = "untag" => chan[c].st \notin Up \/ MayFail("tag")
    BY <1>0, <1>17, GotoMoves DEF TagNew
  <2>2. UNCHANGED <<row, leases, binding>> /\ chan'[c].st = chan[c].st
    BY <1>0, <1>17, TagKeepsState DEF TagNew
  <2> HIDE DEF a, b
  <2> QED BY <1>1, <1>2, <2>1, <2>2
<1>18. CASE UndoBind(c, w)
  <2>1. /\ OthersStay(c, w)
        /\ \/ a.pc = "untagreuse" /\ b.pc = "reject"
           \/ a.pc = "untag" /\ b.pc = "unleasechan"
    BY <1>0, <1>18, GotoMoves DEF UndoBind
  <2>2. UNCHANGED <<row, leases, chan>>
    BY <1>18 DEF UndoBind
  <2> HIDE DEF a, b
  <2> QED BY <1>1, <1>2, <2>1, <2>2
<1>19. CASE UnleaseChan(c, w)
  <2>1. OthersStay(c, w) /\ a.pc = "unleasechan" /\ b.pc = "failchan"
    BY <1>0, <1>19, GotoMoves DEF UnleaseChan
  <2>2. UNCHANGED <<row, binding, chan>>
    BY <1>19 DEF UnleaseChan
  <2>3. HasChannelLease(c)' = HasChannelLease(c)
    BY <1>0, <1>1, <1>19, LeaseEffects DEF UnleaseChan
  <2> HIDE DEF a, b
  <2> QED BY <1>2, <2>1, <2>2, <2>3
<1>20. CASE FailChan(c, w)
  <2>1. OthersStay(c, w) /\ a.pc = "failchan" /\ b.pc = "reject"
    BY <1>0, <1>20, GotoMoves DEF FailChan
  <2>2. UNCHANGED <<leases, binding, chan>>
    BY <1>20 DEF FailChan
  <2>3. HasRow(c)' = HasRow(c)
    BY <1>0, <1>20, FailureKeepsRow DEF FailChan
  <2> HIDE DEF a, b
  <2> QED BY <1>1, <2>1, <2>2, <2>3
<1>21. CASE Reject(c, w)
  <2>1. OthersStay(c, w) /\ a.pc = "reject" /\ b.pc = "done"
    BY <1>0, <1>21, GotoMoves DEF Reject
  <2>2. UNCHANGED <<row, leases, binding>>
    BY <1>21 DEF Reject
  <2>3. \/ chan[c].st \in Up /\ chan'[c].st = "hungup"
        \/ (chan[c].st \notin Up \/ MayFail("hangup")) /\ chan'[c].st = chan[c].st
    BY <1>0, <1>21 DEF Reject, HangUp, ChannelsOK, ChanRecs
  <2> HIDE DEF a, b
  <2> QED BY <1>1, <1>2, <2>1, <2>2, <2>3
<1>22. QED
  BY <1>3, <1>4, <1>5, <1>6, <1>7, <1>8, <1>9, <1>10, <1>11, <1>12, <1>13, <1>14, <1>15,
     <1>16, <1>17, <1>18, <1>19, <1>20, <1>21 DEF AdmitInbound

\* Every other step leaves the call's admission alone: it may renew the call's
\* lease, rebind its one channel or move the channel on, and it takes lease or
\* binding away only after the channel has hung up.
QuietFor(c) ==
    /\ admission'[c] = admission[c]
    /\ \/ chan'[c].st = chan[c].st
       \/ chan[c].st \in Up /\ chan'[c].st \in Up \cup {"hungup"}
    /\ HasRow(c)' = HasRow(c)
    /\ HasChannelLease(c)' = HasChannelLease(c)
    /\ chan[c].st # "hungup" =>
          /\ HasCallLease(c) => HasCallLease(c)'
          /\ binding[c] = theDialog => binding'[c] = theDialog

LEMMA QuietIfUnchanged ==
    ASSUME NEW c \in Calls, UNCHANGED <<admission, chan, row, leases, binding>>
    PROVE  QuietFor(c)
  BY DEF QuietFor, HasRow, HasChannelLease, HasCallLease

LEMMA MarkKeepsRows ==
    ASSUME StoreTypeOK, NEW c \in Calls, NEW d \in Calls, NEW e \in LifecycleEvents, Mark(d, e)
    PROVE  HasRow(c)' = HasRow(c)
<1>1. CASE c # d
  BY <1>1 DEF Mark, StoreTypeOK, HasRow
<1>2. CASE c = d
  <2>1. row[c].state # "none"
    BY <1>2 DEF Mark, CanMark, MarkableFrom, MarkCallRinging, MarkCallAnswered, MarkCallActive,
       MarkCallHeld, MarkCallResumed, MarkCallCompleted, MarkCallFailed, MarkCallCancelled,
       CallStates
  <2>2. row[c] \in Rows /\ row'[c] = Marked(e, row[c])
    BY <1>2 DEF Mark, StoreTypeOK
  <2>3. row'[c].state # "none"
    BY <2>1, <2>2 DEF Marked, Rows, LifecycleEvents, ProgressEvents, TerminalEvents
  <2> QED BY <2>1, <2>3 DEF HasRow
<1>3. QED BY <1>1, <1>2

\* Each step runs at most one lease script, on the channel's trunk.
LeaseStep(c) ==
    \/ UNCHANGED leases
    \/ leases' \in {Leased(TrunkOf[c], ChannelLease(c)), Leased(TrunkOf[c], CallLease(c)),
                    Released(TrunkOf[c], ChannelLease(c)), Released(TrunkOf[c], CallLease(c)),
                    Rebound(TrunkOf[c], c)}

LEMMA AdmitLeaseStep ==
    ASSUME NEW c \in Calls, NEW w \in Workers, AdmitInbound(c, w)
    PROVE  LeaseStep(c)
<1>1. CASE AcquireLease(c, w)
  BY <1>1 DEF AcquireLease, LeaseStep
<1>2. CASE BindLease(c, w)
  BY <1>2 DEF BindLease, LeaseStep
<1>3. CASE Unlease(c, w) \/ RefreshReused(c, w) \/ UnleaseChan(c, w)
  BY <1>3 DEF Unlease, RefreshReused, UnleaseChan, LeaseStep
<1>4. CASE UNCHANGED leases
  BY <1>4 DEF LeaseStep
<1>5. QED
  BY <1>1, <1>2, <1>3, <1>4 DEF AdmitInbound, Lookup, Resolve, CreateInbound, Reread,
     Ensure, BindReused, TagReused, AttributeNew, FailBind, BindNew, TagNew,
     UndoBind, FailChan, Reject

\* A handler touches nothing of another call.
LEMMA AdmitElsewhere ==
    ASSUME TypeOK, NEW c \in Calls, NEW w \in Workers, AdmitInbound(c, w),
           NEW d \in Calls, d # c
    PROVE  QuietFor(d)
<1>0. AdmissionTypeOK /\ StoreTypeOK /\ TrunkOf[c] \in Trunks /\ ChannelsOK
  BY InboundAssumption DEF TypeOK, ChannelsOK
<1>1. admission'[d] = admission[d]
  BY AdmitEffects DEF OthersStay
<1>2. chan'[d] = chan[d]
  <2>1. CASE Reject(c, w)
    BY <1>0, <2>1 DEF Reject, HangUp, ChannelsOK
  <2>2. CASE TagReused(c, w) \/ TagNew(c, w)
    <3>1. chan' = chan \/ chan' = Tagged(c)
      BY <2>2 DEF TagReused, TagNew
    <3> QED BY <1>0, <3>1 DEF Tagged, ChannelsOK
  <2>3. CASE UNCHANGED chan
    BY <2>3
  <2> QED BY <2>1, <2>2, <2>3 DEF AdmitInbound, Lookup, Resolve, AcquireLease, CreateInbound,
             Reread, Unlease, Ensure, RefreshReused, BindReused, AttributeNew, BindLease,
             FailBind, BindNew, UndoBind, UnleaseChan, FailChan
<1>3. row'[d] = row[d]
  <2>1. CASE CreateInbound(c, w)
    BY <1>0, <2>1 DEF CreateInbound, InsertInbound, storeVars, StoreTypeOK
  <2>2. CASE Ensure(c, w) \/ AttributeNew(c, w)
    BY <1>0, <2>2 DEF Ensure, AttributeNew, SetRouteAttribution, storeVars, StoreTypeOK
  <2>3. CASE FailBind(c, w) \/ FailChan(c, w)
    BY <1>0, <2>3 DEF FailBind, FailChan, MarkAdmissionFailed, Mark, storeVars, StoreTypeOK
  <2>4. CASE UNCHANGED row
    BY <2>4
  <2> QED BY <2>1, <2>2, <2>3, <2>4 DEF AdmitInbound, Lookup, Resolve, AcquireLease,
             Reread, Unlease, RefreshReused, BindReused, TagReused, BindLease, BindNew,
             TagNew, UndoBind, UnleaseChan, Reject
<1>4. binding'[d] = binding[d]
  <2>1. CASE BindReused(c, w) \/ BindNew(c, w)
    BY <1>0, <2>1 DEF BindReused, BindNew, Bound, AdmissionTypeOK
  <2>2. CASE UndoBind(c, w)
    BY <1>0, <2>2 DEF UndoBind, Unbound, AdmissionTypeOK
  <2>3. CASE UNCHANGED binding
    BY <2>3
  <2> QED BY <2>1, <2>2, <2>3 DEF AdmitInbound, Lookup, Resolve, AcquireLease, CreateInbound,
             Reread, Unlease, Ensure, RefreshReused, TagReused, AttributeNew, BindLease,
             FailBind, TagNew, UnleaseChan, FailChan, Reject
<1>5. LeaseStep(c)
  BY AdmitLeaseStep
<1>6. HasChannelLease(d)' = HasChannelLease(d) /\ (HasCallLease(d) => HasCallLease(d)')
  <2>1. UNCHANGED leases => UNCHANGED <<HasCallLease(d), HasChannelLease(d)>>
    BY DEF HasCallLease, HasChannelLease
  <2> QED BY <1>0, <1>5, <2>1, LeaseEffects DEF LeaseStep
<1>7. QED
  BY <1>1, <1>2, <1>3, <1>4, <1>6 DEF QuietFor, HasRow

LEMMA SwitchEffects ==
    ASSUME TypeOK, NEW c \in Calls, SwitchStep(c), NEW d \in Calls
    PROVE  QuietFor(d) \/ (d = c /\ ChannelCreate(c))
<1>0. ChannelsOK /\ AdmittersOK
  BY DEF TypeOK, ChannelsOK, AdmittersOK
<1>1. UNCHANGED <<row, leases, binding>>
  BY DEF SwitchStep, ChannelCreate, ChannelProgress, ChannelAnswer, ChannelHangup
<1>2. UNCHANGED <<HasRow(d), HasCallLease(d), HasChannelLease(d)>>
  BY <1>1 DEF HasRow, HasCallLease, HasChannelLease
<1>3. CASE ChannelCreate(c)
  <2>1. CASE d # c
    <3>1. chan'[d] = chan[d] /\ admission'[d] = admission[d]
      BY <1>0, <1>3, <2>1 DEF ChannelCreate, ChannelsOK, AdmittersOK
    <3> QED BY <1>1, <1>2, <3>1 DEF QuietFor
  <2> QED BY <1>3, <2>1
<1>4. CASE ChannelProgress(c) \/ ChannelAnswer(c) \/ ChannelHangup(c)
  <2>1. UNCHANGED admission
    BY <1>4 DEF ChannelProgress, ChannelAnswer, ChannelHangup
  <2>2. /\ chan[c].st \in Up
        /\ \E s \in Up \cup {"hungup"} : chan' = [chan EXCEPT ![c].st = s]
    BY <1>4 DEF ChannelProgress, ChannelAnswer, ChannelHangup, HangUp, Up
  <2>3. \/ chan'[d].st = chan[d].st
        \/ chan[d].st \in Up /\ chan'[d].st \in Up \cup {"hungup"}
    BY <1>0, <2>2 DEF ChannelsOK, ChanRecs
  <2> QED BY <1>1, <1>2, <2>1, <2>3 DEF QuietFor
<1>5. QED
  BY <1>3, <1>4 DEF SwitchStep

LEMMA CrashEffects ==
    ASSUME TypeOK, NEW c \in Calls, NEW w \in Workers, WorkerCrash(c, w)
    PROVE  /\ OthersStay(c, w) /\ admission'[c][w].pc = "done" /\ MayFail("crash")
           /\ admission[c][w].pc \notin {"idle", "admitted", "done"}
           /\ UNCHANGED <<row, leases, binding, chan, task>>
  BY GotoMoves DEF WorkerCrash, TypeOK, AdmittersOK

-----------------------------------------------------------------------------
\* The event handlers: each works on the call's one channel, and a terminal
\* event is dispatched by nothing but the hangup.
TaskFits(k) ==
    /\ k.pc # "idle" => k.chan = theDialog
    /\ IsTerminalLifecycle(k.type) => chan[k.call].st = "hungup"
    /\ k.pc \in {"delete", "release"} => IsTerminalLifecycle(k.type)

TasksFit == \A h \in Tasks : TaskFits(task[h])

\* What a step makes of a goroutine.
TaskStep(k, m) ==
    \/ m = k
    \/ m = IdleTask
    \/ /\ m.call = k.call /\ m.chan = k.chan /\ m.type = k.type /\ k.pc # "idle"
       /\ m.pc \in {"delete", "release"} =>
             IsTerminalLifecycle(k.type) \/ k.pc \in {"delete", "release"}

LEMMA TaskStepFits ==
    ASSUME TypeOK, NEW k \in TaskRecs, NEW m, TaskFits(k), TaskStep(k, m),
           \A d \in Calls : chan[d].st = "hungup" => chan'[d].st = "hungup"
    PROVE  /\ m.pc # "idle" => m.chan = theDialog
           /\ IsTerminalLifecycle(m.type) => chan'[m.call].st = "hungup"
           /\ m.pc \in {"delete", "release"} => IsTerminalLifecycle(m.type)
<1>1. CASE m = IdleTask
  <2>1. m.pc = "idle" /\ m.type = "initiated"
    BY <1>1 DEF IdleTask
  <2> QED BY <2>1 DEF IsTerminalLifecycle, TerminalEvents
<1>2. CASE m # IdleTask
  BY <1>2 DEF TaskStep, TaskFits, TaskRecs
<1>3. QED BY <1>1, <1>2

LEMMA ObserveTaskStep ==
    ASSUME TypeOK, NEW h \in Tasks, ObserveLifecycle(h), NEW g \in Tasks
    PROVE  TaskStep(task[g], task'[g])
<1>0. task \in [Tasks -> TaskRecs]
  BY DEF TypeOK, ObserverTypeOK
<1>1. ASSUME NEW pc \in TaskPCs, TaskTo(h, pc), task[h].pc # "idle",
             pc \in {"delete", "release"} =>
                IsTerminalLifecycle(task[h].type) \/ task[h].pc \in {"delete", "release"}
      PROVE  TaskStep(task[g], task'[g])
  <2>1. CASE g # h
    BY <1>0, <1>1, <2>1 DEF TaskTo, TaskStep
  <2>2. CASE g = h
    <3>1. task[h] \in TaskRecs /\ task'[h] = [task[h] EXCEPT !.pc = pc]
      BY <1>0, <1>1 DEF TaskTo
    <3>2. /\ task'[h].pc = pc /\ task'[h].call = task[h].call
          /\ task'[h].chan = task[h].chan /\ task'[h].type = task[h].type
      BY <3>1 DEF TaskRecs
    <3> QED BY <1>1, <2>2, <3>2 DEF TaskStep
  <2> QED BY <2>1, <2>2
<1>2. ASSUME TaskEnds(h) PROVE TaskStep(task[g], task'[g])
  BY <1>0, <1>2 DEF TaskEnds, TaskStep
<1>3. CASE TaskBind(h)
  BY <1>1, <1>2, <1>3 DEF TaskBind, TaskFails, TaskPCs
<1>4. CASE TaskRead(h)
  <2> DEFINE snap == [state |-> row[task[h].call].state, media |-> row[task[h].call].media,
                      trunk |-> row[task[h].call].trunk]
  <2>1. CASE TaskFails(h, "read")
    BY <1>2, <2>1 DEF TaskFails
  <2>2. CASE task' = [task EXCEPT ![h].pc = "sip", ![h].snap = snap]
    <3> HIDE DEF snap
    <3>1. CASE g # h
      BY <1>0, <2>2, <3>1 DEF TaskStep
    <3>2. CASE g = h
      <4>1. task[h] \in TaskRecs /\ task'[h] = [task[h] EXCEPT !.pc = "sip", !.snap = snap]
        BY <1>0, <2>2
      <4>2. /\ task'[h].pc = "sip" /\ task'[h].call = task[h].call
            /\ task'[h].chan = task[h].chan /\ task'[h].type = task[h].type
        BY <4>1 DEF TaskRecs
      <4>3. task[h].pc # "idle"
        BY <1>4 DEF TaskRead
      <4> QED BY <3>2, <4>2, <4>3 DEF TaskStep
    <3> QED BY <3>1, <3>2
  <2> QED BY <1>4, <2>1, <2>2 DEF TaskRead
<1>5. CASE TaskSIP(h)
  BY <1>1, <1>2, <1>5 DEF TaskSIP, TaskFails, TaskPCs
<1>6. CASE TaskRefresh(h)
  BY <1>1, <1>2, <1>6 DEF TaskRefresh, TaskFails, TaskPCs
<1>7. CASE TaskApply(h)
  BY <1>1, <1>2, <1>7 DEF TaskApply, TaskFails, TaskPCs
<1>8. CASE TaskDelete(h)
  BY <1>1, <1>2, <1>8 DEF TaskDelete, TaskPCs
<1>9. CASE TaskRelease(h)
  BY <1>2, <1>9 DEF TaskRelease
<1>10. QED
  BY <1>3, <1>4, <1>5, <1>6, <1>7, <1>8, <1>9 DEF ObserveLifecycle

LEMMA ObserveQuiet ==
    ASSUME TypeOK, TasksFit, NEW h \in Tasks, Observe(h), NEW c \in Calls
    PROVE  QuietFor(c)
<1>0. /\ StoreTypeOK /\ AdmissionTypeOK /\ UNCHANGED <<chan, admission>>
      /\ task[h] \in TaskRecs /\ task[h].call \in Calls /\ task[h].type \in LifecycleEvents
      /\ TaskFits(task[h])
  BY DEF TypeOK, ObserverTypeOK, TaskRecs, Observe, TasksFit
<1>1. UNCHANGED leases => UNCHANGED <<HasCallLease(c), HasChannelLease(c)>>
  BY DEF HasCallLease, HasChannelLease
<1>2. UNCHANGED row => UNCHANGED HasRow(c)
  BY DEF HasRow
<1>3. CASE TaskBind(h)
  <2>1. UNCHANGED <<row, leases>>
    BY <1>3 DEF TaskBind
  <2>2. binding' = binding \/ binding' = Bound(task[h].call, theDialog)
    BY <1>0, <1>3 DEF TaskBind, TaskFits
  <2>3. binding[c] = theDialog => binding'[c] = theDialog
    BY <1>0, <2>2 DEF Bound, AdmissionTypeOK
  <2> QED BY <1>0, <1>1, <1>2, <2>1, <2>3 DEF QuietFor
<1>4. CASE TaskRead(h)
  BY <1>0, <1>4, QuietIfUnchanged DEF TaskRead
<1>5. CASE TaskSIP(h)
  <2>1. UNCHANGED <<leases, binding>>
    BY <1>5 DEF TaskSIP
  <2>2. HasRow(c)' = HasRow(c)
    BY <1>0, <1>5 DEF TaskSIP, SetOutboundSIP, storeVars, StoreTypeOK, Rows, HasRow
  <2> QED BY <1>0, <1>1, <2>1, <2>2 DEF QuietFor
<1>6. CASE TaskRefresh(h)
  <2>1. UNCHANGED <<row, binding>>
    BY <1>6 DEF TaskRefresh
  <2>2. leases' = leases \/ leases' = Leased(task[h].snap.trunk, CallLease(task[h].call))
    BY <1>6 DEF TaskRefresh
  <2>3. HasChannelLease(c)' = HasChannelLease(c) /\ (HasCallLease(c) => HasCallLease(c)')
    <3>1. CASE task[h].snap.trunk \in Trunks
      BY <1>0, <1>1, <2>2, <3>1, LeaseEffects
    <3>2. CASE task[h].snap.trunk \notin Trunks
      BY <1>0, <1>1, <2>2, <3>2 DEF Leased, AdmissionTypeOK
    <3> QED BY <3>1, <3>2
  <2> QED BY <1>0, <1>2, <2>1, <2>3 DEF QuietFor
<1>7. CASE TaskApply(h)
  <2>1. UNCHANGED <<leases, binding>>
    BY <1>7 DEF TaskApply
  <2>2. UNCHANGED row \/ Mark(task[h].call, task[h].type)
    BY <1>7 DEF TaskApply, storeVars
  <2>3. HasRow(c)' = HasRow(c)
    BY <1>0, <1>2, <2>2, MarkKeepsRows
  <2> QED BY <1>0, <1>1, <2>1, <2>3 DEF QuietFor
<1>8. CASE TaskDelete(h)
  <2>1. UNCHANGED <<row, leases>> /\ chan[task[h].call].st = "hungup"
    BY <1>0, <1>8 DEF TaskDelete, TaskFits
  <2>2. c # task[h].call => binding'[c] = binding[c]
    BY <1>0, <1>8 DEF TaskDelete, Unbound, AdmissionTypeOK
  <2> QED BY <1>0, <1>1, <1>2, <2>1, <2>2 DEF QuietFor
<1>9. CASE TaskRelease(h)
  <2>1. UNCHANGED <<row, binding>> /\ chan[task[h].call].st = "hungup"
    BY <1>0, <1>9 DEF TaskRelease, TaskFits
  <2>2. leases' = leases \/ leases' = Released(task[h].snap.trunk, CallLease(task[h].call))
    BY <1>9 DEF TaskRelease
  <2>3. /\ HasChannelLease(c)' = HasChannelLease(c)
        /\ c # task[h].call => HasCallLease(c)' = HasCallLease(c)
    <3>1. CASE task[h].snap.trunk \in Trunks
      BY <1>0, <1>1, <2>2, <3>1, LeaseEffects
    <3>2. CASE task[h].snap.trunk \notin Trunks
      BY <1>0, <1>1, <2>2, <3>2 DEF Released, AdmissionTypeOK
    <3> QED BY <3>1, <3>2
  <2> QED BY <1>0, <1>2, <2>1, <2>3 DEF QuietFor
<1>10. QED
  BY <1>3, <1>4, <1>5, <1>6, <1>7, <1>8, <1>9 DEF Observe, ObserveLifecycle

LEMMA ReconcileQuiet ==
    ASSUME TypeOK, Reconciliation, NEW c \in Calls
    PROVE  QuietFor(c)
<1>0. /\ AdmissionTypeOK /\ UNCHANGED <<chan, admission, row, binding>>
  BY DEF TypeOK, Reconciliation, Reconcile, ReconcileList, ReconcileRefresh
<1>1. UNCHANGED leases => UNCHANGED <<HasCallLease(c), HasChannelLease(c)>>
  BY DEF HasCallLease, HasChannelLease
<1>2. UNCHANGED leases \/ \E p \in recon : leases' = Leased(p[1], CallLease(p[2]))
  BY DEF Reconciliation, Reconcile, ReconcileList, ReconcileRefresh
<1>3. \A p \in recon : p[1] \in Trunks /\ p[2] \in Calls
  BY <1>0 DEF AdmissionTypeOK
<1>4. HasChannelLease(c)' = HasChannelLease(c) /\ (HasCallLease(c) => HasCallLease(c)')
  BY <1>0, <1>1, <1>2, <1>3, LeaseEffects
<1>5. QED
  BY <1>0, <1>4 DEF QuietFor, HasRow

\* A step of the protocol, seen by one call: one of its own handlers', the
\* arrival of its channel, or one that is quiet for it.
CallStep(c) ==
    \/ \E w \in Workers : AdmitInbound(c, w)
    \/ ChannelCreate(c)
    \/ \E w \in Workers : WorkerCrash(c, w)
    \/ QuietFor(c)

LEMMA StepOfCall ==
    ASSUME TypeOK, TasksFit, [Next]_vars, NEW c \in Calls
    PROVE  CallStep(c)
<1>1. ASSUME NEW d \in Calls, NEW w \in Workers, AdmitInbound(d, w) PROVE CallStep(c)
  BY <1>1, AdmitElsewhere DEF CallStep
<1>2. ASSUME NEW d \in Calls, SwitchStep(d) PROVE CallStep(c)
  BY <1>2, SwitchEffects DEF CallStep
<1>3. ASSUME NEW d \in Calls, NEW w \in Workers, WorkerCrash(d, w) PROVE CallStep(c)
  <2>1. CASE d = c
    BY <1>3, <2>1 DEF CallStep
  <2>2. CASE d # c
    <3>1. admission'[c] = admission[c] /\ UNCHANGED <<row, leases, binding, chan>>
      BY <1>3, <2>2, CrashEffects DEF OthersStay
    <3> QED BY <3>1 DEF CallStep, QuietFor, HasRow, HasCallLease, HasChannelLease
  <2> QED BY <2>1, <2>2
<1>4. ASSUME NEW h \in Tasks, Observe(h) PROVE CallStep(c)
  BY <1>4, ObserveQuiet DEF CallStep
<1>5. CASE Reconciliation
  BY <1>5, ReconcileQuiet DEF CallStep
<1>6. CASE UNCHANGED vars
  BY <1>6, QuietIfUnchanged DEF vars, CallStep
<1>7. QED
  BY <1>1, <1>2, <1>3, <1>4, <1>5, <1>6 DEF Next

\* A channel that has hung up stays so.
LEMMA HungUpStays ==
    ASSUME TypeOK, NEW c \in Calls, CallStep(c), chan[c].st = "hungup"
    PROVE  chan'[c].st = "hungup"
<1>1. ASSUME NEW w \in Workers, AdmitInbound(c, w) PROVE chan'[c].st = "hungup"
  BY <1>1, AdmitEffects DEF SharedStep, Up
<1>2. ASSUME NEW w \in Workers, WorkerCrash(c, w) PROVE chan'[c].st = "hungup"
  BY <1>2, CrashEffects
<1>3. CASE QuietFor(c)
  BY <1>3 DEF QuietFor, Up
<1>4. QED
  BY <1>1, <1>2, <1>3 DEF CallStep, ChannelCreate

LEMMA DispatchTaskStep ==
    ASSUME TypeOK, NEW c \in Calls, NEW e, ChannelEvent(c, e), NEW g \in Tasks,
           TaskFits(task[g]),
           IsTerminalLifecycle(e) => chan'[c].st = "hungup",
           \A d \in Calls : chan[d].st = "hungup" => chan'[d].st = "hungup"
    PROVE  TaskFits(task[g])'
<1> DEFINE new == [pc |-> IF IsTerminalLifecycle(e) THEN "read" ELSE "bind",
                   call |-> c, chan |-> theDialog, type |-> e, snap |-> NoSnap]
<1>0. task \in [Tasks -> TaskRecs]
  BY DEF TypeOK, ObserverTypeOK
<1>1. CASE task'[g] = task[g]
  <2>1. TaskStep(task[g], task'[g]) /\ task[g] \in TaskRecs
    BY <1>0, <1>1 DEF TaskStep
  <2> QED BY <2>1, TaskStepFits DEF TaskFits
<1>2. CASE task'[g] = new
  <2>1. /\ task'[g].chan = theDialog /\ task'[g].call = c /\ task'[g].type = e
        /\ task'[g].pc \notin {"delete", "release"}
    BY <1>2
  <2> QED BY <2>1 DEF TaskFits
<1>3. task' = task \/ \E h \in Tasks : task' = [task EXCEPT ![h] = new]
  BY DEF ChannelEvent, Dispatch
<1>4. task'[g] = task[g] \/ task'[g] = new
  <2> HIDE DEF new
  <2> QED BY <1>0, <1>3
<1>5. QED
  BY <1>1, <1>2, <1>4

LEMMA TasksFitStep ==
    ASSUME TypeOK, TasksFit, [Next]_vars
    PROVE  TasksFit'
<1>1. ASSUME NEW d \in Calls, chan[d].st = "hungup" PROVE chan'[d].st = "hungup"
  BY <1>1, StepOfCall, HungUpStays
<1> SUFFICES ASSUME NEW g \in Tasks PROVE TaskFits(task[g])'
  BY DEF TasksFit
<1>2. TaskFits(task[g]) /\ task[g] \in TaskRecs
  BY DEF TasksFit, TypeOK, ObserverTypeOK
<1>3. ASSUME TaskStep(task[g], task'[g]) PROVE TaskFits(task[g])'
  BY <1>1, <1>2, <1>3, TaskStepFits DEF TaskFits
<1>4. ASSUME UNCHANGED task PROVE TaskFits(task[g])'
  BY <1>3, <1>4 DEF TaskStep
<1>5. ASSUME NEW c \in Calls, HangUp(c) PROVE TaskFits(task[g])'
  <2>1. chan'[c].st = "hungup"
    BY <1>5 DEF HangUp, TypeOK, ChanRecs
  <2>2. PICK e \in HangupEvents(chan[c].st) : ChannelEvent(c, e)
    BY <1>5 DEF HangUp
  <2> QED BY <1>1, <1>2, <2>1, <2>2, DispatchTaskStep
<1>6. ASSUME NEW c \in Calls, ChannelEvent(c, "ringing") \/ ChannelEvent(c, "answered")
      PROVE  TaskFits(task[g])'
  <2>1. ~IsTerminalLifecycle("ringing") /\ ~IsTerminalLifecycle("answered")
    BY DEF IsTerminalLifecycle, TerminalEvents
  <2> QED BY <1>1, <1>2, <1>6, <2>1, DispatchTaskStep
<1>7. ASSUME NEW c \in Calls, NEW w \in Workers, AdmitInbound(c, w)
      PROVE  TaskFits(task[g])'
  <2>1. UNCHANGED task \/ HangUp(c)
    BY <1>7 DEF AdmitInbound, Lookup, Resolve, AcquireLease, CreateInbound, Reread, Unlease,
       Ensure, RefreshReused, BindReused, TagReused, AttributeNew, BindLease, FailBind,
       BindNew, TagNew, UndoBind, UnleaseChan, FailChan, Reject
  <2> QED BY <1>4, <1>5, <2>1
<1>8. ASSUME NEW c \in Calls, SwitchStep(c) PROVE TaskFits(task[g])'
  <2>1. \/ UNCHANGED task \/ HangUp(c)
        \/ ChannelEvent(c, "ringing") \/ ChannelEvent(c, "answered")
    BY <1>8 DEF SwitchStep, ChannelCreate, ChannelProgress, ChannelAnswer, ChannelHangup
  <2> QED BY <1>4, <1>5, <1>6, <2>1
<1>9. ASSUME NEW c \in Calls, NEW w \in Workers, WorkerCrash(c, w) PROVE TaskFits(task[g])'
  BY <1>4, <1>9 DEF WorkerCrash
<1>10. ASSUME NEW h \in Tasks, Observe(h) PROVE TaskFits(task[g])'
  BY <1>3, <1>10, ObserveTaskStep DEF Observe
<1>11. CASE Reconciliation \/ UNCHANGED vars
  BY <1>4, <1>11 DEF Reconciliation, vars
<1>12. QED
  BY <1>7, <1>8, <1>9, <1>10, <1>11 DEF Next

-----------------------------------------------------------------------------
(***************************************************************************)
(* AdmittedIsHeld.                                                         *)
(*                                                                         *)
(* Two handlers of one channel share its lease and its binding, and the    *)
(* error path of one takes back what the other relies on.  That is         *)
(* harmless as long as the handler on the error path really ends the call: *)
(* it is the only one, or its channel had already hung up (a Redis Bind or *)
(* a SetCallID did not fail by itself), or nothing keeps it from reaching  *)
(* the hangup (it does not crash and the hangup command does not fail).    *)
(***************************************************************************)
OneWorker == \A v, w \in Workers : v = w
HangsUpWhenDoomed == ~(MayFail("crash") \/ MayFail("hangup"))
UndoIsHarmless ==
    \/ OneWorker
    \/ ~(MayFail("bind") \/ MayFail("tag"))
    \/ HangsUpWhenDoomed

Doomed(c) == \E w \in Workers : DoomedAt(admission[c][w])

\* The channel has hung up, or it certainly will.
Lost(c) == chan[c].st = "hungup" \/ (HangsUpWhenDoomed /\ Doomed(c))

\* No handler runs before its channel exists.
Started(c) == \A w \in Workers : admission[c][w].pc # "idle" => chan[c].st # "none"

\* A handler that undoes something is alone or its channel is lost.
UndoneIsLost(c) ==
    \A w \in Workers : admission[c][w].pc \in Undoing => OneWorker \/ Lost(c)

\* From the step that takes them on, lease and binding stay until the channel
\* is lost.
HeldOnTheWay(c) ==
    ~Lost(c) => \A w \in Workers :
        /\ admission[c][w].pc \in HoldsLease => HasCallLease(c)
        /\ admission[c][w].pc \in HoldsBinding => binding[c] = theDialog

HeldInv == \A c \in Calls : Started(c) /\ UndoneIsLost(c) /\ HeldOnTheWay(c)

LEMMA StartedStep ==
    ASSUME TypeOK, NEW c \in Calls, CallStep(c), Started(c)
    PROVE  Started(c)'
<1>1. ASSUME NEW w \in Workers, AdmitInbound(c, w) PROVE Started(c)'
  <2>1. chan[c].st # "none"
    BY <1>1, AdmitEffects DEF HandlerStep, Started
  <2> QED BY <1>1, <2>1, AdmitEffects DEF SharedStep, Started
<1>2. CASE ChannelCreate(c)
  BY <1>2 DEF ChannelCreate, Started, TypeOK, ChanRecs
<1>3. ASSUME NEW w \in Workers, WorkerCrash(c, w) PROVE Started(c)'
  <2>1. chan[c].st # "none"
    BY <1>3, CrashEffects DEF Started
  <2> QED BY <1>3, <2>1, CrashEffects DEF Started
<1>4. CASE QuietFor(c)
  BY <1>4 DEF QuietFor, Started, Up
<1>5. QED
  BY <1>1, <1>2, <1>3, <1>4 DEF CallStep

LEMMA LostStays ==
    ASSUME TypeOK, NEW c \in Calls, CallStep(c), Started(c), Lost(c)
    PROVE  Lost(c)'
<1>1. CASE chan[c].st = "hungup"
  BY <1>1, HungUpStays DEF Lost
<1>2. ASSUME HangsUpWhenDoomed, NEW v \in Workers, DoomedAt(admission[c][v]),
             chan[c].st # "hungup"
      PROVE  Lost(c)'
  <2>0. /\ chan[c].st \in Up
        /\ HangsUpWhenDoomed' /\ ~MayFail("hangup") /\ ~MayFail("crash")
    BY <1>2 DEF Started, DoomedAt, Undoing, TypeOK, ChanRecs, Up, HangsUpWhenDoomed, MayFail
  <2>1. ASSUME NEW w \in Workers, AdmitInbound(c, w) PROVE Lost(c)'
    <3>1. CASE v = w
      <4>1. DoomedAt(admission'[c][w]) \/ chan'[c].st = "hungup"
        BY <1>2, <2>0, <2>1, <3>1, AdmitEffects DEF HandlerStep
      <4> QED BY <2>0, <4>1 DEF Lost, Doomed
    <3>2. CASE v # w
      BY <1>2, <2>0, <2>1, <3>2, AdmitEffects DEF OthersStay, Lost, Doomed
    <3> QED BY <3>1, <3>2
  <2>2. CASE ChannelCreate(c)
    BY <2>0, <2>2 DEF ChannelCreate, Up
  <2>3. ASSUME NEW w \in Workers, WorkerCrash(c, w) PROVE Lost(c)'
    BY <2>0, <2>3, CrashEffects
  <2>4. CASE QuietFor(c)
    BY <1>2, <2>0, <2>4 DEF QuietFor, Lost, Doomed
  <2> QED BY <2>1, <2>2, <2>3, <2>4 DEF CallStep
<1>3. QED
  BY <1>1, <1>2 DEF Lost, Doomed

LEMMA HeldInvInit ==
    ASSUME Init PROVE HeldInv /\ TasksFit
<1>1. ASSUME NEW c \in Calls, NEW w \in Workers PROVE admission[c][w].pc = "idle"
  BY DEF Init, NoAdmission
<1>2. HeldInv
  BY <1>1 DEF HeldInv, Started, UndoneIsLost, HeldOnTheWay, Undoing, HoldsLease, HoldsBinding
<1>3. IdleTask.pc = "idle" /\ IdleTask.type = "initiated"
  BY DEF IdleTask
<1>4. \A h \in Tasks : task[h] = IdleTask
  BY DEF Init, ObserverInit
<1>5. TasksFit
  BY <1>3, <1>4 DEF TasksFit, TaskFits, IsTerminalLifecycle, TerminalEvents
<1>6. QED
  BY <1>2, <1>5

LEMMA UndoneIsLostStep ==
    ASSUME TypeOK, UndoIsHarmless, NEW c \in Calls, CallStep(c), Started(c), UndoneIsLost(c)
    PROVE  UndoneIsLost(c)'
<1> SUFFICES ASSUME NEW v \in Workers, admission'[c][v].pc \in Undoing, ~OneWorker
             PROVE  Lost(c)'
  BY DEF UndoneIsLost, OneWorker
<1>1. ASSUME admission[c][v].pc \in Undoing PROVE Lost(c)'
  BY <1>1, LostStays DEF UndoneIsLost
<1>2. ASSUME NEW w \in Workers, AdmitInbound(c, w) PROVE Lost(c)'
  <2>1. CASE v # w
    BY <1>1, <1>2, <2>1, AdmitEffects DEF OthersStay
  <2>2. CASE v = w
    <3>1. DoomedAt(admission'[c][v])
      BY DEF DoomedAt
    <3>2. CASE HangsUpWhenDoomed
      BY <3>1, <3>2 DEF Lost, Doomed, HangsUpWhenDoomed, MayFail
    <3>3. CASE ~HangsUpWhenDoomed
      <4>1. ~MayFail("bind") /\ ~MayFail("tag")
        BY <3>3 DEF UndoIsHarmless
      <4>2. \/ admission[c][v].pc \in Undoing
            \/ chan[c].st \notin Up /\ admission[c][v].pc # "idle"
        BY <1>2, <2>2, <4>1, AdmitEffects DEF HandlerStep, Undoing
      <4>3. ASSUME chan[c].st \notin Up, admission[c][v].pc # "idle" PROVE Lost(c)'
        <5>1. chan[c].st = "hungup"
          BY <4>3 DEF Started, TypeOK, ChanRecs, Up
        <5> QED BY <5>1, LostStays DEF Lost
      <4> QED BY <1>1, <4>2, <4>3
    <3> QED BY <3>2, <3>3
  <2> QED BY <2>1, <2>2
<1>3. CASE ChannelCreate(c)
  <2>1. admission'[c][v].pc \in {"lookup", "done"}
    BY <1>3 DEF ChannelCreate, TypeOK, NoAdmission
  <2> QED BY <2>1 DEF Undoing
<1>4. ASSUME NEW w \in Workers, WorkerCrash(c, w) PROVE Lost(c)'
  <2>1. v # w
    BY <1>4, CrashEffects DEF Undoing
  <2> QED BY <1>1, <1>4, <2>1, CrashEffects DEF OthersStay
<1>5. CASE QuietFor(c)
  BY <1>1, <1>5 DEF QuietFor
<1>6. QED
  BY <1>2, <1>3, <1>4, <1>5 DEF CallStep

LEMMA HeldOnTheWayStep ==
    ASSUME TypeOK, NEW c \in Calls, CallStep(c), Started(c), UndoneIsLost(c), HeldOnTheWay(c)
    PROVE  HeldOnTheWay(c)'
<1> SUFFICES ASSUME ~Lost(c)', NEW v \in Workers
             PROVE  /\ admission'[c][v].pc \in HoldsLease => HasCallLease(c)'
                    /\ admission'[c][v].pc \in HoldsBinding => binding'[c] = theDialog
  BY DEF HeldOnTheWay
<1>0. /\ ~Lost(c)
      /\ admission[c][v].pc \in HoldsLease => HasCallLease(c)
      /\ admission[c][v].pc \in HoldsBinding => binding[c] = theDialog
  BY LostStays DEF HeldOnTheWay
<1>1. ASSUME NEW w \in Workers, AdmitInbound(c, w)
      PROVE  /\ admission'[c][v].pc \in HoldsLease => HasCallLease(c)'
             /\ admission'[c][v].pc \in HoldsBinding => binding'[c] = theDialog
  <2>0. /\ OthersStay(c, w)
        /\ HandlerStep(c, admission[c][w], admission'[c][w])
        /\ SharedStep(c, admission[c][w], admission'[c][w])
    BY <1>1, AdmitEffects
  <2>1. CASE admission[c][w].pc \in Undoing
    <3>1. OneWorker
      BY <1>0, <2>1 DEF UndoneIsLost
    <3>2. v = w
      BY <3>1 DEF OneWorker
    <3>3. admission'[c][v].pc \notin HoldsLease \cup HoldsBinding
      <4>1. DoomedAt(admission[c][w]) /\ admission[c][w].pc # "reject"
        BY <2>1 DEF DoomedAt, Undoing
      <4>2. DoomedAt(admission'[c][w])
        BY <2>0, <4>1 DEF HandlerStep
      <4> QED BY <3>2, <4>2 DEF DoomedAt, Undoing, HoldsLease, HoldsBinding
    <3> QED BY <3>3
  <2>2. CASE admission[c][w].pc \notin Undoing
    <3>1. /\ HasCallLease(c) => HasCallLease(c)'
          /\ binding[c] = theDialog => binding'[c] = theDialog
      BY <2>0, <2>2 DEF SharedStep, Undoing
    <3>2. CASE v = w
      BY <1>0, <2>0, <3>1, <3>2 DEF HandlerStep
    <3>3. CASE v # w
      BY <1>0, <2>0, <3>1, <3>3 DEF OthersStay
    <3> QED BY <3>2, <3>3
  <2> QED BY <2>1, <2>2
<1>2. CASE ChannelCreate(c)
  <2>1. admission'[c][v].pc \in {"lookup", "done"}
    BY <1>2 DEF ChannelCreate, TypeOK, NoAdmission
  <2> QED BY <2>1 DEF HoldsLease, HoldsBinding
<1>3. ASSUME NEW w \in Workers, WorkerCrash(c, w)
      PROVE  /\ admission'[c][v].pc \in HoldsLease => HasCallLease(c)'
             /\ admission'[c][v].pc \in HoldsBinding => binding'[c] = theDialog
  <2>1. /\ admission'[c][v] = admission[c][v] \/ admission'[c][v].pc = "done"
        /\ UNCHANGED <<leases, binding>>
    BY <1>3, CrashEffects DEF OthersStay
  <2> QED BY <1>0, <2>1 DEF HoldsLease, HoldsBinding, HasCallLease
<1>4. CASE QuietFor(c)
  BY <1>0, <1>4 DEF QuietFor, Lost
<1>5. QED
  BY <1>1, <1>2, <1>3, <1>4 DEF CallStep

\* With any number of workers admitting the same channel, any calls and any
\* event handlers, and all the other faults, a channel that was admitted and is
\* still up holds its call's lease and its binding.
THEOREM InboundAdmittedIsHeld ==
    ASSUME UndoIsHarmless PROVE Spec => []AdmittedIsHeld
<1> DEFINE IInv == TypeOK /\ TasksFit /\ HeldInv
<1>1. Init => IInv
  BY TypeInit, HeldInvInit
<1>2. IInv /\ [Next]_vars => IInv'
  <2> SUFFICES ASSUME IInv, [Next]_vars PROVE IInv'
    OBVIOUS
  <2>1. TypeOK' /\ TasksFit'
    BY TypeStep, TasksFitStep
  <2>2. ASSUME NEW c \in Calls PROVE (Started(c) /\ UndoneIsLost(c) /\ HeldOnTheWay(c))'
    BY StepOfCall, StartedStep, UndoneIsLostStep, HeldOnTheWayStep DEF HeldInv
  <2> QED BY <2>1, <2>2 DEF HeldInv
<1>3. IInv => AdmittedIsHeld
  <2> SUFFICES ASSUME IInv, NEW c \in Calls, Admitted(c)
               PROVE  CallLease(c) \in leases[TrunkOf[c]] /\ binding[c] = theDialog
    BY DEF AdmittedIsHeld
  <2>1. DOMAIN admission[c] = Workers
    BY DEF TypeOK
  <2>2. PICK w \in Workers : admission[c][w].pc = "admitted"
    BY <2>1 DEF Admitted, At
  <2>3. ~Doomed(c)
    BY <2>1 DEF Admitted, Doomed, DoomedAt, Undoing
  <2>4. ~Lost(c)
    BY <2>3 DEF Lost, Admitted, Up
  <2> QED BY <2>2, <2>4 DEF HeldInv, HeldOnTheWay, HoldsLease, HoldsBinding, HasCallLease
<1>4. QED
  BY <1>1, <1>2, <1>3, PTL DEF Spec

-----------------------------------------------------------------------------
(***************************************************************************)
(* AdmittedWithinLimit.                                                    *)
(*                                                                         *)
(* Only AcquireCallLease looks at the trunk's capacity; every refresh adds *)
(* the call's lease unchecked.  The limit holds because a channel that has *)
(* not been doomed is only refreshed when its seat was already counted:    *)
(* under the channel's lease until the row's creator moves that lease, and *)
(* under the call's lease after.  A handler whose INSERT is reported       *)
(* failed gives the channel's lease back, so a commit whose outcome is     *)
(* lost breaks the argument; and so does a creator that lost its lease to  *)
(* such a handler and does not live to hang up.                            *)
(***************************************************************************)
SeatsAreCounted ==
    /\ ~MayFail("create")
    /\ OneWorker \/ HangsUpWhenDoomed

Claimed(c) == \E w \in Workers : admission[c][w].pc \in Claims

\* The channel is up, no handler is bound to hang it up, and not all are over.
Live(c) ==
    /\ chan[c].st \in Up /\ ~Doomed(c)
    /\ \E w \in Workers : admission[c][w].pc # "done"

SeatedByRow(c) == HasRow(c) /\ ~Claimed(c)
Seated(c) == Live(c) /\ (HasChannelLease(c) \/ SeatedByRow(c))

\* The channels whose seat on the trunk is counted.
Seats(t) == {c \in Calls : TrunkOf[c] = t /\ Seated(c)}

\* A channel that has not arrived has neither row nor lease.
Fresh(c) == chan[c].st = "none" => ~HasRow(c) /\ ~HasChannelLease(c)

\* A handler goes on with a call only if the call has a row.
RowIsKnown(c) == \A w \in Workers : KnowsRow(admission[c][w]) => HasRow(c)

\* Once its row is claimed, a seated channel holds the call's lease.
SeatIsHeld(c) == Live(c) /\ SeatedByRow(c) => HasCallLease(c)

SeatInv(c) == Started(c) /\ Fresh(c) /\ RowIsKnown(c) /\ SeatIsHeld(c)

LEMMA SeatInvInit ==
    ASSUME Init, NEW c \in Calls PROVE SeatInv(c)
<1>1. \A w \in Workers : admission[c][w].pc = "idle"
  BY DEF Init, NoAdmission
<1>2. chan[c].st = "none"
  BY DEF Init
<1>3. ~HasRow(c)
  BY DEF Init, StoreInit, NoRow, HasRow
<1>4. ~HasChannelLease(c)
  BY InboundAssumption DEF Init, AdmissionInit, HasChannelLease
<1>5. QED
  BY <1>1, <1>2, <1>3, <1>4 DEF SeatInv, Started, Fresh, RowIsKnown, SeatIsHeld, SeatedByRow,
     KnowsRow, Claims, HoldsLease

\* A live channel was live before, unless it has just arrived.
LEMMA LiveBefore ==
    ASSUME TypeOK, SeatsAreCounted, NEW c \in Calls, CallStep(c), SeatInv(c), Live(c)',
           ~ChannelCreate(c)
    PROVE  Live(c)
<1>1. ASSUME NEW w \in Workers, AdmitInbound(c, w) PROVE Live(c)
  <2>0. /\ OthersStay(c, w)
        /\ HandlerStep(c, admission[c][w], admission'[c][w])
        /\ SharedStep(c, admission[c][w], admission'[c][w])
    BY <1>1, AdmitEffects
  <2>1. chan[c].st \in Up
    BY <2>0 DEF SharedStep, Live, Up
  <2>2. admission[c][w].pc # "done"
    BY <2>0 DEF HandlerStep
  <2>3. ASSUME NEW v \in Workers, DoomedAt(admission[c][v]) PROVE FALSE
    <3>1. CASE v # w
      BY <2>0, <2>3, <3>1 DEF OthersStay, Live, Doomed
    <3>2. CASE v = w
      <4>1. ~DoomedAt(admission'[c][w])
        BY DEF Live, Doomed
      <4>2. admission'[c][w].pc = "done" /\ MayFail("hangup")
        BY <2>0, <2>1, <2>3, <3>2, <4>1 DEF HandlerStep, Live, Up
      <4>3. \A u \in Workers : u = w
        BY <4>2 DEF SeatsAreCounted, HangsUpWhenDoomed, OneWorker
      <4> QED BY <4>2, <4>3 DEF Live
    <3> QED BY <3>1, <3>2
  <2> QED BY <2>1, <2>2, <2>3 DEF Live, Doomed
<1>2. ASSUME NEW w \in Workers, WorkerCrash(c, w) PROVE Live(c)
  <2>1. admission'[c][w].pc = "done" /\ \A u \in Workers : u = w
    BY <1>2, CrashEffects DEF SeatsAreCounted, HangsUpWhenDoomed, OneWorker
  <2> QED BY <2>1 DEF Live
<1>3. CASE QuietFor(c)
  BY <1>3 DEF QuietFor, Live, Doomed, Up
<1>4. QED
  BY <1>1, <1>2, <1>3 DEF CallStep

LEMMA SeatedBeforeQuiet ==
    ASSUME NEW c \in Calls, QuietFor(c), Seated(c)'
    PROVE  Seated(c)
<1>1. Live(c)
  BY DEF QuietFor, Seated, Live, Doomed, Up
<1>2. QED
  BY <1>1 DEF QuietFor, Seated, SeatedByRow, Claimed

\* A seated channel was seated before, unless it has just passed the capacity
\* test of AcquireCallLease.
LEMMA SeatedBefore ==
    ASSUME TypeOK, SeatsAreCounted, NEW c \in Calls, CallStep(c), SeatInv(c), Seated(c)'
    PROVE  \/ Seated(c)
           \/ /\ \E w \in Workers : AdmitInbound(c, w)
              /\ Cardinality(leases[TrunkOf[c]]) < MaxConcurrentCalls
<1>1. CASE ChannelCreate(c)
  <2>1. UNCHANGED <<row, leases>> /\ chan[c].st = "none"
    BY <1>1 DEF ChannelCreate
  <2>2. ~HasRow(c)' /\ ~HasChannelLease(c)'
    BY <2>1 DEF SeatInv, Fresh, HasRow, HasChannelLease
  <2> QED BY <2>2 DEF Seated, SeatedByRow
<1>2. ASSUME Live(c), NEW w \in Workers, AdmitInbound(c, w)
      PROVE  Seated(c) \/ Cardinality(leases[TrunkOf[c]]) < MaxConcurrentCalls
  <2>0. /\ OthersStay(c, w)
        /\ HandlerStep(c, admission[c][w], admission'[c][w])
        /\ SharedStep(c, admission[c][w], admission'[c][w])
    BY <1>2, AdmitEffects
  <2>1. CASE HasChannelLease(c)'
    BY <1>2, <2>0, <2>1 DEF SharedStep, Seated
  <2>2. CASE SeatedByRow(c)'
    <3>1. HasRow(c)
      BY <2>0, <2>2 DEF SharedStep, SeatedByRow, Claimed, Claims, SeatsAreCounted
    <3>2. ASSUME Claimed(c) PROVE HasChannelLease(c)
      <4>1. admission[c][w].pc \in Claims
        BY <2>0, <2>2, <3>2 DEF OthersStay, SeatedByRow, Claimed
      <4>2. admission'[c][w].pc \notin Claims /\ ~DoomedAt(admission'[c][w])
        BY <2>2 DEF SeatedByRow, Claimed, Seated, Live, Doomed
      <4> QED BY <2>0, <4>1, <4>2 DEF HandlerStep
    <3> QED BY <1>2, <3>1, <3>2 DEF Seated, SeatedByRow
  <2> QED BY <2>1, <2>2 DEF Seated
<1>3. ASSUME NEW w \in Workers, WorkerCrash(c, w) PROVE FALSE
  <2>1. admission'[c][w].pc = "done" /\ \A u \in Workers : u = w
    BY <1>3, CrashEffects DEF SeatsAreCounted, HangsUpWhenDoomed, OneWorker
  <2> QED BY <2>1 DEF Seated, Live
<1>4. ASSUME Live(c), QuietFor(c) PROVE Seated(c)
  BY <1>4, SeatedBeforeQuiet
<1>5. QED
  BY <1>1, <1>2, <1>3, <1>4, LiveBefore DEF CallStep, Seated

LEMMA SeatInvStep ==
    ASSUME TypeOK, SeatsAreCounted, NEW c \in Calls, CallStep(c), SeatInv(c)
    PROVE  SeatInv(c)'
<1>1. Started(c)'
  BY StartedStep DEF SeatInv
<1>2. ASSUME NEW w \in Workers, AdmitInbound(c, w)
      PROVE  Fresh(c)' /\ RowIsKnown(c)' /\ SeatIsHeld(c)'
  <2>0. /\ OthersStay(c, w)
        /\ HandlerStep(c, admission[c][w], admission'[c][w])
        /\ SharedStep(c, admission[c][w], admission'[c][w])
    BY <1>2, AdmitEffects
  <2>1. Fresh(c)'
    <3>1. chan[c].st # "none"
      BY <2>0 DEF HandlerStep, SeatInv, Started
    <3> QED BY <2>0, <3>1 DEF SharedStep, Fresh
  <2>2. RowIsKnown(c)'
    <3> SUFFICES ASSUME NEW v \in Workers, KnowsRow(admission'[c][v]) PROVE HasRow(c)'
      BY DEF RowIsKnown, KnowsRow
    <3>1. HasRow(c)' \/ KnowsRow(admission[c][v])
      BY <2>0 DEF HandlerStep, OthersStay
    <3> QED BY <2>0, <3>1 DEF SharedStep, SeatInv, RowIsKnown
  <2>3. SeatIsHeld(c)'
    <3> SUFFICES ASSUME Live(c)', SeatedByRow(c)' PROVE HasCallLease(c)'
      BY DEF SeatIsHeld
    <3>0. ~ChannelCreate(c)
      BY <2>0 DEF HandlerStep, SeatInv, Started, ChannelCreate
    <3>1. Live(c)
      BY <3>0, LiveBefore
    <3>2. HasRow(c)
      BY <2>0 DEF SharedStep, SeatedByRow, Claimed, Claims, SeatsAreCounted
    <3>3. CASE Claimed(c)
      <4>1. admission[c][w].pc \in Claims
        BY <2>0, <3>3 DEF OthersStay, SeatedByRow, Claimed
      <4>2. admission'[c][w].pc \notin Claims /\ ~DoomedAt(admission'[c][w])
        BY DEF SeatedByRow, Claimed, Live, Doomed
      <4> QED BY <2>0, <4>1, <4>2 DEF HandlerStep
    <3>4. CASE ~Claimed(c)
      <4>1. HasCallLease(c)
        BY <3>1, <3>2, <3>4 DEF SeatInv, SeatIsHeld, SeatedByRow
      <4>2. admission[c][w].pc # "unleasechan"
        BY <3>1 DEF Live, Doomed, DoomedAt, Undoing
      <4> QED BY <2>0, <4>1, <4>2 DEF SharedStep
    <3> QED BY <3>3, <3>4
  <2> QED BY <2>1, <2>2, <2>3
<1>3. CASE ChannelCreate(c)
  <2>1. /\ UNCHANGED <<row, leases>> /\ chan[c].st = "none"
        /\ chan'[c].st = "created"
        /\ \A v \in Workers : admission'[c][v].pc \in {"lookup", "done"}
    BY <1>3 DEF ChannelCreate, TypeOK, NoAdmission, ChanRecs
  <2>2. ~HasRow(c)'
    BY <2>1 DEF SeatInv, Fresh, HasRow
  <2>3. \A v \in Workers : ~KnowsRow(admission'[c][v])
    BY <2>1 DEF KnowsRow, Claims, HoldsLease
  <2> QED BY <1>1, <2>1, <2>2, <2>3 DEF SeatInv, Fresh, RowIsKnown, SeatIsHeld, SeatedByRow
<1>4. ASSUME NEW w \in Workers, WorkerCrash(c, w) PROVE Fresh(c)' /\ RowIsKnown(c)' /\ SeatIsHeld(c)'
  <2>0. /\ OthersStay(c, w) /\ admission'[c][w].pc = "done"
        /\ UNCHANGED <<row, leases, chan>>
    BY <1>4, CrashEffects
  <2>1. HasRow(c)' = HasRow(c) /\ HasChannelLease(c)' = HasChannelLease(c)
    BY <2>0 DEF HasRow, HasChannelLease
  <2>2. RowIsKnown(c)'
    <3>1. ~KnowsRow(admission'[c][w])
      BY <2>0 DEF KnowsRow, Claims, HoldsLease
    <3> QED BY <2>0, <2>1, <3>1 DEF OthersStay, RowIsKnown, SeatInv
  <2>3. ~Live(c)'
    <3>1. \A u \in Workers : u = w
      BY <1>4, CrashEffects DEF SeatsAreCounted, HangsUpWhenDoomed, OneWorker
    <3> QED BY <2>0, <3>1 DEF Live
  <2> QED BY <2>0, <2>1, <2>2, <2>3 DEF SeatInv, Fresh, SeatIsHeld
<1>5. CASE QuietFor(c)
  <2>1. Fresh(c)'
    BY <1>5 DEF QuietFor, SeatInv, Fresh, Up
  <2>2. RowIsKnown(c)'
    BY <1>5 DEF QuietFor, SeatInv, RowIsKnown
  <2>3. SeatIsHeld(c)'
    BY <1>5 DEF QuietFor, SeatInv, SeatIsHeld, SeatedByRow, Live, Doomed, Claimed, Up
  <2> QED BY <1>1, <2>1, <2>2, <2>3 DEF SeatInv
<1>6. QED
  BY <1>1, <1>2, <1>3, <1>4, <1>5 DEF CallStep, SeatInv

\* Each seated channel has a lease of its own on its trunk.
LEMMA SeatsAreLeased ==
    ASSUME NEW t \in Trunks, IsFiniteSet(leases[t]), \A c \in Calls : SeatInv(c)
    PROVE  IsFiniteSet(Seats(t)) /\ Cardinality(Seats(t)) <= Cardinality(leases[t])
<1> DEFINE f == [c \in Seats(t) |-> IF HasChannelLease(c) THEN ChannelLease(c) ELSE CallLease(c)]
<1>1. ASSUME NEW c \in Seats(t) PROVE f[c] \in leases[t] /\ f[c][1] = c
  <2>1. c \in Calls /\ TrunkOf[c] = t /\ Seated(c) /\ SeatInv(c)
    BY DEF Seats
  <2>2. HasChannelLease(c) \/ HasCallLease(c)
    BY <2>1 DEF Seated, SeatInv, SeatIsHeld
  <2>3. ChannelLease(c)[1] = c /\ CallLease(c)[1] = c
    BY DEF ChannelLease, CallLease
  <2> QED BY <2>1, <2>2, <2>3 DEF HasChannelLease, HasCallLease
<1>2. f \in [Seats(t) -> leases[t]]
  BY <1>1
<1>3. \A c, d \in Seats(t) : f[c] = f[d] => c = d
  <2> HIDE DEF f
  <2> QED BY <1>1
<1>4. f \in Injection(Seats(t), leases[t])
  <2> HIDE DEF f
  <2> QED BY <1>2, <1>3 DEF Injection, IsInjective
<1>5. QED
  BY <1>4, FS_Injection

LeasesFinite == \A t \in Trunks : IsFiniteSet(leases[t])

LEMMA ScriptsKeepFinite ==
    ASSUME AdmissionTypeOK, LeasesFinite, NEW t, NEW m, NEW n,
           \/ leases' = leases
           \/ leases' = [leases EXCEPT ![t] = @ \cup {m}]
           \/ leases' = [leases EXCEPT ![t] = @ \ {m}]
           \/ leases' = [leases EXCEPT ![t] = (@ \ {m}) \cup {n}]
    PROVE  LeasesFinite'
<1> SUFFICES ASSUME NEW u \in Trunks PROVE IsFiniteSet(leases'[u])
  BY DEF LeasesFinite
<1>1. IsFiniteSet(leases[u]) /\ leases \in [Trunks -> SUBSET LeaseIds]
  BY DEF LeasesFinite, AdmissionTypeOK
<1>2. /\ IsFiniteSet(leases[u] \cup {m}) /\ IsFiniteSet(leases[u] \ {m})
      /\ IsFiniteSet((leases[u] \ {m}) \cup {n})
  BY <1>1, FS_AddElement, FS_RemoveElement
<1>3. leases'[u] \in {leases[u], leases[u] \cup {m}, leases[u] \ {m}, (leases[u] \ {m}) \cup {n}}
  BY <1>1
<1>4. QED
  BY <1>1, <1>2, <1>3

LEMMA LeasesFiniteStep ==
    ASSUME TypeOK, LeasesFinite, [Next]_vars
    PROVE  LeasesFinite'
<1> USE DEF Leased, Released, Rebound
<1>0. AdmissionTypeOK
  BY DEF TypeOK
<1>1. ASSUME NEW c \in Calls, NEW w \in Workers, AdmitInbound(c, w) PROVE LeasesFinite'
  BY <1>0, <1>1, AdmitLeaseStep, ScriptsKeepFinite DEF LeaseStep
<1>2. ASSUME NEW h \in Tasks, Observe(h) PROVE LeasesFinite'
  <2>1. \/ leases' = leases
        \/ leases' = Leased(task[h].snap.trunk, CallLease(task[h].call))
        \/ leases' = Released(task[h].snap.trunk, CallLease(task[h].call))
    BY <1>2 DEF Observe, ObserveLifecycle, TaskBind, TaskRead, TaskSIP, TaskRefresh, TaskApply,
       TaskDelete, TaskRelease
  <2> QED BY <1>0, <2>1, ScriptsKeepFinite
<1>3. CASE Reconciliation
  <2>1. leases' = leases \/ \E p \in recon : leases' = Leased(p[1], CallLease(p[2]))
    BY <1>3 DEF Reconciliation, Reconcile, ReconcileList, ReconcileRefresh
  <2> QED BY <1>0, <2>1, ScriptsKeepFinite
<1>4. CASE UNCHANGED leases
  BY <1>0, <1>4, ScriptsKeepFinite
<1>5. QED
  BY <1>1, <1>2, <1>3, <1>4 DEF Next, vars, SwitchStep, ChannelCreate, ChannelProgress,
     ChannelAnswer, ChannelHangup, WorkerCrash

SeatsWithinLimit == \A t \in Trunks : Cardinality(Seats(t)) <= MaxConcurrentCalls

\* A step seats at most one more channel, and only below the limit.
LEMMA SeatsStep ==
    ASSUME TypeOK, SeatsAreCounted, TasksFit, [Next]_vars, LeasesFinite,
           \A c \in Calls : SeatInv(c), SeatsWithinLimit
    PROVE  SeatsWithinLimit'
<1> SUFFICES ASSUME NEW t \in Trunks PROVE Cardinality(Seats(t)') <= MaxConcurrentCalls
  BY DEF SeatsWithinLimit
<1>1. /\ IsFiniteSet(Seats(t)) /\ Cardinality(Seats(t)) <= Cardinality(leases[t])
      /\ Cardinality(Seats(t)) \in Nat /\ Cardinality(leases[t]) \in Nat
      /\ Cardinality(Seats(t)) <= MaxConcurrentCalls
  BY SeatsAreLeased, FS_CardinalityType DEF LeasesFinite, SeatsWithinLimit
<1>2. MaxConcurrentCalls \in Nat
  BY AdmissionAssumption
<1>3. \A c : c \in Seats(t)' => c \in Calls /\ TrunkOf[c] = t /\ Seated(c)'
  BY DEF Seats
<1>4. \A c \in Calls : TrunkOf[c] = t /\ Seated(c) => c \in Seats(t)
  BY DEF Seats
<1>5. ASSUME Seats(t)' \subseteq Seats(t) PROVE Cardinality(Seats(t)') <= MaxConcurrentCalls
  <2>1. IsFiniteSet(Seats(t)') /\ Cardinality(Seats(t)') <= Cardinality(Seats(t))
    BY <1>1, <1>5, FS_Subset
  <2>2. Cardinality(Seats(t)') \in Nat
    BY <2>1, FS_CardinalityType
  <2> QED BY <1>1, <1>2, <2>1, <2>2
<1>6. ASSUME NEW c \in Calls, Seats(t)' \subseteq Seats(t) \cup {c},
             Cardinality(leases[t]) < MaxConcurrentCalls
      PROVE  Cardinality(Seats(t)') <= MaxConcurrentCalls
  <2>1. /\ IsFiniteSet(Seats(t) \cup {c})
        /\ Cardinality(Seats(t) \cup {c}) \in Nat
        /\ Cardinality(Seats(t) \cup {c}) <= Cardinality(Seats(t)) + 1
    <3>1. /\ IsFiniteSet(Seats(t) \cup {c})
          /\ Cardinality(Seats(t) \cup {c}) =
                IF c \in Seats(t) THEN Cardinality(Seats(t)) ELSE Cardinality(Seats(t)) + 1
      BY <1>1, FS_AddElement
    <3> QED BY <1>1, <3>1
  <2>2. IsFiniteSet(Seats(t)') /\ Cardinality(Seats(t)') <= Cardinality(Seats(t) \cup {c})
    BY <1>6, <2>1, FS_Subset
  <2>3. Cardinality(Seats(t)') \in Nat
    BY <2>2, FS_CardinalityType
  <2> QED BY <1>1, <1>2, <1>6, <2>1, <2>2, <2>3
<1>7. ASSUME NEW c \in Calls, NEW w \in Workers, AdmitInbound(c, w)
      PROVE  Cardinality(Seats(t)') <= MaxConcurrentCalls
  <2>1. ASSUME NEW d \in Calls, d # c, Seated(d)' PROVE Seated(d)
    BY <1>7, <2>1, AdmitElsewhere, SeatedBeforeQuiet
  <2>2. Seats(t)' \subseteq Seats(t) \cup {c}
    BY <1>3, <1>4, <2>1
  <2>3. CASE c \in Seats(t)' /\ c \notin Seats(t)
    <3>1. TrunkOf[c] = t /\ Seated(c)' /\ ~Seated(c)
      BY <1>3, <1>4, <2>3
    <3>2. Cardinality(leases[t]) < MaxConcurrentCalls
      BY <3>1, StepOfCall, SeatedBefore
    <3> QED BY <1>6, <2>2, <3>2
  <2>4. CASE ~(c \in Seats(t)' /\ c \notin Seats(t))
    BY <1>5, <2>2, <2>4
  <2> QED BY <2>3, <2>4
<1>8. CASE ~\E c \in Calls : \E w \in Workers : AdmitInbound(c, w)
  <2>1. ASSUME NEW c \in Calls, Seated(c)' PROVE Seated(c)
    BY <1>8, <2>1, StepOfCall, SeatedBefore
  <2> QED BY <1>3, <1>4, <1>5, <2>1
<1>9. QED
  BY <1>7, <1>8

\* A trunk never carries more admitted channels than MaxConcurrentCalls, for any
\* number of channels arriving at once, while their events, the lease refreshes
\* of the reconciliation and all other faults go on.
THEOREM InboundAdmittedWithinLimit ==
    ASSUME SeatsAreCounted PROVE Spec => []AdmittedWithinLimit
<1> DEFINE SeatsOK == \A c \in Calls : SeatInv(c)
           IInv == TypeOK /\ TasksFit /\ LeasesFinite /\ SeatsOK /\ SeatsWithinLimit
<1>1. Init => IInv
  <2> SUFFICES ASSUME Init PROVE IInv
    OBVIOUS
  <2>1. LeasesFinite
    BY FS_EmptySet DEF Init, AdmissionInit, LeasesFinite
  <2>2. SeatsOK
    BY SeatInvInit
  <2>3. ASSUME NEW t \in Trunks PROVE Cardinality(Seats(t)) <= MaxConcurrentCalls
    <3>1. Seats(t) = {}
      BY DEF Init, Seats, Seated, Live, Up
    <3> QED BY <3>1, FS_EmptySet, AdmissionAssumption
  <2> QED BY <2>1, <2>2, <2>3, TypeInit, HeldInvInit DEF SeatsWithinLimit
<1>2. IInv /\ [Next]_vars => IInv'
  <2> SUFFICES ASSUME IInv, [Next]_vars PROVE IInv'
    OBVIOUS
  <2>1. TypeOK' /\ TasksFit' /\ LeasesFinite'
    BY TypeStep, TasksFitStep, LeasesFiniteStep
  <2>2. SeatsOK'
    BY StepOfCall, SeatInvStep
  <2>3. SeatsWithinLimit'
    BY SeatsStep
  <2> QED BY <2>1, <2>2, <2>3
<1>3. IInv => AdmittedWithinLimit
  <2> SUFFICES ASSUME IInv, NEW t \in Trunks
               PROVE  Cardinality({c \in Calls : TrunkOf[c] = t /\ Admitted(c)})
                         <= MaxConcurrentCalls
    BY DEF AdmittedWithinLimit
  <2>1. ASSUME NEW c \in Calls, Admitted(c) PROVE Seated(c)
    <3>1. DOMAIN admission[c] = Workers
      BY DEF TypeOK
    <3>2. PICK w \in Workers : admission[c][w].pc = "admitted"
      BY <2>1, <3>1 DEF Admitted, At
    <3>3. \A v \in Workers : admission[c][v].pc \in {"admitted", "done"}
      BY <2>1, <3>1 DEF Admitted
    <3>4. ~Doomed(c) /\ ~Claimed(c)
      BY <3>3 DEF Doomed, DoomedAt, Undoing, Claimed, Claims
    <3>5. HasRow(c)
      BY <3>2 DEF SeatInv, RowIsKnown, KnowsRow, HoldsLease
    <3> QED BY <2>1, <3>2, <3>4, <3>5 DEF Seated, Live, SeatedByRow, Admitted
  <2>2. {c \in Calls : TrunkOf[c] = t /\ Admitted(c)} \subseteq Seats(t)
    BY <2>1 DEF Seats
  <2>3. /\ IsFiniteSet(Seats(t)) /\ Cardinality(Seats(t)) <= MaxConcurrentCalls
        /\ Cardinality(Seats(t)) \in Nat
    BY SeatsAreLeased, FS_CardinalityType DEF LeasesFinite, SeatsWithinLimit
  <2>4. /\ IsFiniteSet({c \in Calls : TrunkOf[c] = t /\ Admitted(c)})
        /\ Cardinality({c \in Calls : TrunkOf[c] = t /\ Admitted(c)}) <= Cardinality(Seats(t))
    BY <2>2, <2>3, FS_Subset
  <2>5. Cardinality({c \in Calls : TrunkOf[c] = t /\ Admitted(c)}) \in Nat
    BY <2>4, FS_CardinalityType
  <2> QED BY <2>3, <2>4, <2>5, AdmissionAssumption
<1>4. QED
  BY <1>1, <1>2, <1>3, PTL DEF Spec
=============================================================================
