------------------------- MODULE OutboundCallProofs -------------------------
(***************************************************************************)
(* Proofs about OutboundCall, for any number of calls, trunks, routes and  *)
(* concurrent event handlers, with and without infrastructure faults.      *)
(***************************************************************************)
EXTENDS OutboundCall, CallLifecycleProofs

\* The steps of Create that use the current route run inside the route plan.
AttemptInPlan ==
    \A c \in Calls :
        creator[c].pc \in {"attribute", "acquire", "originate", "release",
                           "bind", "hangup", "unlease"}
            => creator[c].attempt \in Attempts

LEMMA AttemptsInRange ==
    /\ Attempts \subseteq Dialogs
    /\ Attempts \subseteq ChannelIds
    /\ \A i \in Attempts : Plan[i] \in Trunks
  BY OutboundAssumption DEF Attempts, maxOutboundAttempts, ChannelIds

LEMMA ChanStType ==
    ASSUME TypeOK, NEW c \in Calls, NEW i \in Attempts, NEW s \in ChanStates
    PROVE  [chan EXCEPT ![c][i].st = s] \in [Calls -> [Attempts -> ChanRecs]]
<1> DEFINE new == [chan[c][i] EXCEPT !.st = s]
<1>1. chan \in [Calls -> [Attempts -> ChanRecs]]
  BY DEF TypeOK, SwitchTypeOK
<1>2. chan[c] \in [Attempts -> ChanRecs] /\ chan[c][i] \in ChanRecs
  BY <1>1
<1>3. new \in ChanRecs
  BY <1>2 DEF ChanRecs
<1>4. [chan[c] EXCEPT ![i] = new] \in [Attempts -> ChanRecs]
  BY <1>2, <1>3
<1>5. [chan EXCEPT ![c] = [chan[c] EXCEPT ![i] = new]] \in [Calls -> [Attempts -> ChanRecs]]
  BY <1>1, <1>4
<1>6. QED
  BY <1>5

LEMMA HangUpType ==
    ASSUME TypeOK, NEW c \in Calls, NEW i \in Attempts, HangUp(c, i)
    PROVE  /\ ObserverTypeOK'
           /\ chan' \in [Calls -> [Attempts -> ChanRecs]]
<1>1. PICK e \in HangupEvents(chan[c][i].st) : Dispatch(c, i, e)
  BY DEF HangUp
<1>2. ObserverTypeOK'
  BY <1>1, HangupEventType, DispatchType, AttemptsInRange DEF TypeOK
<1>3. chan' \in [Calls -> [Attempts -> ChanRecs]]
  BY ChanStType DEF HangUp, ChanStates
<1>4. QED
  BY <1>2, <1>3

\* What Create needs from its program counter, in one place.
OutboundInv == TypeOK /\ AttemptInPlan

LEMMA CreatorType ==
    ASSUME TypeOK, NEW c \in Calls, NEW new \in Creators
    PROVE  [creator EXCEPT ![c] = new] \in [Calls -> Creators]
  BY DEF TypeOK, SwitchTypeOK

LEMMA CreatorFields ==
    ASSUME TypeOK, NEW c \in Calls, NEW pc \in CreatorPCs
    PROVE  /\ \A k \in ChannelIds :
                [creator EXCEPT ![c].pc = pc, ![c].attempt = k] \in [Calls -> Creators]
           /\ \A b \in BOOLEAN :
                /\ [creator EXCEPT ![c].pc = pc, ![c].retry = b] \in [Calls -> Creators]
                /\ [creator EXCEPT ![c].pc = pc, ![c].reported = b] \in [Calls -> Creators]
<1>1. creator[c] \in Creators
  BY DEF TypeOK, SwitchTypeOK
<1>2. ASSUME NEW k \in ChannelIds
      PROVE  [creator EXCEPT ![c].pc = pc, ![c].attempt = k] \in [Calls -> Creators]
  <2>1. [creator[c] EXCEPT !.pc = pc, !.attempt = k] \in Creators
    BY <1>1 DEF Creators
  <2> QED BY <2>1 DEF TypeOK, SwitchTypeOK
<1>3. ASSUME NEW b \in BOOLEAN
      PROVE  /\ [creator EXCEPT ![c].pc = pc, ![c].retry = b] \in [Calls -> Creators]
             /\ [creator EXCEPT ![c].pc = pc, ![c].reported = b] \in [Calls -> Creators]
  <2>1. [creator[c] EXCEPT !.pc = pc, !.retry = b] \in Creators
    BY <1>1 DEF Creators
  <2>2. [creator[c] EXCEPT !.pc = pc, !.reported = b] \in Creators
    BY <1>1 DEF Creators
  <2> QED BY <2>1, <2>2 DEF TypeOK, SwitchTypeOK
<1>4. QED
  BY <1>2, <1>3

LEMMA ToType ==
    ASSUME TypeOK, NEW c \in Calls, NEW pc \in CreatorPCs, To(c, pc)
    PROVE  creator' \in [Calls -> Creators]
  BY DEF TypeOK, SwitchTypeOK, To, Creators

LEMMA NextAttemptType ==
    ASSUME TypeOK, NEW c \in Calls, NextAttempt(c)
    PROVE  creator' \in [Calls -> Creators]
<1>1. CASE creator[c].attempt + 1 \in Attempts /\ creator[c].ctx
  <2> DEFINE k == creator[c].attempt + 1
  <2>1. creator' = [creator EXCEPT ![c].pc = "attribute", ![c].attempt = k]
    BY <1>1 DEF NextAttempt
  <2>2. k \in Attempts
    BY <1>1
  <2> HIDE DEF k
  <2>3. k \in ChannelIds
    BY <2>2, AttemptsInRange DEF ChannelIds, maxOutboundAttempts
  <2> QED BY <2>1, <2>3, CreatorFields DEF CreatorPCs
<1>2. CASE ~(creator[c].attempt + 1 \in Attempts /\ creator[c].ctx)
  BY <1>2, ToType DEF NextAttempt, CreatorPCs
<1>3. QED BY <1>1, <1>2

RuntimeTypeOK == AdmissionTypeOK /\ ObserverTypeOK /\ SwitchTypeOK

LEMMA CreateType ==
    ASSUME OutboundInv, NEW c \in Calls, CreateStep(c)
    PROVE  RuntimeTypeOK'
<1> USE DEF OutboundInv
<1> DEFINE CreatorOK == creator' \in [Calls -> Creators]
           LeasesOK == leases' \in [Trunks -> SUBSET LeaseIds]
<1>0. AdmissionTypeOK /\ ObserverTypeOK /\ SwitchTypeOK
  BY DEF TypeOK
<1>a. ASSUME creator[c].attempt \in Attempts
      PROVE  \A t : t = Plan[creator[c].attempt] =>
                /\ Leased(t, CallLease(c)) \in [Trunks -> SUBSET LeaseIds]
                /\ Released(t, CallLease(c)) \in [Trunks -> SUBSET LeaseIds]
  BY <1>0, <1>a, AttemptsInRange, LeaseTypes
<1>1. CASE Create(c)
  <2>1. CreatorOK
    BY <1>1, ToType DEF Create, CreatorPCs
  <2> QED BY <1>0, <1>1, <2>1 DEF Create, RuntimeTypeOK, AdmissionTypeOK, ObserverTypeOK,
             SwitchTypeOK
<1>2. CASE ResolveRoute(c)
  <2>1. 1 \in ChannelIds
    BY OutboundAssumption DEF ChannelIds, maxOutboundAttempts
  <2>2. CreatorOK
    <3>1. CASE To(c, "fail")
      BY <3>1, ToType DEF CreatorPCs
    <3>2. CASE creator' = [creator EXCEPT ![c].pc = "attribute", ![c].attempt = 1]
      BY <2>1, <3>2, CreatorFields DEF CreatorPCs
    <3> QED BY <1>2, <3>1, <3>2 DEF ResolveRoute
  <2> QED BY <1>0, <1>2, <2>2 DEF ResolveRoute, RuntimeTypeOK, AdmissionTypeOK,
             ObserverTypeOK, SwitchTypeOK
<1>3. CASE Attribute(c)
  <2>1. CreatorOK
    BY <1>3, ToType DEF Attribute, CreatorPCs
  <2> QED BY <1>0, <1>3, <2>1 DEF Attribute, RuntimeTypeOK, AdmissionTypeOK,
             ObserverTypeOK, SwitchTypeOK
<1>4. CASE Acquire(c)
  <2>1. CreatorOK
    BY <1>4, ToType, NextAttemptType DEF Acquire, CreatorPCs
  <2>2. LeasesOK
    <3>1. creator[c].attempt \in Attempts
      BY <1>4 DEF Acquire, AttemptInPlan
    <3> QED BY <1>0, <1>4, <1>a, <3>1 DEF Acquire, AdmissionTypeOK
  <2> QED BY <1>0, <1>4, <2>1, <2>2 DEF Acquire, RuntimeTypeOK, AdmissionTypeOK,
             ObserverTypeOK, SwitchTypeOK
<1>5. CASE Originate(c)
  <2>1. creator[c].attempt \in Attempts
    BY <1>5 DEF Originate, AttemptInPlan
  <2>2. chan' \in [Calls -> [Attempts -> ChanRecs]]
    <3>1. CASE chan' = chan
      BY <1>0, <3>1 DEF SwitchTypeOK
    <3>2. CASE chan' = [chan EXCEPT ![c][creator[c].attempt].st = "queued"]
      BY <2>1, <3>2, ChanStType DEF ChanStates
    <3> QED BY <1>5, <3>1, <3>2 DEF Originate
  <2>3. CreatorOK
    <3>1. CASE creator' = [creator EXCEPT ![c].pc = "bind", ![c].reported = TRUE]
      BY <3>1, CreatorFields DEF CreatorPCs
    <3>2. ASSUME NEW b \in BOOLEAN,
                 creator' = [creator EXCEPT ![c].pc = "release", ![c].retry = b]
          PROVE  CreatorOK
      BY <3>2, CreatorFields DEF CreatorPCs
    <3>3. \A class : RetryableClass(class) \in BOOLEAN
      BY DEF RetryableClass
    <3> QED BY <1>5, <3>1, <3>2, <3>3 DEF Originate
  <2> QED BY <1>0, <1>5, <2>2, <2>3 DEF Originate, RuntimeTypeOK, AdmissionTypeOK,
             ObserverTypeOK, SwitchTypeOK
<1>6. CASE ReleaseAttempt(c)
  <2>1. CreatorOK
    BY <1>6, ToType, NextAttemptType DEF ReleaseAttempt, CreatorPCs
  <2>2. LeasesOK
    <3>1. creator[c].attempt \in Attempts
      BY <1>6 DEF ReleaseAttempt, AttemptInPlan
    <3> QED BY <1>0, <1>6, <1>a, <3>1 DEF ReleaseAttempt, AdmissionTypeOK
  <2> QED BY <1>0, <1>6, <2>1, <2>2 DEF ReleaseAttempt, RuntimeTypeOK, AdmissionTypeOK,
             ObserverTypeOK, SwitchTypeOK
<1>7. CASE BindChannel(c)
  <2>1. Bound(c, creator[c].attempt) \in [Calls -> ChannelIds]
    BY <1>0, BindingTypes DEF SwitchTypeOK, Creators
  <2>2. binding' \in [Calls -> ChannelIds]
    BY <1>0, <1>7, <2>1 DEF BindChannel, AdmissionTypeOK
  <2>3. CreatorOK
    <3>1. CASE To(c, "done")
      BY <3>1, ToType DEF CreatorPCs
    <3>2. CASE creator' = [creator EXCEPT ![c].pc = "hangup", ![c].reported = FALSE]
      BY <3>2, CreatorFields DEF CreatorPCs
    <3> QED BY <1>7, <3>1, <3>2 DEF BindChannel
  <2> QED BY <1>0, <1>7, <2>2, <2>3 DEF BindChannel, RuntimeTypeOK, AdmissionTypeOK,
             ObserverTypeOK, SwitchTypeOK
<1>8. CASE UnwindHangup(c)
  <2>1. creator[c].attempt \in Attempts
    BY <1>8 DEF UnwindHangup, AttemptInPlan
  <2>2. CreatorOK
    BY <1>8, ToType DEF UnwindHangup, CreatorPCs
  <2>3. ObserverTypeOK' /\ chan' \in [Calls -> [Attempts -> ChanRecs]]
    BY <1>0, <1>8, <2>1, HangUpType DEF UnwindHangup, ObserverTypeOK, SwitchTypeOK
  <2> QED BY <1>0, <1>8, <2>2, <2>3 DEF UnwindHangup, RuntimeTypeOK, AdmissionTypeOK,
             SwitchTypeOK
<1>9. CASE UnwindRelease(c)
  <2>1. CreatorOK
    BY <1>9, ToType DEF UnwindRelease, CreatorPCs
  <2>2. LeasesOK
    <3>1. creator[c].attempt \in Attempts
      BY <1>9 DEF UnwindRelease, AttemptInPlan
    <3> QED BY <1>0, <1>9, <1>a, <3>1 DEF UnwindRelease, AdmissionTypeOK
  <2> QED BY <1>0, <1>9, <2>1, <2>2 DEF UnwindRelease, RuntimeTypeOK, AdmissionTypeOK,
             ObserverTypeOK, SwitchTypeOK
<1>10. CASE MarkCreateFailed(c)
  <2>1. CreatorOK
    BY <1>10, ToType DEF MarkCreateFailed, CreatorPCs
  <2> QED BY <1>0, <1>10, <2>1 DEF MarkCreateFailed, RuntimeTypeOK, AdmissionTypeOK,
             ObserverTypeOK, SwitchTypeOK
<1>11. QED
  BY <1>1, <1>2, <1>3, <1>4, <1>5, <1>6, <1>7, <1>8, <1>9, <1>10 DEF CreateStep

LEMMA SwitchType ==
    ASSUME TypeOK, NEW c \in Calls, SwitchStep(c)
    PROVE  RuntimeTypeOK'
<1> USE DEF LifecycleEvents, ProgressEvents, ChanStates, SwitchOnly
<1>0. AdmissionTypeOK /\ ObserverTypeOK /\ SwitchTypeOK
  BY DEF TypeOK
\* The channels and the new handler are all a step of the switch touches.
<1>1. ASSUME ObserverTypeOK', chan' \in [Calls -> [Attempts -> ChanRecs]], SwitchOnly
      PROVE  RuntimeTypeOK'
  BY <1>0, <1>1 DEF RuntimeTypeOK, AdmissionTypeOK, SwitchTypeOK
<1>2. \A i \in Attempts, e \in LifecycleEvents : Dispatch(c, i, e) => ObserverTypeOK'
  BY <1>0, DispatchType, AttemptsInRange
<1>3. CASE Hold(c)
  <2> DEFINE i == binding[c]
             new == [st |-> "held", holds |-> chan[c][i].holds + 1]
  <2>1. i \in Attempts
    BY <1>3 DEF Hold
  <2>2. chan \in [Calls -> [Attempts -> ChanRecs]] /\ chan[c] \in [Attempts -> ChanRecs]
    BY <1>0 DEF SwitchTypeOK
  <2>3. chan[c][i].holds \in Nat
    BY <2>1, <2>2 DEF ChanRecs
  <2>4. new \in ChanRecs
    BY <2>3 DEF ChanRecs
  <2>5. chan' = [chan EXCEPT ![c][i] = new]
    BY <1>3 DEF Hold
  <2>6. chan' \in [Calls -> [Attempts -> ChanRecs]]
    <3> HIDE DEF new, i
    <3>1. [chan[c] EXCEPT ![i] = new] \in [Attempts -> ChanRecs]
      BY <2>1, <2>2, <2>4
    <3> QED BY <2>2, <2>5, <3>1
  <2>7. ObserverTypeOK'
    BY <1>2, <1>3, <2>1 DEF Hold
  <2> QED BY <1>1, <1>3, <2>6, <2>7 DEF Hold
<1>4. CASE Resume(c)
  BY <1>1, <1>2, <1>4, ChanStType DEF Resume
<1>5. ASSUME NEW i \in Attempts, ChannelCreate(c, i) PROVE RuntimeTypeOK'
  BY <1>1, <1>2, <1>5, ChanStType DEF ChannelCreate
<1>6. ASSUME NEW i \in Attempts, ChannelProgress(c, i) PROVE RuntimeTypeOK'
  BY <1>1, <1>2, <1>6, ChanStType DEF ChannelProgress
<1>7. ASSUME NEW i \in Attempts, ChannelAnswer(c, i) PROVE RuntimeTypeOK'
  BY <1>1, <1>2, <1>7, ChanStType DEF ChannelAnswer
<1>8. ASSUME NEW i \in Attempts, ChannelHangup(c, i) PROVE RuntimeTypeOK'
  BY <1>1, <1>8, HangUpType DEF ChannelHangup
<1>9. QED
  BY <1>3, <1>4, <1>5, <1>6, <1>7, <1>8 DEF SwitchStep

\* Every step of the protocol is one statement of the call store, or none.
LEMMA StepIsStatement ==
    ASSUME OutboundInv, [Next]_vars
    PROVE  [StoreNext]_storeVars
<1> USE DEF OutboundInv, storeVars
<1>1. ASSUME NEW c \in Calls, CreateStep(c) PROVE [StoreNext]_storeVars
  <2>1. CASE Create(c)
    BY <1>1, <2>1 DEF Create, StoreNext
  <2>2. CASE Attribute(c)
    <3>1. Plan[creator[c].attempt] \in Trunks
      BY <2>2, AttemptsInRange DEF Attribute, AttemptInPlan
    <3> QED BY <1>1, <2>2, <3>1 DEF Attribute, StoreNext
  <2>3. CASE MarkCreateFailed(c)
    <3>1. "failed" \in LifecycleEvents
      BY DEF LifecycleEvents, TerminalEvents
    <3> QED BY <1>1, <2>3, <3>1 DEF MarkCreateFailed, StoreNext
  <2>4. CASE ~(Create(c) \/ Attribute(c) \/ MarkCreateFailed(c))
    BY <1>1, <2>4 DEF CreateStep, ResolveRoute, Acquire, Originate, ReleaseAttempt,
       BindChannel, UnwindHangup, UnwindRelease
  <2> QED BY <2>1, <2>2, <2>3, <2>4
<1>2. ASSUME NEW c \in Calls, ClientDisconnect(c) \/ SwitchStep(c)
      PROVE  [StoreNext]_storeVars
  BY <1>2 DEF ClientDisconnect, SwitchStep, Hold, Resume, ChannelCreate, ChannelProgress,
     ChannelAnswer, ChannelHangup, SwitchOnly
<1>3. ASSUME NEW h \in Tasks, Observe(h) PROVE [StoreNext]_storeVars
  BY <1>3, ObserveIsStatement DEF Observe, TypeOK, SharedTypeOK
<1>4. CASE Reconciliation
  BY <1>4, ReconcileIsNoStatement DEF Reconciliation
<1>5. CASE UNCHANGED vars
  BY <1>5 DEF vars
<1>6. QED
  BY <1>1, <1>2, <1>3, <1>4, <1>5 DEF Next

LEMMA TypeStep ==
    ASSUME OutboundInv, [Next]_vars
    PROVE  TypeOK'
<1>1. StoreTypeOK'
  BY StepIsStatement, StatementIsRowStep DEF OutboundInv, TypeOK, StoreTypeOK
<1>2. RuntimeTypeOK'
  <2> USE DEF OutboundInv
  <2>0. AdmissionTypeOK /\ ObserverTypeOK /\ SwitchTypeOK /\ SharedTypeOK
    BY DEF TypeOK, SharedTypeOK
  <2>1. ASSUME NEW c \in Calls, CreateStep(c) PROVE RuntimeTypeOK'
    BY <2>1, CreateType
  <2>2. ASSUME NEW c \in Calls, ClientDisconnect(c) PROVE RuntimeTypeOK'
    <3>1. [creator[c] EXCEPT !.ctx = FALSE] \in Creators
      BY <2>0 DEF SwitchTypeOK, Creators
    <3>2. creator' \in [Calls -> Creators]
      BY <2>0, <2>2, <3>1 DEF ClientDisconnect, SwitchTypeOK
    <3> QED BY <2>0, <2>2, <3>2 DEF ClientDisconnect, RuntimeTypeOK, AdmissionTypeOK,
               ObserverTypeOK, SwitchTypeOK
  <2>3. ASSUME NEW c \in Calls, SwitchStep(c) PROVE RuntimeTypeOK'
    BY <2>3, SwitchType
  <2>4. ASSUME NEW h \in Tasks, Observe(h) PROVE RuntimeTypeOK'
    BY <2>0, <2>4, ObserveType DEF Observe, RuntimeTypeOK, SwitchTypeOK
  <2>5. CASE Reconciliation
    BY <2>0, <2>5, ReconcileType DEF Reconciliation, RuntimeTypeOK, ObserverTypeOK, SwitchTypeOK
  <2>6. CASE UNCHANGED vars
    BY <2>0, <2>6 DEF vars, RuntimeTypeOK, AdmissionTypeOK, ObserverTypeOK, SwitchTypeOK
  <2> QED BY <2>1, <2>2, <2>3, <2>4, <2>5, <2>6 DEF Next
<1>3. QED
  BY <1>1, <1>2 DEF TypeOK, RuntimeTypeOK

\* Create's program counter and route index move together.
LEMMA AttemptStep ==
    ASSUME OutboundInv, [Next]_vars
    PROVE  AttemptInPlan'
<1> DEFINE Routed == {"attribute", "acquire", "originate", "release",
                      "bind", "hangup", "unlease"}
<1>0. creator \in [Calls -> Creators]
  BY DEF OutboundInv, TypeOK, SwitchTypeOK
<1>1. ASSUME NEW c \in Calls, CreateStep(c) \/ ClientDisconnect(c),
             NEW d \in Calls, creator'[d].pc \in Routed
      PROVE  creator'[d].attempt \in Attempts
  <2>1. CASE d # c
    <3>1. creator'[d] = creator[d]
      BY <1>0, <1>1, <2>1 DEF CreateStep, ClientDisconnect, Create, ResolveRoute, Attribute,
         Acquire, Originate, ReleaseAttempt, BindChannel, UnwindHangup, UnwindRelease,
         MarkCreateFailed, To, NextAttempt
    <3> QED BY <1>1, <3>1 DEF OutboundInv, AttemptInPlan
  <2>2. CASE d = c
    <3>0. Attempts # {} => 1 \in Attempts
      BY OutboundAssumption DEF Attempts, maxOutboundAttempts
    <3>1. CASE creator[c].pc \in {"idle", "route", "fail", "done"}
      BY <1>0, <3>0, <1>1, <2>2, <3>1 DEF CreateStep, ClientDisconnect, Create, ResolveRoute,
         Attribute, Acquire, Originate, ReleaseAttempt, BindChannel, UnwindHangup,
         UnwindRelease, MarkCreateFailed, To, Creators
    <3>2. CASE creator[c].pc \in Routed
      <4>1. creator[c].attempt \in Attempts
        BY <3>2 DEF OutboundInv, AttemptInPlan
      <4> QED BY <1>0, <1>1, <2>2, <3>2, <4>1 DEF CreateStep, ClientDisconnect, Create,
           ResolveRoute, Attribute, Acquire, Originate, ReleaseAttempt, BindChannel,
           UnwindHangup, UnwindRelease, MarkCreateFailed, To, NextAttempt, Creators
    <3> QED BY <1>0, <3>1, <3>2 DEF Creators, CreatorPCs
  <2> QED BY <2>1, <2>2
<1>2. CASE UNCHANGED creator
  BY <1>2 DEF OutboundInv, AttemptInPlan
<1>3. CASE ~UNCHANGED creator
  <2>1. \E c \in Calls : CreateStep(c) \/ ClientDisconnect(c)
    BY <1>3 DEF Next, vars, SwitchStep, Hold, Resume, ChannelCreate, ChannelProgress,
       ChannelAnswer, ChannelHangup, SwitchOnly, Observe, Reconciliation
  <2> QED BY <1>1, <2>1 DEF AttemptInPlan
<1>4. QED BY <1>2, <1>3

LEMMA OutboundInvInit ==
    ASSUME Init PROVE OutboundInv
<1>1. StoreTypeOK
  BY StoreInvInit DEF Init, StoreInv
<1>2. AdmissionTypeOK
  BY DEF Init, AdmissionInit, AdmissionTypeOK, ChannelIds, NoDialog
<1>3. ObserverTypeOK
  BY IdleTaskType DEF Init, ObserverInit, ObserverTypeOK
<1>4. SwitchTypeOK
  <2>1. NoChan \in ChanRecs
    BY DEF NoChan, ChanRecs, ChanStates
  <2>2. [pc |-> "idle", attempt |-> 0, retry |-> FALSE, ctx |-> TRUE, reported |-> FALSE]
          \in Creators
    BY DEF Creators, CreatorPCs, ChannelIds, NoDialog
  <2> QED BY <2>1, <2>2 DEF Init, SwitchTypeOK
<1>5. AttemptInPlan
  BY DEF Init, AttemptInPlan
<1>6. QED
  BY <1>1, <1>2, <1>3, <1>4, <1>5 DEF OutboundInv, TypeOK

\* Every reachable state is well typed, for any plan, any number of calls and
\* handlers, with or without faults.
THEOREM OutboundTypeCorrect == Spec => []TypeOK
<1>1. OutboundInv /\ [Next]_vars => OutboundInv'
  BY TypeStep, AttemptStep DEF OutboundInv
<1>2. OutboundInv => TypeOK
  BY DEF OutboundInv
<1>3. QED
  BY <1>1, <1>2, OutboundInvInit, PTL DEF Spec

\* POST /calls, the ESL event handlers and the reconciliation, interleaved in
\* any way and failing anywhere, implement the call store's specification.
THEOREM OutboundImplementsStore == Spec => ImplementsStore
<1>1. OutboundInv /\ [Next]_vars => OutboundInv'
  BY TypeStep, AttemptStep DEF OutboundInv
<1>2. Init => StoreInit
  BY DEF Init
<1>3. OutboundInv /\ [Next]_vars => [StoreNext]_storeVars
  BY StepIsStatement
<1>4. QED
  BY <1>1, <1>2, <1>3, OutboundInvInit, PTL DEF Spec, StoreSpec, ImplementsStore

\* Hence no interleaving of the request with late, duplicated or overtaking
\* handlers makes the outbox diverge from the row ...
THEOREM OutboundEventsMatchRow == Spec => []EventsMatchRow
  BY OutboundImplementsStore, StoreEventsMatchRow DEF ImplementsStore

\* ... or moves a row backwards.
THEOREM OutboundRowMovesForward == Spec => RowMovesForward
  BY OutboundImplementsStore, StoreRowMovesForward DEF ImplementsStore

-----------------------------------------------------------------------------
(***************************************************************************)
(* A live channel of a successful call is held.  Only a terminal event's   *)
(* handler or the unwinding of an attempt takes a lease or a binding away: *)
(* a handler exists only for a channel that FreeSWITCH made, a terminal    *)
(* one only for a channel that hung up, and Create unwinds no attempt it   *)
(* reported.  What is left is that nothing intervenes between admission    *)
(* and origination, which holds as long as no earlier attempt left a       *)
(* channel behind.                                                         *)
(***************************************************************************)
Sent(c, i) == chan[c][i].st # "none"

\* Every handler is of a channel that was made, and a terminal one, the only
\* kind that cleans up, of one that is gone.
EventsHaveChannels ==
    \A h \in Tasks : task[h].pc # "idle" =>
       /\ task[h].chan \in Attempts /\ Sent(task[h].call, task[h].chan)
       /\ IsTerminalLifecycle(task[h].type) => chan[task[h].call][task[h].chan].st = "hungup"
       /\ task[h].pc \in {"delete", "release"} => IsTerminalLifecycle(task[h].type)

\* Create walks the plan forwards: no later route, nor the current one before
\* its origination, has a channel.
PlanAhead(c) ==
    /\ creator[c].pc \in {"idle", "route"} => creator[c].attempt = 0
    /\ \A j \in Attempts :
          (\/ j > creator[c].attempt
           \/ j = creator[c].attempt /\ creator[c].pc \in {"attribute", "acquire", "originate"})
             => ~Sent(c, j)

\* Success is not unwound.
ReportedStands(c) == creator[c].reported => creator[c].pc \in {"bind", "done"}

\* The lease of the attempt that is about to be the call's first channel.
ReadyIsLeased(c) ==
    creator[c].pc = "originate" /\ (\A j \in Attempts : ~Sent(c, j))
       => CallLease(c) \in leases[Plan[creator[c].attempt]]

LiveIsHeld(c) ==
    \A i \in Attempts :
       (/\ Live(chan[c][i]) /\ creator[c].reported /\ creator[c].attempt = i
        /\ \A j \in Attempts \ {i} : ~Sent(c, j))
          => /\ CallLease(c) \in leases[Plan[i]]
             /\ creator[c].pc = "done" => binding[c] = i

CallHeld(c) == PlanAhead(c) /\ ReportedStands(c) /\ ReadyIsLeased(c) /\ LiveIsHeld(c)

HeldInv == OutboundInv /\ EventsHaveChannels /\ \A c \in Calls : CallHeld(c)

LEMMA HeldImpliesProperty ==
    ASSUME HeldInv PROVE LiveChannelIsHeld
<1>1. \A c \in Calls : DOMAIN chan[c] = Attempts
  BY DEF HeldInv, OutboundInv, TypeOK, SwitchTypeOK
<1> QED BY <1>1 DEF HeldInv, CallHeld, LiveIsHeld, LiveChannelIsHeld, SoleChannel, Sent

\* What FreeSWITCH does to a call's channels on its own: none appears, none comes back.
ChanQuiet(c) ==
    \A i \in Attempts :
       /\ chan'[c][i].st # "none" <=> chan[c][i].st # "none"
       /\ chan[c][i].st = "hungup" => chan'[c][i].st = "hungup"
       /\ Live(chan'[c][i]) => Live(chan[c][i])

LeaseKept(c) == \A t \in Trunks : CallLease(c) \in leases[t] => CallLease(c) \in leases'[t]

\* Nothing is taken from a call that does nothing itself.
LEMMA CallStays ==
    ASSUME HeldInv, NEW c \in Calls, creator'[c] = creator[c], ChanQuiet(c), LeaseKept(c),
           \/ binding'[c] = binding[c]
           \/ binding'[c] \in Attempts /\ Sent(c, binding'[c])
    PROVE  CallHeld(c)'
<1>1. CallHeld(c) /\ creator[c].attempt \in ChannelIds
  BY DEF HeldInv, OutboundInv, TypeOK, SwitchTypeOK, Creators
<1>2. PlanAhead(c)'
  BY <1>1 DEF CallHeld, PlanAhead, Sent, ChanQuiet
<1>3. ReportedStands(c)'
  BY <1>1 DEF CallHeld, ReportedStands
<1>4. ReadyIsLeased(c)'
  <2>1. creator[c].pc = "originate" => Plan[creator[c].attempt] \in Trunks
    BY AttemptsInRange DEF HeldInv, OutboundInv, AttemptInPlan
  <2> QED BY <1>1, <2>1 DEF CallHeld, ReadyIsLeased, Sent, ChanQuiet, LeaseKept
<1>5. LiveIsHeld(c)'
  BY <1>1, AttemptsInRange DEF CallHeld, LiveIsHeld, Sent, ChanQuiet, LeaseKept
<1> QED BY <1>2, <1>3, <1>4, <1>5 DEF CallHeld

\* A call with a channel that is gone claims nothing.
LEMMA CallIsOver ==
    ASSUME HeldInv, NEW c \in Calls, creator'[c] = creator[c], chan'[c] = chan[c],
           NEW k \in Attempts, chan[c][k].st = "hungup"
    PROVE  CallHeld(c)'
<1>1. CallHeld(c)
  BY DEF HeldInv
<1>2. PlanAhead(c)'
  BY <1>1 DEF CallHeld, PlanAhead, Sent
<1>3. ReportedStands(c)'
  BY <1>1 DEF CallHeld, ReportedStands
<1>4. ReadyIsLeased(c)'
  BY DEF ReadyIsLeased, Sent
<1>5. LiveIsHeld(c)'
  BY DEF LiveIsHeld, Sent, Live, Up
<1> QED BY <1>2, <1>3, <1>4, <1>5 DEF CallHeld

LEMMA LeaseEffects ==
    ASSUME TypeOK, NEW t, NEW c \in Calls, NEW d \in Calls
    PROVE  /\ leases' = leases => LeaseKept(d)
           /\ leases' = Leased(t, CallLease(c)) => LeaseKept(d)
           /\ leases' = Released(t, CallLease(c)) /\ c # d => LeaseKept(d)
<1>1. leases \in [Trunks -> SUBSET LeaseIds]
  BY DEF TypeOK, AdmissionTypeOK
<1>2. c # d => CallLease(c) # CallLease(d)
  BY DEF CallLease
<1> QED BY <1>1, <1>2 DEF Leased, Released, LeaseKept

LEMMA ChanStays ==
    ASSUME NEW c \in Calls, chan'[c] = chan[c] PROVE ChanQuiet(c)
BY DEF ChanQuiet

\* The handlers and channels of everybody, when no channel is made.
LEMMA EventsStay ==
    ASSUME HeldInv, \A c \in Calls : ChanQuiet(c), task' = task
    PROVE  EventsHaveChannels'
<1>1. \A h \in Tasks : task[h].call \in Calls
  BY DEF HeldInv, OutboundInv, TypeOK, ObserverTypeOK, TaskRecs
<1> QED BY <1>1 DEF HeldInv, EventsHaveChannels, Sent, ChanQuiet

-----------------------------------------------------------------------------
\* FreeSWITCH and the control API.

\* A channel that exists changes its state.
LEMMA ChanMoves ==
    ASSUME TypeOK, NEW c \in Calls, NEW i \in Attempts, NEW s \in ChanStates \ {"none", "queued"},
           chan[c][i].st \notin {"none", "hungup"},
           \/ chan' = [chan EXCEPT ![c][i].st = s]
           \/ \E n \in Nat : chan' = [chan EXCEPT ![c][i] = [st |-> s, holds |-> n]]
    PROVE  (\A d \in Calls : ChanQuiet(d)) /\ chan'[c][i].st = s
<1>1. chan \in [Calls -> [Attempts -> ChanRecs]]
  BY DEF TypeOK, SwitchTypeOK
<1>2. chan'[c][i].st = s /\ \A d \in Calls, j \in Attempts : <<d, j>> # <<c, i>> => chan'[d][j] = chan[d][j]
  BY <1>1 DEF ChanRecs
<1>3. chan[c][i].st \in {"queued"} \cup Up
  BY <1>1 DEF ChanRecs, ChanStates, Up
<1> QED BY <1>1, <1>2, <1>3 DEF ChanQuiet, Live, ChanStates

\* The new handler is of that channel.
LEMMA DispatchKeeps ==
    ASSUME HeldInv, NEW c \in Calls, NEW i \in Attempts, NEW e \in LifecycleEvents, Dispatch(c, i, e),
           \A d \in Calls : ChanQuiet(d), chan'[c][i].st # "none",
           IsTerminalLifecycle(e) => chan'[c][i].st = "hungup"
    PROVE  EventsHaveChannels'
<1>1. CASE task' = task
  BY <1>1, EventsStay
<1>2. ASSUME NEW h \in Tasks,
             task' = [task EXCEPT ![h] =
                [pc |-> IF IsTerminalLifecycle(e) THEN "read" ELSE "bind",
                 call |-> c, chan |-> i, type |-> e, snap |-> NoSnap]]
      PROVE  EventsHaveChannels'
  <2>1. \A x \in Tasks : task[x].call \in Calls
    BY DEF HeldInv, OutboundInv, TypeOK, ObserverTypeOK, TaskRecs
  <2>2. \A x \in Tasks \ {h} : task'[x] = task[x]
    BY <1>2 DEF HeldInv, OutboundInv, TypeOK, ObserverTypeOK
  <2>3. /\ task'[h].pc \in {"read", "bind"} /\ task'[h].call = c /\ task'[h].chan = i
        /\ task'[h].type = e
    BY <1>2 DEF HeldInv, OutboundInv, TypeOK, ObserverTypeOK
  <2> QED BY <2>1, <2>2, <2>3 DEF HeldInv, EventsHaveChannels, Sent, ChanQuiet
<1> QED BY <1>1, <1>2 DEF Dispatch

LEMMA HangUpKeeps ==
    ASSUME HeldInv, NEW c \in Calls, NEW i \in Attempts, HangUp(c, i)
    PROVE  EventsHaveChannels' /\ \A d \in Calls : ChanQuiet(d)
<1>1. (\A d \in Calls : ChanQuiet(d)) /\ chan'[c][i].st = "hungup"
  <2>1. TypeOK /\ chan[c][i].st \notin {"none", "hungup"} /\ "hungup" \in ChanStates \ {"none", "queued"}
    BY DEF HangUp, HeldInv, OutboundInv, ChanStates, Up
  <2>2. chan' = [chan EXCEPT ![c][i].st = "hungup"]
    BY DEF HangUp
  <2> QED BY <2>1, <2>2, ChanMoves
<1>2. PICK e \in HangupEvents(chan[c][i].st) : Dispatch(c, i, e)
  BY DEF HangUp
<1> QED BY <1>1, <1>2, DispatchKeeps, HangupEventType

LEMMA SwitchKeepsHeld ==
    ASSUME HeldInv, NEW c \in Calls, SwitchStep(c)
    PROVE  EventsHaveChannels' /\ \A d \in Calls : CallHeld(d)'
<1>1. creator' = creator /\ leases' = leases /\ binding' = binding
  BY DEF SwitchStep, Hold, Resume, ChannelCreate, ChannelProgress, ChannelAnswer, ChannelHangup, SwitchOnly
<1>2. \A d \in Calls : LeaseKept(d)
  BY <1>1 DEF LeaseKept
<1>3. EventsHaveChannels' /\ \A d \in Calls : ChanQuiet(d)
  <2>1. ASSUME NEW i \in Attempts, ChannelHangup(c, i)
        PROVE  EventsHaveChannels' /\ \A d \in Calls : ChanQuiet(d)
    BY <2>1, HangUpKeeps DEF ChannelHangup
  <2>2. ASSUME NEW i \in Attempts, NEW s \in {"created", "progress", "answered", "held"},
               NEW e \in ProgressEvents, chan[c][i].st \notin {"none", "hungup"}, Dispatch(c, i, e),
               \/ chan' = [chan EXCEPT ![c][i].st = s]
               \/ \E n \in Nat : chan' = [chan EXCEPT ![c][i] = [st |-> s, holds |-> n]]
        PROVE  EventsHaveChannels' /\ \A d \in Calls : ChanQuiet(d)
    <3>1. (\A d \in Calls : ChanQuiet(d)) /\ chan'[c][i].st = s
      BY <2>2, ChanMoves DEF HeldInv, OutboundInv, ChanStates
    <3> QED BY <2>2, <3>1, DispatchKeeps DEF LifecycleEvents, ProgressEvents, TerminalEvents, IsTerminalLifecycle
  <2>3. CASE Hold(c)
    <3>1. binding[c] \in Attempts /\ chan[c][binding[c]].holds + 1 \in Nat
      BY <2>3 DEF Hold, HeldInv, OutboundInv, TypeOK, SwitchTypeOK, ChanRecs
    <3> QED BY <2>2, <2>3, <3>1 DEF Hold, ProgressEvents
  <2>4. CASE Resume(c)
    BY <2>2, <2>4 DEF Resume, ProgressEvents
  <2>5. ASSUME NEW i \in Attempts, ChannelCreate(c, i) \/ ChannelProgress(c, i) \/ ChannelAnswer(c, i)
        PROVE  EventsHaveChannels' /\ \A d \in Calls : ChanQuiet(d)
    BY <2>2, <2>5 DEF ChannelCreate, ChannelProgress, ChannelAnswer, ProgressEvents
  <2> QED BY <2>1, <2>3, <2>4, <2>5 DEF SwitchStep
<1> QED BY <1>1, <1>2, <1>3, CallStays

-----------------------------------------------------------------------------
\* The handlers.

\* A handler goes on with its event or ends.
LEMMA TaskGoesOn ==
    ASSUME HeldInv, NEW h \in Tasks, chan' = chan, task[h].pc # "idle",
           \/ TaskEnds(h)
           \/ \E pc \in TaskPCs : /\ TaskTo(h, pc)
                                  /\ pc \in {"delete", "release"} => IsTerminalLifecycle(task[h].type)
           \/ \E snap : task' = [task EXCEPT ![h].pc = "sip", ![h].snap = snap]
    PROVE  EventsHaveChannels'
<1>1. task \in [Tasks -> TaskRecs]
  BY DEF HeldInv, OutboundInv, TypeOK, ObserverTypeOK
<1>2. \A x \in Tasks \ {h} : task'[x] = task[x]
  BY <1>1 DEF TaskEnds, TaskTo
<1>3. CASE TaskEnds(h)
  <2>1. task'[h].pc = "idle"
    BY <1>1, <1>3 DEF TaskEnds, IdleTask
  <2> QED BY <1>2, <2>1 DEF HeldInv, EventsHaveChannels, Sent
<1>4. CASE ~TaskEnds(h)
  <2>1. /\ task'[h].call = task[h].call /\ task'[h].chan = task[h].chan /\ task'[h].type = task[h].type
        /\ task'[h].pc \in {"delete", "release"} => IsTerminalLifecycle(task[h].type)
    BY <1>1, <1>4 DEF TaskTo, TaskRecs
  <2> QED BY <1>2, <2>1 DEF HeldInv, EventsHaveChannels, Sent
<1> QED BY <1>3, <1>4

LEMMA ObserveKeepsHeld ==
    ASSUME HeldInv, NEW h \in Tasks, Observe(h)
    PROVE  EventsHaveChannels' /\ \A d \in Calls : CallHeld(d)'
<1> DEFINE c == task[h].call
           k == task[h].chan
<1>1. chan' = chan /\ creator' = creator /\ task[h].pc # "idle"
  BY DEF Observe, ObserveLifecycle, TaskBind, TaskRead, TaskSIP, TaskRefresh, TaskApply, TaskDelete, TaskRelease
<1>2. c \in Calls /\ task[h].snap \in Snapshots
  BY DEF HeldInv, OutboundInv, TypeOK, ObserverTypeOK, TaskRecs
<1>3. /\ k \in Attempts /\ Sent(c, k)
      /\ task[h].pc \in {"delete", "release"} => chan[c][k].st = "hungup" /\ IsTerminalLifecycle(task[h].type)
  BY <1>1 DEF HeldInv, EventsHaveChannels
<1>4. EventsHaveChannels'
  <2>1. \/ TaskEnds(h)
        \/ \E pc \in TaskPCs : /\ TaskTo(h, pc)
                               /\ pc \in {"delete", "release"} => IsTerminalLifecycle(task[h].type)
        \/ \E snap : task' = [task EXCEPT ![h].pc = "sip", ![h].snap = snap]
    <3>1. CASE TaskBind(h)
      BY <3>1 DEF TaskBind, TaskFails, TaskPCs
    <3>2. CASE TaskRead(h)
      BY <3>2 DEF TaskRead, TaskFails
    <3>3. CASE TaskSIP(h)
      BY <3>3 DEF TaskSIP, TaskFails, TaskPCs
    <3>4. CASE TaskRefresh(h)
      BY <3>4 DEF TaskRefresh, TaskFails, TaskPCs
    <3>5. CASE TaskApply(h)
      BY <3>5 DEF TaskApply, TaskFails, TaskPCs
    <3>6. CASE TaskDelete(h)
      BY <1>3, <3>6 DEF TaskDelete, TaskPCs
    <3>7. CASE TaskRelease(h)
      BY <3>7 DEF TaskRelease
    <3> QED BY <3>1, <3>2, <3>3, <3>4, <3>5, <3>6, <3>7 DEF Observe, ObserveLifecycle
  <2> QED BY <1>1, <2>1, TaskGoesOn
<1>5. ASSUME NEW d \in Calls PROVE CallHeld(d)'
  <2>0. TypeOK /\ ChanQuiet(d) /\ creator'[d] = creator[d] /\ chan'[d] = chan[d]
    BY <1>1, ChanStays DEF HeldInv, OutboundInv
  <2>1. CASE TaskBind(h)
    <3>1. binding'[d] = binding[d] \/ (d = c /\ binding'[d] = k)
      BY <1>2, <2>0, <2>1 DEF TaskBind, Bound, TypeOK, AdmissionTypeOK
    <3>2. LeaseKept(d)
      BY <2>1 DEF TaskBind, LeaseKept
    <3> QED BY <1>3, <2>0, <3>1, <3>2, CallStays
  <2>2. CASE TaskRead(h) \/ TaskSIP(h) \/ TaskApply(h)
    BY <2>0, <2>2, CallStays DEF TaskRead, TaskSIP, TaskApply, LeaseKept
  <2>3. CASE TaskRefresh(h)
    <3>1. LeaseKept(d)
      BY <1>2, <2>0, <2>3, LeaseEffects DEF TaskRefresh
    <3> QED BY <2>0, <2>3, <3>1, CallStays DEF TaskRefresh
  <2>4. CASE (TaskDelete(h) \/ TaskRelease(h)) /\ d = c
    <3>1. chan[c][k].st = "hungup"
      BY <1>3, <2>4 DEF TaskDelete, TaskRelease
    <3> QED BY <1>3, <2>0, <2>4, <3>1, CallIsOver
  <2>5. CASE (TaskDelete(h) \/ TaskRelease(h)) /\ d # c
    <3>1. binding'[d] = binding[d]
      BY <1>2, <2>0, <2>5 DEF TaskDelete, TaskRelease, Unbound, TypeOK, AdmissionTypeOK
    <3>2. LeaseKept(d)
      BY <1>2, <2>0, <2>5, LeaseEffects DEF TaskDelete, TaskRelease
    <3> QED BY <2>0, <3>1, <3>2, CallStays
  <2> QED BY <2>1, <2>2, <2>3, <2>4, <2>5 DEF Observe, ObserveLifecycle
<1> QED BY <1>4, <1>5

LEMMA ReconcileKeepsHeld ==
    ASSUME HeldInv, Reconciliation
    PROVE  EventsHaveChannels' /\ \A d \in Calls : CallHeld(d)'
<1>1. chan' = chan /\ creator' = creator /\ task' = task /\ binding' = binding
  BY DEF Reconciliation, Reconcile, ReconcileList, ReconcileRefresh
<1>2. \A d \in Calls : ChanQuiet(d)
  BY <1>1, ChanStays
<1>3. ASSUME NEW d \in Calls PROVE LeaseKept(d)
  <2>1. CASE leases' = leases
    BY <2>1 DEF LeaseKept
  <2>2. ASSUME NEW p \in recon, leases' = Leased(p[1], CallLease(p[2]))
        PROVE  LeaseKept(d)
    <3>1. p[2] \in Calls
      BY DEF HeldInv, OutboundInv, TypeOK, AdmissionTypeOK
    <3> QED BY <2>2, <3>1, LeaseEffects DEF HeldInv, OutboundInv
  <2> QED BY <2>1, <2>2 DEF Reconciliation, Reconcile, ReconcileList, ReconcileRefresh
<1> QED BY <1>1, <1>2, <1>3, EventsStay, CallStays

-----------------------------------------------------------------------------
\* Create, for the call it is about and for the others.

LEMMA CreatorNow ==
    ASSUME TypeOK, NEW c \in Calls
    PROVE  /\ \A pc \in CreatorPCs : To(c, pc) =>
                 /\ creator'[c].pc = pc /\ creator'[c].attempt = creator[c].attempt
                 /\ creator'[c].reported = creator[c].reported
           /\ NextAttempt(c) =>
                 /\ creator'[c].reported = creator[c].reported
                 /\ \/ /\ creator'[c].pc = "attribute" /\ creator'[c].attempt = creator[c].attempt + 1
                    \/ /\ creator'[c].pc = "fail" /\ creator'[c].attempt = creator[c].attempt
BY DEF TypeOK, SwitchTypeOK, Creators, To, NextAttempt

LEMMA OthersUntouched ==
    ASSUME HeldInv, NEW c \in Calls, CreateStep(c) \/ ClientDisconnect(c), NEW d \in Calls \ {c}
    PROVE  CallHeld(d)'
<1>0. TypeOK
  BY DEF HeldInv, OutboundInv
<1>1. creator'[d] = creator[d]
  BY <1>0 DEF TypeOK, SwitchTypeOK, CreateStep, ClientDisconnect, Create, ResolveRoute, Attribute,
     Acquire, Originate, ReleaseAttempt, BindChannel, UnwindHangup, UnwindRelease, MarkCreateFailed, To, NextAttempt
<1>2. ChanQuiet(d)
  <2>1. CASE UnwindHangup(c) /\ chan' # chan
    <3>1. creator[c].attempt \in Attempts /\ HangUp(c, creator[c].attempt)
      BY <2>1 DEF UnwindHangup, HeldInv, OutboundInv, AttemptInPlan
    <3> QED BY <3>1, HangUpKeeps
  <2>2. CASE Originate(c)
    <3>1. chan'[d] = chan[d]
      BY <1>0, <2>2 DEF Originate, TypeOK, SwitchTypeOK
    <3> QED BY <3>1, ChanStays
  <2>3. CASE chan' = chan
    BY <2>3, ChanStays
  <2> QED BY <2>1, <2>2, <2>3 DEF CreateStep, ClientDisconnect, Create, ResolveRoute, Attribute, Acquire,
       ReleaseAttempt, BindChannel, UnwindRelease, MarkCreateFailed
<1>3. LeaseKept(d)
  <2>1. \E t : leases' \in {leases, Leased(t, CallLease(c)), Released(t, CallLease(c))}
    BY DEF CreateStep, ClientDisconnect, Create, ResolveRoute, Attribute, Acquire, Originate, ReleaseAttempt,
       BindChannel, UnwindHangup, UnwindRelease, MarkCreateFailed
  <2> QED BY <1>0, <2>1, LeaseEffects
<1>4. binding'[d] = binding[d]
  BY <1>0 DEF TypeOK, AdmissionTypeOK, Bound, CreateStep, ClientDisconnect, Create, ResolveRoute, Attribute,
     Acquire, Originate, ReleaseAttempt, BindChannel, UnwindHangup, UnwindRelease, MarkCreateFailed
<1> QED BY <1>1, <1>2, <1>3, <1>4, CallStays

\* An attempt that is not reported a success only has to stay inside its plan.
LEMMA UnreportedHeld ==
    ASSUME NEW c \in Calls, creator'[c].reported = FALSE, PlanAhead(c)', ReadyIsLeased(c)'
    PROVE  CallHeld(c)'
BY DEF CallHeld, ReportedStands, LiveIsHeld

LEMMA ChannelIdsAreNumbers == ChannelIds \subseteq Nat
BY StoreAssumption DEF ChannelIds, NoDialog

LEMMA NoChannelMade ==
    ASSUME HeldInv, NEW c \in Calls, ChanQuiet(c),
           \/ /\ creator'[c].attempt = creator[c].attempt
              /\ creator'[c].pc \in {"idle", "route"} => creator[c].pc \in {"idle", "route"}
              /\ creator'[c].pc \in {"attribute", "acquire", "originate"}
                    => creator[c].pc \in {"attribute", "acquire", "originate"}
           \/ /\ creator'[c].attempt = creator[c].attempt + 1
              /\ creator'[c].pc \notin {"idle", "route"}
    PROVE  PlanAhead(c)'
<1>1. PlanAhead(c) /\ creator[c].attempt \in Nat
  <2>1. creator[c] \in Creators /\ PlanAhead(c)
    BY DEF HeldInv, CallHeld, OutboundInv, TypeOK, SwitchTypeOK
  <2>2. creator[c].attempt \in ChannelIds
    BY <2>1 DEF Creators
  <2> QED BY <2>1, <2>2, ChannelIdsAreNumbers
<1>2. \A j \in Attempts : j \in Nat
  BY DEF Attempts, maxOutboundAttempts
<1> QED BY <1>1, <1>2 DEF PlanAhead, ChanQuiet, Sent

\* The steps before and after the attempt itself.
LEMMA CallHeldQuietly ==
    ASSUME HeldInv, NEW c \in Calls,
           \/ Create(c) \/ ResolveRoute(c) \/ Attribute(c) \/ ReleaseAttempt(c) \/ UnwindHangup(c)
           \/ UnwindRelease(c) \/ MarkCreateFailed(c)
    PROVE  CallHeld(c)'
<1>0. TypeOK /\ CallHeld(c) /\ creator[c] \in Creators
  BY DEF HeldInv, OutboundInv, TypeOK, SwitchTypeOK
<1>1. creator[c].reported = FALSE
  BY <1>0 DEF CallHeld, ReportedStands, Create, ResolveRoute, Attribute, ReleaseAttempt, UnwindHangup,
     UnwindRelease, MarkCreateFailed, Creators
<1>2. ChanQuiet(c)
  <2>1. CASE UnwindHangup(c) /\ chan' # chan
    <3>1. creator[c].attempt \in Attempts /\ HangUp(c, creator[c].attempt)
      BY <2>1 DEF UnwindHangup, HeldInv, OutboundInv, AttemptInPlan
    <3> QED BY <3>1, HangUpKeeps
  <2>2. CASE chan' = chan
    BY <2>2, ChanStays
  <2> QED BY <2>1, <2>2 DEF Create, ResolveRoute, Attribute, ReleaseAttempt, UnwindRelease, MarkCreateFailed
<1>3. /\ creator'[c].reported = FALSE /\ creator'[c].pc # "originate"
      /\ \/ /\ creator'[c].attempt = creator[c].attempt
            /\ creator'[c].pc \in {"idle", "route"} => creator[c].pc \in {"idle", "route"}
            /\ creator'[c].pc \in {"attribute", "acquire", "originate"}
                  => creator[c].pc \in {"attribute", "acquire", "originate"}
         \/ /\ creator'[c].attempt = creator[c].attempt + 1
            /\ creator'[c].pc \notin {"idle", "route"}
  <2>1. CASE ResolveRoute(c)
    <3>1. creator[c].attempt = 0
      BY <1>0, <2>1 DEF ResolveRoute, CallHeld, PlanAhead
    <3>2. CASE creator' = [creator EXCEPT ![c].pc = "attribute", ![c].attempt = 1]
      BY <1>0, <1>1, <3>1, <3>2 DEF TypeOK, SwitchTypeOK, Creators
    <3>3. CASE To(c, "fail")
      BY <1>0, <1>1, <3>3, CreatorNow DEF CreatorPCs
    <3> QED BY <2>1, <3>2, <3>3 DEF ResolveRoute
  <2>2. CASE Create(c)
    BY <1>0, <1>1, <2>2, CreatorNow DEF Create, CreatorPCs
  <2>3. CASE Attribute(c)
    BY <1>0, <1>1, <2>3, CreatorNow DEF Attribute, CreatorPCs
  <2>4. CASE ReleaseAttempt(c)
    BY <1>0, <1>1, <2>4, CreatorNow DEF ReleaseAttempt, CreatorPCs
  <2>5. CASE UnwindHangup(c) \/ UnwindRelease(c) \/ MarkCreateFailed(c)
    BY <1>0, <1>1, <2>5, CreatorNow DEF UnwindHangup, UnwindRelease, MarkCreateFailed, CreatorPCs
  <2> QED BY <2>1, <2>2, <2>3, <2>4, <2>5
<1>4. PlanAhead(c)'
  BY <1>2, <1>3, NoChannelMade
<1>5. ReadyIsLeased(c)'
  BY <1>3 DEF ReadyIsLeased
<1> QED BY <1>3, <1>4, <1>5, UnreportedHeld

\* The lease is there when Create goes on to originate.
LEMMA AcquireHeld ==
    ASSUME HeldInv, NEW c \in Calls, Acquire(c)
    PROVE  CallHeld(c)'
<1>0. TypeOK /\ CallHeld(c) /\ creator[c] \in Creators /\ chan' = chan
  BY DEF HeldInv, OutboundInv, TypeOK, SwitchTypeOK, Acquire
<1>1. creator[c].reported = FALSE /\ creator[c].pc = "acquire" /\ Plan[creator[c].attempt] \in Trunks
  BY <1>0, AttemptsInRange DEF CallHeld, ReportedStands, Acquire, Creators, HeldInv, OutboundInv, AttemptInPlan
<1>2. CASE To(c, "originate") /\ leases' = Leased(Plan[creator[c].attempt], CallLease(c))
  <2>1. /\ creator'[c].pc = "originate" /\ creator'[c].attempt = creator[c].attempt
        /\ creator'[c].reported = FALSE
    BY <1>0, <1>1, <1>2, CreatorNow DEF CreatorPCs
  <2>2. PlanAhead(c)'
    BY <1>0, <1>1, <2>1, ChanStays, NoChannelMade
  <2>3. ReadyIsLeased(c)'
    BY <1>0, <1>1, <1>2, <2>1 DEF ReadyIsLeased, Leased, TypeOK, AdmissionTypeOK
  <2> QED BY <2>1, <2>2, <2>3, UnreportedHeld
<1>3. CASE NextAttempt(c)
  <2>1. /\ creator'[c].reported = FALSE
        /\ \/ creator'[c].pc = "attribute" /\ creator'[c].attempt = creator[c].attempt + 1
           \/ creator'[c].pc = "fail" /\ creator'[c].attempt = creator[c].attempt
    BY <1>0, <1>1, <1>3, CreatorNow
  <2>2. PlanAhead(c)'
    BY <1>0, <1>1, <2>1, ChanStays, NoChannelMade
  <2>3. ReadyIsLeased(c)'
    BY <2>1 DEF ReadyIsLeased
  <2> QED BY <2>1, <2>2, <2>3, UnreportedHeld
<1> QED BY <1>2, <1>3 DEF Acquire

\* The channel is the first of its attempt; if it is the call's only one, the
\* lease that was acquired for it is still there.
LEMMA OriginateHeld ==
    ASSUME HeldInv, NEW c \in Calls, Originate(c)
    PROVE  EventsHaveChannels' /\ CallHeld(c)'
<1> DEFINE i == creator[c].attempt
<1>0. TypeOK /\ CallHeld(c) /\ creator[c] \in Creators /\ creator[c].pc = "originate"
  BY DEF HeldInv, OutboundInv, TypeOK, SwitchTypeOK, Originate
<1>1. i \in Attempts /\ i \in Nat /\ creator[c].reported = FALSE /\ ~Sent(c, i)
  <2>1. i \in Attempts
    BY <1>0 DEF HeldInv, OutboundInv, AttemptInPlan
  <2> QED BY <1>0, <2>1 DEF CallHeld, ReportedStands, PlanAhead, Creators, Attempts, maxOutboundAttempts
<1>2. /\ leases' = leases /\ binding' = binding /\ task' = task
      /\ chan' = chan \/ chan' = [chan EXCEPT ![c][i].st = "queued"]
  BY DEF Originate
<1>3. /\ \A d \in Calls, j \in Attempts : <<d, j>> # <<c, i>> => chan'[d][j] = chan[d][j]
      /\ chan'[c][i].st \in {"none", "queued"}
  BY <1>0, <1>1, <1>2 DEF TypeOK, SwitchTypeOK, ChanRecs, Sent
<1>4. /\ creator'[c].attempt = i
      /\ creator'[c].pc = "bind" \/ (creator'[c].pc = "release" /\ creator'[c].reported = FALSE)
  <2>1. CASE creator' = [creator EXCEPT ![c].pc = "bind", ![c].reported = TRUE]
    BY <1>0, <2>1 DEF TypeOK, SwitchTypeOK, Creators
  <2>2. ASSUME NEW b, creator' = [creator EXCEPT ![c].pc = "release", ![c].retry = b]
        PROVE  creator'[c].attempt = i /\ creator'[c].pc = "release" /\ creator'[c].reported = FALSE
    BY <1>0, <1>1, <2>2 DEF TypeOK, SwitchTypeOK, Creators
  <2> QED BY <2>1, <2>2 DEF Originate
<1>5. EventsHaveChannels'
  <2>1. \A h \in Tasks : task[h].call \in Calls
    BY <1>0 DEF TypeOK, ObserverTypeOK, TaskRecs
  <2>2. \A h \in Tasks : task[h].pc # "idle" => <<task[h].call, task[h].chan>> # <<c, i>>
    BY <1>1 DEF HeldInv, EventsHaveChannels
  <2> QED BY <1>2, <1>3, <2>1, <2>2 DEF HeldInv, EventsHaveChannels, Sent
<1> HIDE DEF i
<1>6. PlanAhead(c)'
  <2>1. \A j \in Attempts : j > i => ~Sent(c, j) /\ j # i
    BY <1>0, <1>1 DEF CallHeld, PlanAhead, i, Attempts, maxOutboundAttempts
  <2> QED BY <1>3, <1>4, <2>1 DEF PlanAhead, Sent
<1>7. ReadyIsLeased(c)' /\ ReportedStands(c)'
  BY <1>4 DEF ReadyIsLeased, ReportedStands
<1>8. LiveIsHeld(c)'
  <2>1. (\A j \in Attempts \ {i} : ~Sent(c, j)) => CallLease(c) \in leases[Plan[i]]
    BY <1>0, <1>1 DEF CallHeld, ReadyIsLeased, i
  <2> QED BY <1>2, <1>3, <1>4, <2>1 DEF LiveIsHeld, Sent
<1> QED BY <1>5, <1>6, <1>7, <1>8 DEF CallHeld

LEMMA BindHeld ==
    ASSUME HeldInv, NEW c \in Calls, BindChannel(c)
    PROVE  CallHeld(c)'
<1>0. TypeOK /\ CallHeld(c) /\ creator[c] \in Creators /\ creator[c].pc = "bind" /\ chan' = chan /\ leases' = leases
  BY DEF HeldInv, OutboundInv, TypeOK, SwitchTypeOK, BindChannel
<1>1. CASE To(c, "done") /\ binding' = Bound(c, creator[c].attempt)
  <2>1. /\ creator'[c].pc = "done" /\ creator'[c].attempt = creator[c].attempt
        /\ creator'[c].reported = creator[c].reported
    BY <1>0, <1>1, CreatorNow DEF CreatorPCs
  <2>2. binding'[c] = creator[c].attempt
    BY <1>0, <1>1 DEF Bound, TypeOK, AdmissionTypeOK
  <2>3. PlanAhead(c)'
    BY <1>0, <2>1, ChanStays, NoChannelMade
  <2>4. LiveIsHeld(c)'
    BY <1>0, <2>1, <2>2 DEF CallHeld, LiveIsHeld, Sent
  <2> QED BY <2>1, <2>3, <2>4 DEF CallHeld, ReportedStands, ReadyIsLeased
<1>2. CASE creator' = [creator EXCEPT ![c].pc = "hangup", ![c].reported = FALSE]
  <2>1. creator'[c].pc = "hangup" /\ creator'[c].reported = FALSE /\ creator'[c].attempt = creator[c].attempt
    BY <1>0, <1>2 DEF TypeOK, SwitchTypeOK, Creators
  <2>2. PlanAhead(c)'
    BY <1>0, <2>1, ChanStays, NoChannelMade
  <2> QED BY <2>1, <2>2, UnreportedHeld DEF ReadyIsLeased
<1> QED BY <1>1, <1>2 DEF BindChannel

LEMMA DisconnectHeld ==
    ASSUME HeldInv, NEW c \in Calls, ClientDisconnect(c)
    PROVE  CallHeld(c)'
<1>1. /\ creator'[c].pc = creator[c].pc /\ creator'[c].attempt = creator[c].attempt
      /\ creator'[c].reported = creator[c].reported
      /\ chan' = chan /\ leases' = leases /\ binding' = binding /\ CallHeld(c)
  BY DEF ClientDisconnect, HeldInv, OutboundInv, TypeOK, SwitchTypeOK, Creators
<1> QED BY <1>1 DEF CallHeld, PlanAhead, ReportedStands, ReadyIsLeased, LiveIsHeld, Sent

LEMMA CreateKeepsHeld ==
    ASSUME HeldInv, NEW c \in Calls, CreateStep(c) \/ ClientDisconnect(c)
    PROVE  EventsHaveChannels' /\ \A d \in Calls : CallHeld(d)'
<1>1. EventsHaveChannels'
  <2>1. CASE UnwindHangup(c) /\ chan' # chan
    <3>1. creator[c].attempt \in Attempts /\ HangUp(c, creator[c].attempt)
      BY <2>1 DEF UnwindHangup, HeldInv, OutboundInv, AttemptInPlan
    <3> QED BY <3>1, HangUpKeeps
  <2>2. CASE Originate(c)
    BY <2>2, OriginateHeld
  <2>3. CASE ~Originate(c) /\ chan' = chan
    <3>1. task' = task
      <4>1. CASE UnwindHangup(c)
        <5>1. creator[c].attempt \in Attempts /\ chan \in [Calls -> [Attempts -> ChanRecs]]
          BY <4>1 DEF UnwindHangup, HeldInv, OutboundInv, AttemptInPlan, TypeOK, SwitchTypeOK
        <5>2. ~HangUp(c, creator[c].attempt)
          BY <2>3, <5>1 DEF HangUp, Up, ChanRecs
        <5> QED BY <4>1, <5>2 DEF UnwindHangup
      <4> QED BY <2>3, <4>1 DEF CreateStep, ClientDisconnect, Create, ResolveRoute, Attribute, Acquire,
           ReleaseAttempt, BindChannel, UnwindRelease, MarkCreateFailed
    <3> QED BY <2>3, <3>1, ChanStays, EventsStay
  <2> QED BY <2>1, <2>2, <2>3 DEF CreateStep, ClientDisconnect, Create, ResolveRoute, Attribute, Acquire,
       ReleaseAttempt, BindChannel, UnwindRelease, MarkCreateFailed
<1>2. CallHeld(c)'
  BY CallHeldQuietly, AcquireHeld, OriginateHeld, BindHeld, DisconnectHeld DEF CreateStep
<1> QED BY <1>1, <1>2, OthersUntouched

LEMMA HeldStep ==
    ASSUME HeldInv, [Next]_vars
    PROVE  HeldInv'
<1>1. OutboundInv'
  BY TypeStep, AttemptStep DEF HeldInv, OutboundInv
<1>2. EventsHaveChannels' /\ \A d \in Calls : CallHeld(d)'
  <2>1. CASE UNCHANGED vars
    <3>1. \A d \in Calls : ChanQuiet(d) /\ LeaseKept(d)
      BY <2>1, ChanStays DEF vars, LeaseKept
    <3> QED BY <2>1, <3>1, EventsStay, CallStays DEF vars
  <2> QED BY <2>1, CreateKeepsHeld, SwitchKeepsHeld, ObserveKeepsHeld, ReconcileKeepsHeld DEF Next
<1> QED BY <1>1, <1>2 DEF HeldInv

LEMMA HeldInit ==
    ASSUME Init PROVE HeldInv
<1>1. OutboundInv
  BY OutboundInvInit
<1>2. EventsHaveChannels
  BY DEF Init, ObserverInit, EventsHaveChannels, IdleTask
<1>3. ASSUME NEW c \in Calls PROVE CallHeld(c)
  BY <1>3 DEF Init, NoChan, CallHeld, PlanAhead, ReportedStands, ReadyIsLeased, LiveIsHeld, Sent
<1> QED BY <1>1, <1>2, <1>3 DEF HeldInv

\* While the channel of a successfully originated call is up it holds its lease
\* on the trunk that carries it, and once POST /calls has returned it is bound:
\* no late, duplicated or overtaking handler, no failed attempt, disconnected
\* client or reconciliation takes either away, whatever else fails
\* (Service.Create, executeRoutePlan, ObserveLifecycle).
THEOREM LiveChannelsAreHeld == Spec => []LiveChannelIsHeld
<1>1. HeldInv /\ [Next]_vars => HeldInv'
  BY HeldStep
<1> QED BY <1>1, HeldInit, HeldImpliesProperty, PTL DEF Spec
=============================================================================
