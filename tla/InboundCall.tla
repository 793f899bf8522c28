---------------------------- MODULE InboundCall ----------------------------
(***************************************************************************)
(* An inbound call: Service.AdmitInbound and the events that follow.       *)
(*                                                                         *)
(* Every worker holds its own ESL connection, so a channel's               *)
(* CHANNEL_CREATE may be admitted by several workers at once; the unique   *)
(* index on sip_call_id decides which of them creates the row.  Until      *)
(* SetCallID has tagged the channel with the call's id its other events    *)
(* are uncorrelated and dropped.                                           *)
(*                                                                         *)
(* A call, its SIP dialog and its channel are one to one, so all three are *)
(* named by the call: admission[c][w] is worker w's handler for c.         *)
(***************************************************************************)
EXTENDS LifecycleObserver

CONSTANTS
    Workers,   \* the workers that receive the events
    TrunkOf    \* the trunk a channel arrives on

ASSUME InboundAssumption ==
    /\ TrunkOf \in [Calls -> Trunks]
    /\ 1 \in Dialogs

VARIABLES
    chan,        \* FreeSWITCH: [st, tagged]
    admission    \* the AdmitInbound goroutines: pc and what they read

vars == <<row, emitted, leases, binding, recon, task, chan, admission>>

theDialog == 1
ChanRecs == [st : {"none", "created", "progress", "answered", "hungup"}, tagged : BOOLEAN]
AdmissionPCs ==
    {"idle", "lookup", "resolve", "acquire", "insert", "reread", "unlease",
     "ensure", "refresh", "reuse", "tagreuse", "untagreuse",
     "attribute", "bindlease", "bindchan", "tag", "untag",
     "failbind", "unleasechan", "failchan",
     "reject", "admitted", "done"}
\* valid: the existing call read by the handler is one it may go on with.
NoAdmission == [pc |-> "idle", trunk |-> NoTrunk, valid |-> TRUE]
Admissions == [pc : AdmissionPCs, trunk : Trunks \cup {NoTrunk}, valid : BOOLEAN]

Init ==
    /\ StoreInit /\ AdmissionInit /\ ObserverInit
    /\ chan = [c \in Calls |-> [st |-> "none", tagged |-> FALSE]]
    /\ admission = [c \in Calls |-> [w \in Workers |-> NoAdmission]]

\* The handler goes on with the row it has just read, or without one.
ReadThen(c, w, pc, valid) ==
    admission' = [admission EXCEPT ![c][w] =
        [pc |-> pc, trunk |-> row[c].trunk, valid |-> valid]]
GiveUp(c, w, pc) == ReadThen(c, w, pc, FALSE)
Goto(c, w, pc) == admission' = [admission EXCEPT ![c][w].pc = pc]
At(c, w, pc) == admission[c][w].pc = pc

-----------------------------------------------------------------------------
(***************************************************************************)
(* Service.AdmitInbound                                                    *)
(***************************************************************************)

\* validateExistingInbound: the same agent, number and trunk by construction,
\* so only a terminal call is refused.
ValidExisting(c) == row[c].state \notin TerminalStates

\* GetBySIPCallIDGlobal and the choice between reuse and a new call.
Lookup(c, w) ==
    /\ At(c, w, "lookup")
    /\ \/ row[c].state # "none" /\ ValidExisting(c) /\ ReadThen(c, w, "ensure", TRUE)
       \/ row[c].state # "none" /\ ~ValidExisting(c) /\ Goto(c, w, "reject")
       \/ row[c].state = "none" /\ Goto(c, w, "resolve")
       \/ MayFail("lookup") /\ Goto(c, w, "reject")
    /\ UNCHANGED <<row, emitted, leases, binding, task, chan>>

\* router.ResolveInbound, which may refuse the call.
Resolve(c, w) ==
    /\ At(c, w, "resolve")
    /\ Goto(c, w, "acquire") \/ (MayFail("route") /\ Goto(c, w, "reject"))
    /\ UNCHANGED <<row, emitted, leases, binding, task, chan>>

\* admission.Acquire under the channel's id.
AcquireLease(c, w) ==
    LET t == TrunkOf[c]
        m == ChannelLease(c)
    IN
    /\ At(c, w, "acquire")
    /\ \/ CanLease(t, m) /\ leases' = Leased(t, m) /\ Goto(c, w, "insert")
       \/ ~CanLease(t, m) /\ UNCHANGED leases /\ Goto(c, w, "reject")
       \/ /\ MayFail("acquire")
          /\ leases' \in {leases} \cup IF CanLease(t, m) THEN {Leased(t, m)} ELSE {}
          /\ Goto(c, w, "reject")
    /\ UNCHANGED <<row, emitted, binding, task, chan>>

\* repo.CreateInbound; the unique index refuses a second row for the dialog,
\* and a lost commit looks the same to the handler.
CreateInbound(c, w) ==
    /\ At(c, w, "insert")
    /\ \/ InsertInbound(c, theDialog)
          /\ (Goto(c, w, "attribute") \/ (MayFail("create") /\ Goto(c, w, "reread")))
       \/ /\ row[c].state # "none" \/ MayFail("create")
          /\ UNCHANGED storeVars
          /\ Goto(c, w, "reread")
    /\ UNCHANGED <<leases, binding, task, chan>>

\* The second GetBySIPCallIDGlobal.
Reread(c, w) ==
    /\ At(c, w, "reread")
    /\ \/ row[c].state # "none" /\ ReadThen(c, w, "unlease", ValidExisting(c))
       \/ (row[c].state = "none" \/ MayFail("lookup")) /\ GiveUp(c, w, "unlease")
    /\ UNCHANGED <<row, emitted, leases, binding, task, chan>>

\* The channel's lease is released: on every error path, and, as the channel id
\* is never the call's id, before an existing call is reused.
Unlease(c, w) ==
    /\ At(c, w, "unlease")
    /\ \/ leases' = Released(TrunkOf[c], ChannelLease(c))
       \/ MayFail("release") /\ UNCHANGED leases
    /\ Goto(c, w, IF admission[c][w].valid THEN "ensure" ELSE "reject")
    /\ UNCHANGED <<row, emitted, binding, task, chan>>

\* ensureInboundAttribution.
Ensure(c, w) ==
    /\ At(c, w, "ensure")
    /\ \/ /\ admission[c][w].trunk # NoTrunk
          /\ UNCHANGED storeVars /\ Goto(c, w, "refresh")
       \/ /\ admission[c][w].trunk = NoTrunk
          /\ SetRouteAttribution(c, TrunkOf[c])
          /\ Goto(c, w, "refresh") \/ (MayFail("attribute") /\ Goto(c, w, "reject"))
       \/ /\ admission[c][w].trunk = NoTrunk /\ MayFail("attribute")
          /\ UNCHANGED storeVars /\ Goto(c, w, "reject")
    /\ UNCHANGED <<leases, binding, task, chan>>

\* admission.Refresh of the reused call.
RefreshReused(c, w) ==
    /\ At(c, w, "refresh")
    /\ \/ leases' = Leased(TrunkOf[c], CallLease(c)) /\ Goto(c, w, "reuse")
       \/ /\ MayFail("refresh")
          /\ leases' \in {leases, Leased(TrunkOf[c], CallLease(c))}
          /\ Goto(c, w, "reject")
    /\ UNCHANGED <<row, emitted, binding, task, chan>>

\* controller.SetCallID.
Tagged(c) == [chan EXCEPT ![c].tagged = TRUE]

\* bindInboundChannel: channels.Bind, then SetCallID, which needs the channel;
\* its failure deletes the binding again.
BindReused(c, w) ==
    /\ At(c, w, "reuse")
    /\ \/ binding' = Bound(c, theDialog) /\ Goto(c, w, "tagreuse")
       \/ /\ MayFail("bind")
          /\ binding' \in {binding, Bound(c, theDialog)}
          /\ Goto(c, w, "reject")
    /\ UNCHANGED <<row, emitted, leases, task, chan>>

TagReused(c, w) ==
    /\ At(c, w, "tagreuse")
    /\ \/ /\ chan[c].st \in Up
          /\ chan' = Tagged(c)
          /\ Goto(c, w, "admitted")
       \/ /\ chan[c].st \notin Up \/ MayFail("tag")
          /\ chan' \in {chan} \cup IF chan[c].st \in Up THEN {Tagged(c)} ELSE {}
          /\ Goto(c, w, "untagreuse")
    /\ UNCHANGED <<row, emitted, leases, binding, task>>

\* The new call's route attribution.  Its failure overwrites the call with the
\* zero value, so the MarkFailed that follows reaches no row.
AttributeNew(c, w) ==
    /\ At(c, w, "attribute")
    /\ \/ SetRouteAttribution(c, TrunkOf[c]) /\ Goto(c, w, "bindlease")
       \/ /\ MayFail("attribute") /\ GiveUp(c, w, "unlease")
          /\ SetRouteAttribution(c, TrunkOf[c]) \/ UNCHANGED storeVars
    /\ UNCHANGED <<leases, binding, task, chan>>

\* Mutant: the channel's lease goes, the call's is not added.
BindForgetsCall(c, w) ==
    /\ At(c, w, "bindlease")
    /\ leases' = Released(TrunkOf[c], ChannelLease(c))
    /\ Goto(c, w, "bindchan")
    /\ UNCHANGED <<row, emitted, binding, task, chan>>

\* admission.Bind, which needs the channel's lease to be there.
BindLease(c, w) ==
    /\ At(c, w, "bindlease")
    /\ \/ /\ ChannelLease(c) \in leases[TrunkOf[c]]
          /\ leases' = Rebound(TrunkOf[c], c)
          /\ Goto(c, w, "bindchan")
       \/ /\ ChannelLease(c) \notin leases[TrunkOf[c]] \/ MayFail("rebind")
          /\ leases' \in {leases} \cup
                IF ChannelLease(c) \in leases[TrunkOf[c]] /\ MayFail("rebind")
                THEN {Rebound(TrunkOf[c], c)} ELSE {}
          /\ Goto(c, w, "failbind")
    /\ UNCHANGED <<row, emitted, binding, task, chan>>

\* Either the call is marked failed or the error is ignored.
MarkAdmissionFailed(c) ==
    \/ Mark(c, "failed")
    \/ (MayFail("mark") \/ ~CanMark("failed", row[c])) /\ UNCHANGED storeVars

FailBind(c, w) ==
    /\ At(c, w, "failbind")
    /\ MarkAdmissionFailed(c)
    /\ GiveUp(c, w, "unlease")
    /\ UNCHANGED <<leases, binding, task, chan>>

BindNew(c, w) ==
    /\ At(c, w, "bindchan")
    /\ \/ binding' = Bound(c, theDialog) /\ Goto(c, w, "tag")
       \/ /\ MayFail("bind")
          /\ binding' \in {binding, Bound(c, theDialog)}
          /\ Goto(c, w, "unleasechan")
    /\ UNCHANGED <<row, emitted, leases, task, chan>>

TagNew(c, w) ==
    /\ At(c, w, "tag")
    /\ \/ /\ chan[c].st \in Up
          /\ chan' = Tagged(c)
          /\ Goto(c, w, "admitted")
       \/ /\ chan[c].st \notin Up \/ MayFail("tag")
          /\ chan' \in {chan} \cup IF chan[c].st \in Up THEN {Tagged(c)} ELSE {}
          /\ Goto(c, w, "untag")
    /\ UNCHANGED <<row, emitted, leases, binding, task>>

\* The channels.Delete of bindInboundChannel; its error is ignored.
UndoBind(c, w) ==
    /\ \/ At(c, w, "untagreuse") /\ Goto(c, w, "reject")
       \/ At(c, w, "untag") /\ Goto(c, w, "unleasechan")
    /\ \/ binding' = Unbound(c)
       \/ MayFail("delete") /\ UNCHANGED binding
    /\ UNCHANGED <<row, emitted, leases, task, chan>>

UnleaseChan(c, w) ==
    /\ At(c, w, "unleasechan")
    /\ \/ leases' = Released(TrunkOf[c], CallLease(c))
       \/ MayFail("release") /\ UNCHANGED leases
    /\ Goto(c, w, "failchan")
    /\ UNCHANGED <<row, emitted, binding, task, chan>>

\* Mutant: the channel's failure is not written to the row.
RejectUnmarked(c, w) ==
    /\ At(c, w, "failchan")
    /\ Goto(c, w, "reject")
    /\ UNCHANGED <<row, emitted, leases, binding, task, chan>>

FailChan(c, w) ==
    /\ At(c, w, "failchan")
    /\ MarkAdmissionFailed(c)
    /\ Goto(c, w, "reject")
    /\ UNCHANGED <<leases, binding, task, chan>>

-----------------------------------------------------------------------------
(***************************************************************************)
(* FreeSWITCH                                                              *)
(***************************************************************************)

\* TranslateFreeSWITCHEvent: an untagged channel's event is uncorrelated.
ChannelEvent(c, e) ==
    IF chan[c].tagged THEN Dispatch(c, theDialog, e) ELSE UNCHANGED task

HangUp(c) ==
    /\ chan[c].st \in Up
    /\ chan' = [chan EXCEPT ![c].st = "hungup"]
    /\ \E e \in HangupEvents(chan[c].st) : ChannelEvent(c, e)

\* rejectInbound hangs the channel up; the error is the handler's result.
Reject(c, w) ==
    /\ At(c, w, "reject")
    /\ Goto(c, w, "done")
    /\ \/ HangUp(c)
       \/ (chan[c].st \notin Up \/ MayFail("hangup")) /\ UNCHANGED <<chan, task>>
    /\ UNCHANGED <<row, emitted, leases, binding>>

\* CHANNEL_CREATE reaches every connected worker.
ChannelCreate(c) ==
    /\ chan[c].st = "none"
    /\ chan' = [chan EXCEPT ![c].st = "created"]
    /\ \E ws \in SUBSET Workers :
          /\ ws = Workers \/ MayFail("event")
          /\ admission' = [admission EXCEPT ![c] =
                [w \in Workers |-> IF w \in ws THEN [NoAdmission EXCEPT !.pc = "lookup"]
                                               ELSE [NoAdmission EXCEPT !.pc = "done"]]]
    /\ UNCHANGED <<row, emitted, leases, binding, task>>

ChannelProgress(c) ==
    /\ chan[c].st = "created"
    /\ chan' = [chan EXCEPT ![c].st = "progress"]
    /\ ChannelEvent(c, "ringing")
    /\ UNCHANGED <<row, emitted, leases, binding, admission>>

ChannelAnswer(c) ==
    /\ chan[c].st \in {"created", "progress"}
    /\ chan' = [chan EXCEPT ![c].st = "answered"]
    /\ ChannelEvent(c, "answered")
    /\ UNCHANGED <<row, emitted, leases, binding, admission>>

ChannelHangup(c) ==
    /\ HangUp(c)
    /\ UNCHANGED <<row, emitted, leases, binding, admission>>

-----------------------------------------------------------------------------
\* The worker dies: its handler never resumes.
WorkerCrash(c, w) ==
    /\ MayFail("crash")
    /\ admission[c][w].pc \notin {"idle", "admitted", "done"}
    /\ Goto(c, w, "done")
    /\ UNCHANGED <<row, emitted, leases, binding, task, chan>>

AdmitInbound(c, w) ==
    /\ \/ Lookup(c, w) \/ Resolve(c, w) \/ AcquireLease(c, w) \/ CreateInbound(c, w)
       \/ Reread(c, w) \/ Unlease(c, w) \/ Ensure(c, w) \/ RefreshReused(c, w)
       \/ BindReused(c, w) \/ TagReused(c, w)
       \/ AttributeNew(c, w) \/ BindLease(c, w) \/ FailBind(c, w)
       \/ BindNew(c, w) \/ TagNew(c, w) \/ UndoBind(c, w) \/ UnleaseChan(c, w) \/ FailChan(c, w)
       \/ Reject(c, w)
    /\ UNCHANGED recon

SwitchStep(c) ==
    /\ ChannelCreate(c) \/ ChannelProgress(c) \/ ChannelAnswer(c) \/ ChannelHangup(c)
    /\ UNCHANGED recon

Observe(h) == ObserveLifecycle(h) /\ UNCHANGED <<chan, admission>>
Reconciliation == Reconcile /\ UNCHANGED <<task, chan, admission>>

Next ==
    \/ \E c \in Calls : SwitchStep(c) \/ \E w \in Workers : AdmitInbound(c, w)
    \/ \E c \in Calls, w \in Workers : WorkerCrash(c, w) /\ UNCHANGED recon
    \/ \E h \in Tasks : Observe(h)
    \/ Reconciliation

\* Goroutines run to their end and the reconciliation keeps ticking.
Fairness ==
    /\ \A c \in Calls : \A w \in Workers : WF_vars(AdmitInbound(c, w))
    /\ \A h \in Tasks : WF_vars(Observe(h))
    /\ WF_vars(Reconciliation)

Spec == Init /\ [][Next]_vars
FairSpec == Spec /\ Fairness
-----------------------------------------------------------------------------
(***************************************************************************)
(* Properties                                                              *)
(***************************************************************************)

\* Every variable has its type.
TypeOK ==
    /\ StoreTypeOK /\ AdmissionTypeOK /\ ObserverTypeOK
    /\ chan \in [Calls -> ChanRecs]
    /\ admission \in [Calls -> [Workers -> Admissions]]

\* The admission and the event handlers use the call store as it allows.
ImplementsStore == StoreSpec

\* AdmitInbound returned no error, every other handler of the channel is over
\* too, and the call has not ended.
Admitted(c) ==
    /\ chan[c].st \in Up
    /\ \E w \in DOMAIN admission[c] : At(c, w, "admitted")
    /\ \A w \in DOMAIN admission[c] : admission[c][w].pc \in {"admitted", "done"}
    /\ row[c].state \notin TerminalStates

\* A channel that was admitted and is still up holds its trunk lease under the
\* call's id, so that the lease outlives the admission and is found again by
\* the terminal event that releases it, and the control API can reach it.
AdmittedIsHeld ==
    \A c \in Calls : Admitted(c) => /\ CallLease(c) \in leases[TrunkOf[c]]
                                     /\ binding[c] = theDialog

\* AcquireCallLease bounds the channels a trunk carries: a channel counts from
\* the moment its lease is acquired until it hangs up.
AdmittedWithinLimit ==
    \A t \in Trunks :
        Cardinality({c \in Calls : /\ TrunkOf[c] = t /\ Admitted(c)})
            <= MaxConcurrentCalls

\* The channel of a call that has a row is gone.
Gone(c) == chan[c].st = "hungup" /\ row[c].state # "none"
=============================================================================
