---------------------------- MODULE OutboundCall ----------------------------
(***************************************************************************)
(* An outbound call from POST /calls to its last FreeSWITCH event.         *)
(*                                                                         *)
(* The request goroutine of calls.Service.Create (creator[c]) walks the    *)
(* route plan one external call at a time, concurrently with the event     *)
(* handlers (LifecycleObserver), the reconciliation (CallAdmission),       *)
(* FreeSWITCH and the control API.  Every database, Redis or ESL call is a *)
(* step of its own; those in FaultyOps may fail, with or without effect,   *)
(* and the client may abandon the request at any moment.                   *)
(***************************************************************************)
EXTENDS LifecycleObserver, Sequences

CONSTANTS
    Plan,        \* decision.Routes: the trunk of each route, in order
    MaxHolds     \* bound: hold requests per channel

\* failover.go: the attempts executeRoutePlan may make.
maxOutboundAttempts == 3
Attempts == 1..(IF Len(Plan) < maxOutboundAttempts THEN Len(Plan)
                                                    ELSE maxOutboundAttempts)

\* The channel of an attempt is named by the attempt.
ASSUME OutboundAssumption ==
    /\ Plan \in Seq(Trunks)
    /\ 1..maxOutboundAttempts \subseteq Dialogs
    /\ MaxHolds \in Nat

VARIABLES
    chan,      \* FreeSWITCH: call -> attempt -> channel
    creator    \* the request goroutine of Create

vars == <<row, emitted, leases, binding, recon, task, chan, creator>>

CreatorPCs == {"idle", "route", "attribute", "acquire", "originate", "release",
               "bind", "hangup", "unlease", "fail", "done"}
Creators == [pc : CreatorPCs, attempt : ChannelIds, retry : BOOLEAN,
             ctx : BOOLEAN, reported : BOOLEAN]

ChanStates == {"none", "queued", "created", "progress", "answered", "held", "hungup"}
ChanRecs == [st : ChanStates, holds : Nat]
NoChan == [st |-> "none", holds |-> 0]

Init ==
    /\ StoreInit /\ AdmissionInit /\ ObserverInit
    /\ chan = [c \in Calls |-> [i \in Attempts |-> NoChan]]
    /\ creator = [c \in Calls |-> [pc |-> "idle", attempt |-> 0, retry |-> FALSE,
                                   ctx |-> TRUE, reported |-> FALSE]]

\* A channel goes down, whoever ended it.
HangUp(c, i) ==
    /\ chan[c][i].st \in Up
    /\ chan' = [chan EXCEPT ![c][i].st = "hungup"]
    /\ \E e \in HangupEvents(chan[c][i].st) : Dispatch(c, i, e)

-----------------------------------------------------------------------------
(***************************************************************************)
(* Service.Create                                                          *)
(***************************************************************************)
To(c, pc) == creator' = [creator EXCEPT ![c].pc = pc]

\* A call made with the request's context succeeds unless the context is done
\* or the operation fails.
Works(c) == creator[c].ctx
Breaks(c, op) == MayFail(op) \/ ~creator[c].ctx

\* The client goes away while the request is running: r.Context() is cancelled.
ClientDisconnect(c) ==
    /\ MayFail("request")
    /\ creator[c].pc \notin {"idle", "done"} /\ creator[c].ctx
    /\ creator' = [creator EXCEPT ![c].ctx = FALSE]
    /\ UNCHANGED <<row, emitted, leases, binding, chan, task, recon>>

\* repo.Create: the row and "call.initiated" commit together.  A commit error
\* ends the request, whether or not the commit took effect.
Create(c) ==
    /\ creator[c].pc = "idle"
    /\ \/ InsertOutbound(c) /\ To(c, "route")
       \/ MayFail("create") /\ InsertOutbound(c) /\ To(c, "done")
       \/ MayFail("create") /\ UNCHANGED storeVars /\ To(c, "done")
    /\ UNCHANGED <<leases, binding, chan, task, recon>>

\* router.ResolveOutbound: the plan, or an error / no eligible route.
ResolveRoute(c) ==
    /\ creator[c].pc = "route"
    /\ \/ /\ Attempts # {} /\ Works(c)
          /\ creator' = [creator EXCEPT ![c].pc = "attribute", ![c].attempt = 1]
       \/ /\ Attempts = {} \/ Breaks(c, "route")
          /\ To(c, "fail")
    /\ UNCHANGED <<row, emitted, leases, binding, chan, task, recon>>

\* The loop head of executeRoutePlan: the next route, unless the budget is
\* spent or the context is done.
NextAttempt(c) ==
    LET next == creator[c].attempt + 1 IN
    IF next \in Attempts /\ creator[c].ctx
    THEN creator' = [creator EXCEPT ![c].pc = "attribute", ![c].attempt = next]
    ELSE To(c, "fail")

\* repo.SetRouteAttribution; its failure has class internal, which is terminal.
Attribute(c) ==
    /\ creator[c].pc = "attribute"
    /\ \/ Works(c) /\ SetRouteAttribution(c, Plan[creator[c].attempt]) /\ To(c, "acquire")
       \/ Breaks(c, "attribute") /\ SetRouteAttribution(c, Plan[creator[c].attempt]) /\ To(c, "fail")
       \/ Breaks(c, "attribute") /\ UNCHANGED storeVars /\ To(c, "fail")
    /\ UNCHANGED <<leases, binding, chan, task, recon>>

\* Mutant: every attempt leases the first route's trunk.
AcquireFirstTrunk(c) ==
    /\ creator[c].pc = "acquire" /\ CanLease(Plan[1], CallLease(c))
    /\ leases' = Leased(Plan[1], CallLease(c))
    /\ To(c, "originate")
    /\ UNCHANGED <<row, emitted, binding, chan, task, recon>>

\* admission.Acquire.  Every refusal (concurrency, the CPS window, a Redis
\* error) has class capacity, which is retryable; a Redis error may hide that
\* the script ran.
Acquire(c) ==
    LET t == Plan[creator[c].attempt]
        m == CallLease(c)
    IN
    /\ creator[c].pc = "acquire"
    /\ \/ Works(c) /\ CanLease(t, m) /\ leases' = Leased(t, m) /\ To(c, "originate")
       \/ Works(c) /\ m \notin leases[t] /\ UNCHANGED leases /\ NextAttempt(c)
       \/ /\ Breaks(c, "acquire")
          /\ leases' \in {leases} \cup IF CanLease(t, m) THEN {Leased(t, m)} ELSE {}
          /\ NextAttempt(c)
    /\ UNCHANGED <<row, emitted, binding, chan, task, recon>>

\* classifyOriginateFailure.
RetryableClass(class) == class \in {"transport", "capacity"}

\* What one ESL command can come to: whether FreeSWITCH got the bgapi command,
\* and the class classifyClientOriginateError gives the error.  A reset
\* connection is a net.Error (transport) whether the command arrived or not; a
\* closed one, a cancelled context and "not connected" are internal.
OriginateErrors ==
    {[sent |-> FALSE, class |-> "internal"], [sent |-> FALSE, class |-> "transport"],
     [sent |-> TRUE, class |-> "transport"], [sent |-> TRUE, class |-> "timeout"],
     [sent |-> TRUE, class |-> "internal"]}

\* controller.Originate.  The result carries no channel id when it fails.
Originate(c) ==
    LET i == creator[c].attempt
        Queued == [chan EXCEPT ![c][i].st = "queued"]
    IN
    /\ creator[c].pc = "originate"
    /\ \/ /\ Works(c)
          /\ chan' = Queued
          /\ creator' = [creator EXCEPT ![c].pc = "bind", ![c].reported = TRUE]
       \/ \E err \in OriginateErrors :
            /\ Breaks(c, "originate")
            /\ chan' = IF err.sent THEN Queued ELSE chan
            /\ creator' = [creator EXCEPT ![c].pc = "release",
                                          ![c].retry = RetryableClass(err.class)]
    /\ UNCHANGED <<row, emitted, leases, binding, task, recon>>

\* The attempt's own compensation, then the loop's decision.
ReleaseAttempt(c) ==
    LET t == Plan[creator[c].attempt] IN
    /\ creator[c].pc = "release"
    /\ \/ Works(c) /\ leases' = Released(t, CallLease(c))
       \/ Breaks(c, "release") /\ UNCHANGED leases
    /\ IF creator[c].retry THEN NextAttempt(c) ELSE To(c, "fail")
    /\ UNCHANGED <<row, emitted, binding, chan, task, recon>>

\* channels.Bind after a successful origination; its failure is unwound.
BindChannel(c) ==
    /\ creator[c].pc = "bind"
    /\ \/ /\ Works(c)
          /\ binding' = Bound(c, creator[c].attempt)
          /\ To(c, "done")
       \/ /\ Breaks(c, "bind")
          /\ creator' = [creator EXCEPT ![c].pc = "hangup", ![c].reported = FALSE]
          /\ binding' \in {binding, Bound(c, creator[c].attempt)}
    /\ UNCHANGED <<row, emitted, leases, chan, task, recon>>

\* controller.Hangup and admission.Release after a failed binding; both errors
\* are ignored.
UnwindHangup(c) ==
    LET i == creator[c].attempt IN
    /\ creator[c].pc = "hangup"
    /\ To(c, "unlease")
    /\ \/ Works(c) /\ HangUp(c, i)
       \/ /\ Breaks(c, "hangup") \/ chan[c][i].st \notin Up
          /\ UNCHANGED <<chan, task>>
    /\ UNCHANGED <<row, emitted, leases, binding, recon>>

UnwindRelease(c) ==
    LET t == Plan[creator[c].attempt] IN
    /\ creator[c].pc = "unlease"
    /\ \/ Works(c) /\ leases' = Released(t, CallLease(c))
       \/ Breaks(c, "release") /\ UNCHANGED leases
    /\ To(c, "fail")
    /\ UNCHANGED <<row, emitted, binding, chan, task, recon>>

\* Mutant: the failure is written without its outbox event.
MarkFailedSilently(c) ==
    /\ creator[c].pc = "fail"
    /\ To(c, "done")
    /\ row' = [row EXCEPT ![c].state = "failed"]
    /\ UNCHANGED <<emitted, leases, binding, chan, task, recon>>

\* repo.MarkFailed, whose error is ignored: the request ends either way.
MarkCreateFailed(c) ==
    /\ creator[c].pc = "fail"
    /\ To(c, "done")
    /\ \/ Works(c) /\ Mark(c, "failed")
       \/ (Breaks(c, "mark") \/ ~CanMark("failed", row[c])) /\ UNCHANGED storeVars
    /\ UNCHANGED <<leases, binding, chan, task, recon>>

CreateStep(c) ==
    \/ Create(c) \/ ResolveRoute(c) \/ Attribute(c) \/ Acquire(c) \/ Originate(c)
    \/ ReleaseAttempt(c) \/ BindChannel(c) \/ UnwindHangup(c)
    \/ UnwindRelease(c) \/ MarkCreateFailed(c)

-----------------------------------------------------------------------------
(***************************************************************************)
(* The life of a channel, and the control API acting on it.                *)
(***************************************************************************)
SwitchOnly == UNCHANGED <<row, emitted, leases, binding, creator, recon>>

ChannelCreate(c, i) ==
    /\ chan[c][i].st = "queued"
    /\ chan' = [chan EXCEPT ![c][i].st = "created"]
    /\ Dispatch(c, i, "initiated")
    /\ SwitchOnly

ChannelProgress(c, i) ==
    /\ chan[c][i].st = "created"
    /\ chan' = [chan EXCEPT ![c][i].st = "progress"]
    /\ Dispatch(c, i, "ringing")
    /\ SwitchOnly

ChannelAnswer(c, i) ==
    /\ chan[c][i].st \in {"created", "progress"}
    /\ chan' = [chan EXCEPT ![c][i].st = "answered"]
    /\ Dispatch(c, i, "answered")
    /\ SwitchOnly

\* The remote side hangs up at any time; Service.Hangup, which needs a
\* non-terminal row and reaches the bound channel, adds no other outcome.
ChannelHangup(c, i) ==
    /\ HangUp(c, i)
    /\ SwitchOnly

\* Service.Hold and Service.Resume act on the bound channel when the row's
\* state and media_state allow it.
Hold(c) ==
    LET i == binding[c] IN
    /\ i \in Attempts /\ chan[c][i].st = "answered"
    /\ row[c].state \in {"answered", "active"} /\ row[c].media # "held"
    /\ chan[c][i].holds < MaxHolds
    /\ chan' = [chan EXCEPT ![c][i] = [st |-> "held", holds |-> chan[c][i].holds + 1]]
    /\ Dispatch(c, i, "held")
    /\ SwitchOnly

Resume(c) ==
    LET i == binding[c] IN
    /\ i \in Attempts /\ chan[c][i].st = "held"
    /\ row[c].state \in {"answered", "active"} /\ row[c].media # "active"
    /\ chan' = [chan EXCEPT ![c][i].st = "answered"]
    /\ Dispatch(c, i, "resumed")
    /\ SwitchOnly

SwitchStep(c) ==
    \/ Hold(c) \/ Resume(c)
    \/ \E i \in Attempts : \/ ChannelCreate(c, i) \/ ChannelProgress(c, i)
                           \/ ChannelAnswer(c, i) \/ ChannelHangup(c, i)

-----------------------------------------------------------------------------
Observe(h) == ObserveLifecycle(h) /\ UNCHANGED <<chan, creator>>
Reconciliation == Reconcile /\ UNCHANGED <<task, chan, creator>>

Next ==
    \/ \E c \in Calls : CreateStep(c) \/ ClientDisconnect(c) \/ SwitchStep(c)
    \/ \E h \in Tasks : Observe(h)
    \/ Reconciliation

\* Goroutines run to their end and the reconciliation keeps ticking; nothing
\* makes a request arrive or a party hang up.
Fairness ==
    /\ \A c \in Calls : WF_vars(CreateStep(c) /\ creator[c].pc # "idle")
    /\ \A h \in Tasks : WF_vars(Observe(h))
    /\ WF_vars(Reconciliation)

Spec == Init /\ [][Next]_vars
FairSpec == Spec /\ Fairness
-----------------------------------------------------------------------------
(***************************************************************************)
(* Properties                                                              *)
(***************************************************************************)

SwitchTypeOK ==
    /\ chan \in [Calls -> [Attempts -> ChanRecs]]
    /\ creator \in [Calls -> Creators]

\* Every variable has its type.
TypeOK == StoreTypeOK /\ AdmissionTypeOK /\ ObserverTypeOK /\ SwitchTypeOK

Live(ch) == ch.st \in {"queued"} \cup Up

\* The channel of attempt i is the only one the call ever got, and Create
\* treats its origination as a success.
SoleChannel(c, i) ==
    /\ creator[c].reported /\ creator[c].attempt = i
    /\ \A j \in DOMAIN chan[c] \ {i} : chan[c][j].st = "none"

\* A live call is held: while a channel of a successfully originated call is up,
\* its trunk lease is held (otherwise the trunk's limit would admit a call too
\* many), and once POST /calls has returned, the control API (Hangup, Hold,
\* Transfer, ...) finds that channel: no stale or late handler, retry or
\* reconciliation takes either away.
LiveChannelIsHeld ==
    \A c \in Calls : \A i \in DOMAIN chan[c] :
        Live(chan[c][i]) /\ SoleChannel(c, i) =>
            /\ CallLease(c) \in leases[Plan[i]]
            /\ creator[c].pc = "done" => binding[c] = i

\* The request and the event handlers together use the call store as its
\* specification allows.
ImplementsStore == StoreSpec

\* A channel of the call has hung up.
HungUp(c) == \E i \in DOMAIN chan[c] : chan[c][i].st = "hungup"

\* failover.go: "Retrying on another carrier could connect and charge two
\* calls" / "do not send another INVITE on an ambiguous outcome".
AtMostOneInvite ==
    \A c \in Calls : \A i, j \in DOMAIN chan[c] :
        chan[c][i].st # "none" /\ chan[c][j].st # "none" => i = j
=============================================================================
