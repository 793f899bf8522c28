--------------------------- MODULE CallAdmission ---------------------------
(***************************************************************************)
(* The Redis side of a call: the trunk's concurrency leases and the        *)
(* channel bindings, and the reconciliation that rebuilds leases from the  *)
(* call rows.                                                              *)
(*                                                                         *)
(* Each operation is one script or command, so each is one expression here *)
(* and one step of its caller.  Lease and binding expiry (26h and 24h) is  *)
(* not modelled: the reconciliation renews leases every 30 seconds.        *)
(***************************************************************************)
EXTENDS CallStore, FiniteSets

CONSTANTS
    MaxConcurrentCalls,   \* Limits.MaxConcurrentCalls of every trunk
    FaultyOps             \* the operations that may fail in an instance

ASSUME AdmissionAssumption == MaxConcurrentCalls \in Nat \ {0}

VARIABLES
    leases,    \* trunk -> members of its lease set
    binding,   \* call -> bound channel (0: no binding)
    recon      \* what the running reconciliation has yet to refresh

MayFail(op) == op \in FaultyOps

\* A channel is named by a number, like the SIP dialog it carries; 0 is NULL.
ChannelIds == Dialogs \cup {NoDialog}

\* A lease is held under the call's id or, while an inbound call has no row
\* yet, under its channel's id.
LeaseIds == Calls \X {"call", "channel"}
CallLease(c) == <<c, "call">>
ChannelLease(c) == <<c, "channel">>

AdmissionInit ==
    /\ leases = [t \in Trunks |-> {}]
    /\ binding = [c \in Calls |-> 0]
    /\ recon = {}

\* Mutant: the capacity test is off by one.
CanLeaseOneMore(t, m) == m \in leases[t] \/ Cardinality(leases[t]) <= MaxConcurrentCalls

\* The AcquireCallLease script: an existing lease is renewed unchecked.
CanLease(t, m) == m \in leases[t] \/ Cardinality(leases[t]) < MaxConcurrentCalls

\* AcquireCallLease and RefreshCallLease; the latter never looks at capacity.
Leased(t, m) == [leases EXCEPT ![t] = @ \cup {m}]

\* ReleaseCallLease.
Released(t, m) == [leases EXCEPT ![t] = @ \ {m}]

\* The BindCallLease script: the lease moves from the channel to the call.
Rebound(t, c) == [leases EXCEPT ![t] = (@ \ {ChannelLease(c)}) \cup {CallLease(c)}]

\* ChannelStore.Bind and Delete.
Bound(c, i) == [binding EXCEPT ![c] = i]
Unbound(c) == [binding EXCEPT ![c] = 0]

-----------------------------------------------------------------------------
(***************************************************************************)
(* ReconciliationJob.Reconcile: list the active calls, then refresh them   *)
(* one after the other; the first error ends the pass.                     *)
(***************************************************************************)

ActiveForAdmission ==
    {c \in Calls : /\ row[c].state \in CallStates \ TerminalStates
                   /\ row[c].trunk # NoTrunk}

ReconcileList ==
    /\ recon = {} /\ ActiveForAdmission # {}
    /\ recon' = {<<row[c].trunk, c>> : c \in ActiveForAdmission}
    /\ UNCHANGED <<row, emitted, leases, binding>>

ReconcileRefresh ==
    /\ \E p \in recon :
          \/ leases' = Leased(p[1], CallLease(p[2])) /\ recon' = recon \ {p}
          \/ MayFail("refresh") /\ recon' = {} /\ UNCHANGED leases
    /\ UNCHANGED <<row, emitted, binding>>

Reconcile == ReconcileList \/ ReconcileRefresh

AdmissionTypeOK ==
    /\ leases \in [Trunks -> SUBSET LeaseIds]
    /\ binding \in [Calls -> ChannelIds]
    /\ recon \subseteq Trunks \X Calls
=============================================================================
