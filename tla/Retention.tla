----------------------------- MODULE Retention -----------------------------
(***************************************************************************)
(* platform/retention over the recordings: an organization's policy for     *)
(* recordings, and the cleanup job of each worker, which lists the          *)
(* completed recordings older than the policy allows and deletes them one   *)
(* by one through the recording service.  Its first error ends the job, and  *)
(* the worker with it: runWorkloads is an errgroup.                          *)
(***************************************************************************)
EXTENDS Recordings

CONSTANT CleanupOf           \* the worker each retention pass runs on; the other
                             \* Deleters are API requests
VARIABLES policy,            \* "none", "enabled" or "disabled"
          todo               \* what each pass has listed and not deleted yet

retVars == <<policy, todo>>
vars == <<recVars, integration, retVars>>

Cleaners == DOMAIN CleanupOf
Requests == Deleters \ Cleaners

Init == /\ RecInit
        /\ policy = "none"
        /\ todo = [c \in Cleaners |-> {}]

-----------------------------------------------------------------------------
\* The statements of retention.sql and the policy's operations.

UpsertRetentionPolicy(enabled) == IF enabled THEN "enabled" ELSE "disabled"
DeleteRetentionPolicy == "none"

ListEnabledRetentionPolicies == Returning(policy = "enabled", policy)
\* created_at < cutoff: at the time of a pass any of the recordings may be old
\* enough, or none; LIMIT cuts the list short, and the loop lists again.
ListExpiredRecordingsForRetention ==
    SUBSET {p \in Paths : row[p].status = "completed"}

\* Bound: policies are explored only while there is a recording they apply to.
PolicyApplies == \E p \in Paths : row[p].status = "completed"

Upsert(enabled) == /\ PolicyApplies
                   /\ policy' = UpsertRetentionPolicy(enabled)
                   /\ UNCHANGED <<recVars, integration, todo>>
DeletePolicy == /\ PolicyApplies
                /\ policy' = DeleteRetentionPolicy
                /\ UNCHANGED <<recVars, integration, todo>>

-----------------------------------------------------------------------------
\* runOnce: the policies and the expired recordings are read, then each
\* recording is deleted; neither is read again in between.

runOnce(c) ==
    /\ todo[c] = {} /\ deleter[c].pc = "idle"
    /\ ~NoRows(ListEnabledRetentionPolicies)
    /\ \E ids \in ListExpiredRecordingsForRetention \ {{}} :
          todo' = [todo EXCEPT ![c] = ids]
    /\ UNCHANGED <<recVars, integration, policy>>

\* The next recording of the batch; one that is deleted already is done.
CleanupDelete(c) ==
    \E p \in todo[c] :
       /\ todo' = [todo EXCEPT ![c] = @ \ {p}]
       /\ \/ DeleteGet(c, p)
          \/ /\ row[p].status = "deleted" /\ deleter[c].pc = "idle"
             /\ UNCHANGED recVars
       /\ UNCHANGED <<integration, policy>>

\* A deletion that fails returns its error through Run to the errgroup, whose
\* context stops every other workload of that worker: its ingestion pass ends.
CleanupFails(c) ==
    /\ deleter[c].pc \in {"object", "row"}
    /\ Fault
    /\ DeleterTo(c, "idle")
    /\ EndPass(CleanupOf[c])
    /\ todo' = [todo EXCEPT ![c] = {}]
    /\ UNCHANGED <<row, media, ended, object, handler, published, asked>>
    /\ UNCHANGED <<integration, policy>>

RetentionNext ==
    \/ \E enabled \in BOOLEAN : Upsert(enabled)
    \/ DeletePolicy
    \/ \E c \in Cleaners : runOnce(c) \/ CleanupDelete(c) \/ CleanupFails(c)

RecordingsNext ==
    /\ \/ \E p \in Paths : MediaStep(p) \/ Reconcile(p) \/ UploadFallsDue(p)
       \/ \E h \in Handlers, p \in Paths : HandleFreeSWITCHEvent(h, p)
       \/ \E h \in Handlers : HandlerStep(h)
       \/ \E w \in Workers : UploadStep(w) \/ CrashUpload(w)
       \/ \E d \in Requests, p \in Paths : DeleteGet(d, p)
       \/ \E d \in Deleters : DeleteStep(d)
    /\ UNCHANGED <<integration, retVars>>

Next == \/ RecordingsNext
        \/ RetentionNext
        \/ IntegrationNext /\ UNCHANGED <<recVars, retVars>>

Spec == Init /\ [][Next]_vars

\* A worker's ticker runs pass after pass and leases and delays run out; events
\* are handled or lost, so no handler is fair to start, only to go on.
Fairness ==
    /\ \A w \in Workers : WF_vars(UploadStep(w) /\ UNCHANGED <<integration, retVars>>)
    /\ \A p \in Paths : /\ WF_vars(Reconcile(p) /\ UNCHANGED <<integration, retVars>>)
                        /\ WF_vars(UploadFallsDue(p) /\ UNCHANGED <<integration, retVars>>)

FairSpec == Spec /\ Fairness

-----------------------------------------------------------------------------
TypeOK ==
    /\ IntegrationTypeOK
    /\ row \in [Paths -> Recording]
    /\ media \in [Paths -> {"none", "writing", "staged", "removed"}]
    /\ object \subseteq Paths \X Dests
    /\ policy \in {"none", "enabled", "disabled"}
    /\ asked \subseteq Paths
    /\ faults \in 0 .. MaxFaults

\* No audio is lost on the way and none is left behind: the staged file is
\* removed only when its object is where the row says it is, the object goes only
\* when a deletion was asked for, and there is no second copy in another bucket
\* that no deletion would find.  Two uploads of one row, an integration swapped
\* between claim and upload, and a lease that ran out must not break it
\* (IngestionJob.ingestOne, PinRecordingUpload).
AudioIsKept ==
    \A p \in Paths :
       /\ p \in asked \/ (media[p] = "removed" \/ row[p].status = "completed"
                             => <<p, row[p].dest>> \in object)
       /\ \A d \in Dests : <<p, d>> \in object => row[p].dest = d

\* The events of a row's life up to its status.
Story(status) ==
    CASE status = "none" -> {<<>>}
      [] status \in {"recording", "uploading"} -> {<<"started">>}
      [] status = "completed" -> {<<"started", "completed">>}
      [] status = "failed" -> {<<"started", "failed">>}
      [] status = "deleted" -> {<<"started", "completed", "deleted">>, <<"started", "failed", "deleted">>}

\* What the outbox tells the webhooks about a recording is its row's life, each
\* event once and completed and failed never both, however many workers
\* complete, fail or delete it at the same time (Repository.mutate).
EventsTellTheRow == \A p \in Paths : published[p] \in Story(row[p].status)

\* A recording whose call has ended is settled in the end, even when its stop
\* event was lost, every upload attempt fails, or the worker that held its
\* lease died (ReconciliationJob, IngestionJob).
EndedIsSettled ==
    \A p \in Paths : (row[p].status \in {"recording", "uploading"} /\ ended[p])
                        ~> (row[p].status \in {"completed", "failed", "deleted"})
=============================================================================
