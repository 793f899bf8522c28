--------------------------- MODULE EventPipeline ----------------------------
(***************************************************************************)
(* A domain event from the transaction that wrote it to the endpoints of   *)
(* its webhooks: Outbox, JetStream and WebhookDelivery together.           *)
(*                                                                         *)
(* A worker process runs the outbox publisher, the webhook consumer and    *)
(* the delivery job in one errgroup.  The first of them to return an error *)
(* cancels the others and ends the process, which is then restarted: a     *)
(* webhook result that finds no row also stops the publication of events.  *)
(* The endpoint operations of the API are WebhookDelivery's subject and do *)
(* not happen here: an endpoint is only disabled by its failures.          *)
(***************************************************************************)
EXTENDS Outbox

CONSTANTS Endpoints, MaxAttempts, AutoDisableAfter, MaxDeliver, MaxRetries

VARIABLES endpoint, delivery, message, ingest, job, deleting, accepted, retries

Hooks == INSTANCE WebhookDelivery

hookVars == <<endpoint, delivery, message, ingest, job, deleting, accepted, retries>>
pipelineVars == <<outboxVars, hookVars>>

\* Only fewer failures than JetStream tolerates are survived.
ASSUME PipelineAssumption ==
    /\ MaxAttempts \in Nat \ {0} /\ AutoDisableAfter \in Nat \ {0}
    /\ MaxRetries \in Nat
    /\ MaxDeliver \in Nat /\ MaxDeliver > MaxFaults

PipelineInit == OutboxInit /\ Hooks!WebhookInit

\* The jobs of a process: when one of them is down the others are.
PublisherStep(w) ==
    /\ ReleaseStaleLocks(w) \/ PublishBatch(w) \/ Crash(w)
    /\ job' = IF publisher'[w].pc = "down" THEN [job EXCEPT ![w] = Hooks!NoJob] ELSE job
    /\ Hooks!OpenIngests(w)
    /\ UNCHANGED <<endpoint, delivery, deleting, accepted, retries>>

\* A result statement that finds no row ends the process without any fault of the
\* infrastructure.
DeliveryStep(w) ==
    /\ Hooks!DeliverBatch(w)
    /\ publisher' = IF job'[w].pc = "down" THEN [publisher EXCEPT ![w] = Down] ELSE publisher
    /\ UNCHANGED <<outbox, stream>>

RestartProcess(w) == Restart(w) /\ Hooks!Restart(w)

Clock(e) == (LockGrowsStale(e) \/ FallsDue(e)) /\ UNCHANGED hookVars
HookClock(d) ==
    /\ Hooks!LockGrowsStale(d) \/ Hooks!FallsDue(d)
    /\ UNCHANGED <<outbox, publisher, stream>>

\* Consumer.Run.
Consume(e) ==
    /\ Hooks!IngestBegin(e) \/ Hooks!Ingest(e)
    /\ UNCHANGED <<outbox, publisher, stream>>

PipelineNext ==
    \/ \E e \in Events : \/ InsertEvent(e) /\ UNCHANGED hookVars
                         \/ Clock(e)
                         \/ Consume(e)
    \/ \E w \in Workers : PublisherStep(w) \/ DeliveryStep(w) \/ RestartProcess(w)
    \/ \E e \in Events, p \in Endpoints : HookClock(<<e, p>>)

\* Clocks advance, jobs run, a dead process is restarted and JetStream delivers
\* what is not acknowledged.  Nothing is assumed of the API's callers or of the
\* endpoints.
PipelineFairness ==
    /\ \A e \in Events : WF_pipelineVars(Clock(e)) /\ WF_pipelineVars(Consume(e))
    /\ \A e \in Events, p \in Endpoints : WF_pipelineVars(HookClock(<<e, p>>))
    /\ \A w \in Workers :
          /\ SF_pipelineVars(PublisherStep(w) /\ ReleaseStaleLocks(w))
          /\ WF_pipelineVars(PublisherStep(w) /\ PublishBatch(w))
          /\ WF_pipelineVars(DeliveryStep(w))
          /\ WF_pipelineVars(RestartProcess(w))

PipelineSpec == PipelineInit /\ [][PipelineNext]_pipelineVars
PipelineFairSpec == PipelineSpec /\ PipelineFairness
-----------------------------------------------------------------------------
\* Every committed event is settled at every endpoint in the end, whichever
\* process died with it in its hands, unless the endpoint is disabled by then or
\* was when the event reached the consumer.
EveryEventSettles ==
    \A e \in Events, p \in Endpoints :
       (outbox[e].st = "pending" /\ e \notin stream) ~>
          (delivery[<<e, p>>].st \in {"succeeded", "failed", "canceled"} \/ ~endpoint[p].enabled)

\* A settled delivery stays settled here too, when a process that another one's
\* result has ended comes back to rows it had claimed (WebhookDelivery).
SettledStays == Hooks!SettledStays
=============================================================================
