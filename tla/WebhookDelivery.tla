-------------------------- MODULE WebhookDelivery ---------------------------
(***************************************************************************)
(* Webhook ingestion, the delivery jobs and the endpoint operations.       *)
(*                                                                         *)
(* Ingest turns a stream event into one delivery row per subscribed,       *)
(* enabled endpoint; JetStream hands it the event again until it is        *)
(* acknowledged, MaxDeliver times at most.  Every worker runs a            *)
(* DeliveryJob: it claims due rows, posts them one after the other and     *)
(* records each result.  The result statements require locked_by =     *)
(* worker_id, but every worker uses the id "worker-webhooks": the guard    *)
(* says that somebody holds the row, not who.  A statement that finds no   *)
(* row fails with ErrNoRows, which ends the job and its worker process.    *)
(*                                                                         *)
(* Clocks are nondeterministic: a lock grows stale, and a retry falls due, *)
(* at any moment after it was written.  EventPipeline composes this module *)
(* with the outbox that fills the stream.                                  *)
(***************************************************************************)
EXTENDS Naturals, FiniteSets

CONSTANTS
    Events,            \* webhook event ids
    Endpoints,         \* webhook endpoints subscribed to them
    Workers,           \* worker processes
    BatchSize,         \* DeliveryJobConfig.BatchSize
    MaxAttempts,       \* DeliveryJobConfig.MaxAttempts
    AutoDisableAfter,  \* DeliveryJobConfig.AutoDisableAfter
    MaxDeliver,        \* MaxDeliver of the consumer
    MaxFaults,         \* bound: crashes and database errors
    MaxRetries         \* bound: manual retries

VARIABLES
    endpoint,   \* webhook_endpoints: enabled, consecutive_failures
    delivery,   \* webhook_deliveries, unique per event and endpoint
    stream,     \* events JetStream holds, written by the outbox publishers
    message,    \* the consumer's state of each event
    ingest,     \* per event: the endpoints an open Ingest transaction has read
    job,        \* the DeliveryJob of each worker
    deleting,   \* endpoints whose Delete is between Disable and Cancel
    accepted,   \* deliveries their endpoint has answered with 2xx
    faults,     \* faults so far
    retries     \* manual retries so far

webhookVars ==
    <<endpoint, delivery, message, ingest, job, deleting, accepted, faults, retries>>

Deliveries == Events \X Endpoints
Open == {"pending", "retrying"}
NoDelivery == [st |-> "none", attempts |-> 0, locked |-> FALSE,
               stale |-> FALSE, due |-> TRUE]

\* A delivery job and the claimed rows as ClaimWebhookDeliveries returned them
\* ([d, attempts]): those of the batch, and in cur the one it is working on.
NoJob == [pc |-> "down", batch |-> {}, cur |-> {}]

WebhookInit ==
    /\ endpoint = [p \in Endpoints |-> [enabled |-> TRUE, failures |-> 0]]
    /\ delivery = [d \in Deliveries |-> NoDelivery]
    /\ message = [e \in Events |-> [st |-> "ready", delivered |-> 0]]
    /\ ingest = [e \in Events |-> {}]
    /\ job = [w \in Workers |-> [NoJob EXCEPT !.pc = "poll"]]
    /\ deleting = {}
    /\ accepted = {}
    /\ faults = 0
    /\ retries = 0

Fault == faults < MaxFaults /\ faults' = faults + 1

-----------------------------------------------------------------------------
CreateWebhookDeliveriesForEvent == {p \in Endpoints : endpoint[p].enabled}

\* The consumer receives the message and Ingest reads the enabled endpoints.
IngestBegin(e) ==
    /\ e \in stream
    /\ message[e].st = "ready" /\ message[e].delivered < MaxDeliver
    /\ message' = [message EXCEPT ![e] = [st |-> "open", delivered |-> @.delivered + 1]]
    /\ ingest' = [ingest EXCEPT ![e] = CreateWebhookDeliveriesForEvent]
    /\ UNCHANGED <<endpoint, delivery, job, deleting, accepted, faults, retries>>

\* The rows appear at Commit; the acknowledgement may be lost.
IngestCommit(e) ==
    /\ message[e].st = "open"
    /\ delivery' = [d \in Deliveries |->
          IF d[1] = e /\ d[2] \in ingest[e] /\ delivery[d].st = "none"
          THEN [delivery[d] EXCEPT !.st = "pending"] ELSE delivery[d]]
    /\ ingest' = [ingest EXCEPT ![e] = {}]
    /\ \/ message' = [message EXCEPT ![e].st = "acked"] /\ UNCHANGED faults
       \/ message' = [message EXCEPT ![e].st = "ready"] /\ Fault
    /\ UNCHANGED <<endpoint, job, deleting, accepted, retries>>

\* Mutant: the handler acknowledges also when Ingest failed.
AckFailedIngest(e) ==
    /\ message[e].st = "open" /\ Fault
    /\ message' = [message EXCEPT ![e].st = "acked"]
    /\ ingest' = [ingest EXCEPT ![e] = {}]
    /\ UNCHANGED <<endpoint, delivery, job, deleting, accepted, retries>>

\* Ingest returns an error: Nak.
IngestFails(e) ==
    /\ message[e].st = "open" /\ Fault
    /\ message' = [message EXCEPT ![e].st = "ready"]
    /\ ingest' = [ingest EXCEPT ![e] = {}]
    /\ UNCHANGED <<endpoint, delivery, job, deleting, accepted, retries>>

Ingest(e) == IngestCommit(e) \/ IngestFails(e)

\* A process that ends takes its consumer with it: an Ingest it had open, any of
\* those that are, is rolled back and its message comes again.
OpenIngests(w) ==
    \E lost \in SUBSET {e \in Events : job'[w].pc = "down" /\ message[e].st = "open"} :
       /\ message' = [e \in Events |-> IF e \in lost THEN [message[e] EXCEPT !.st = "ready"]
                                       ELSE message[e]]
       /\ ingest' = [e \in Events |-> IF e \in lost THEN {} ELSE ingest[e]]

LockGrowsStale(d) ==
    /\ delivery[d].locked /\ ~delivery[d].stale
    /\ delivery' = [delivery EXCEPT ![d].stale = TRUE]
    /\ UNCHANGED <<endpoint, message, ingest, job, deleting, accepted, faults, retries>>

FallsDue(d) ==
    /\ ~delivery[d].due
    /\ delivery' = [delivery EXCEPT ![d].due = TRUE]
    /\ UNCHANGED <<endpoint, message, ingest, job, deleting, accepted, faults, retries>>

-----------------------------------------------------------------------------
\* Endpoint operations of the API.
SetEnabled(p) ==
    /\ \E on \in BOOLEAN : endpoint' = [endpoint EXCEPT ![p].enabled = on]
    /\ UNCHANGED <<delivery, message, ingest, job, deleting, accepted, faults, retries>>

DeleteDisable(p) ==
    /\ p \notin deleting
    /\ endpoint' = [endpoint EXCEPT ![p].enabled = FALSE]
    /\ deleting' = deleting \cup {p}
    /\ UNCHANGED <<delivery, message, ingest, job, accepted, faults, retries>>

Canceled(r) == [r EXCEPT !.st = "canceled", !.locked = FALSE, !.stale = FALSE]

\* The second statement, unless the request ends before it.
DeleteCancel(p) ==
    /\ p \in deleting
    /\ deleting' = deleting \ {p}
    /\ \/ /\ delivery' = [d \in Deliveries |->
                IF d[2] = p /\ delivery[d].st \in Open
                THEN Canceled(delivery[d]) ELSE delivery[d]]
          /\ UNCHANGED faults
       \/ Fault /\ UNCHANGED delivery
    /\ UNCHANGED <<endpoint, message, ingest, job, accepted, retries>>

\* RetryWebhookDelivery: a failed delivery of an enabled endpoint starts again,
\* with the attempts it has used.
Retry(d) ==
    /\ retries < MaxRetries
    /\ delivery[d].st = "failed" /\ endpoint[d[2]].enabled
    /\ delivery' = [delivery EXCEPT ![d] =
          [@ EXCEPT !.st = "pending", !.due = TRUE, !.locked = FALSE, !.stale = FALSE]]
    /\ retries' = retries + 1
    /\ UNCHANGED <<endpoint, message, ingest, job, deleting, accepted, faults>>

-----------------------------------------------------------------------------
Claimable ==
    {d \in Deliveries : /\ delivery[d].st \in Open /\ delivery[d].due
                        /\ endpoint[d[2]].enabled
                        /\ ~delivery[d].locked \/ delivery[d].stale}

JobEnds(w) == job' = [job EXCEPT ![w] = NoJob]

\* ClaimWebhookDeliveries: lock the rows and count the attempt.
ClaimDeliveries(w) ==
    /\ job[w].pc = "poll" /\ Claimable # {}
    /\ \E batch \in SUBSET Claimable :
          /\ \/ Cardinality(batch) = BatchSize
             \/ Cardinality(batch) < BatchSize /\ batch = Claimable
          /\ delivery' = [d \in Deliveries |-> IF d \in batch
                THEN [delivery[d] EXCEPT !.locked = TRUE, !.stale = FALSE,
                                         !.attempts = @ + 1]
                ELSE delivery[d]]
          /\ \/ /\ job' = [job EXCEPT ![w] =
                      [pc |-> "send", cur |-> {},
                       batch |-> {[d |-> d, attempts |-> delivery[d].attempts + 1] :
                                  d \in batch}]]
                /\ UNCHANGED faults
             \/ JobEnds(w) /\ Fault
    /\ UNCHANGED <<endpoint, deleting, accepted, retries>>

\* HTTPSender.Send: a 2xx answer, a retryable failure that the endpoint may have
\* accepted all the same, or a refusal.
Send(w) ==
    /\ job[w].pc = "send"
    /\ \E c \in job[w].batch :
          LET Result(pc) == job' = [job EXCEPT ![w] =
                 [pc |-> pc, batch |-> job[w].batch \ {c}, cur |-> {c}]]
          IN  \/ Result("ok") /\ accepted' = accepted \cup {c.d}
              \/ Result("retry") /\ accepted' \in {accepted, accepted \cup {c.d}}
              \/ Result("reject") /\ UNCHANGED accepted
    /\ UNCHANGED <<endpoint, delivery, deleting, faults, retries>>

NextInBatch(w) ==
    job' = [job EXCEPT ![w].cur = {},
               ![w].pc = IF job[w].batch = {} THEN "poll" ELSE "send"]

\* A row when its result has been written.
Settled(r, st) == [r EXCEPT !.st = st, !.locked = FALSE, !.stale = FALSE]

\* Mutant: the result statements do not look at the lock.
RecordUnfenced(w, d, st, ends) ==
    /\ delivery' = [delivery EXCEPT ![d] = Settled(@, st)]
    /\ endpoint' = [endpoint EXCEPT ![d[2]] = ends]
    /\ NextInBatch(w)
    /\ UNCHANGED faults

\* One result statement for delivery d: it takes effect when the row is locked,
\* finds no row otherwise (which ends the job), or fails with a database error
\* whether or not it committed.
Record(w, d, st, ends) ==
    LET applies == /\ delivery[d].locked
                   /\ delivery' = [delivery EXCEPT ![d] =
                         [Settled(@, st) EXCEPT !.due = st # "retrying"]]
                   /\ endpoint' = [endpoint EXCEPT ![d[2]] = ends]
    IN  \/ applies /\ NextInBatch(w) /\ UNCHANGED faults
        \/ ~delivery[d].locked /\ JobEnds(w) /\ UNCHANGED <<delivery, endpoint, faults>>
        \/ (applies \/ UNCHANGED <<delivery, endpoint>>) /\ JobEnds(w) /\ Fault

\* MarkWebhookDeliverySucceeded, which also resets an enabled endpoint.
MarkSucceeded(w) ==
    /\ job[w].pc = "ok"
    /\ \E c \in job[w].cur :
          LET p == endpoint[c.d[2]]
          IN  Record(w, c.d, "succeeded",
                     IF p.enabled THEN [p EXCEPT !.failures = 0] ELSE p)
    /\ UNCHANGED <<deleting, accepted, retries>>

ScheduleRetry(w) ==
    /\ job[w].pc = "retry"
    /\ \E c \in job[w].cur :
          /\ c.attempts < MaxAttempts
          /\ Record(w, c.d, "retrying", endpoint[c.d[2]])
    /\ UNCHANGED <<deleting, accepted, retries>>

\* MarkWebhookDeliveryFailed, which also counts against the endpoint.
MarkFailed(w) ==
    /\ job[w].pc \in {"retry", "reject"}
    /\ \E c \in job[w].cur :
          LET p == endpoint[c.d[2]]
              n == p.failures + 1
          IN  /\ job[w].pc = "retry" => c.attempts >= MaxAttempts
              /\ Record(w, c.d, "failed",
                        [enabled |-> p.enabled /\ n < AutoDisableAfter, failures |-> n])
    /\ UNCHANGED <<deleting, accepted, retries>>

Crash(w) ==
    /\ job[w].pc # "down" /\ JobEnds(w) /\ Fault /\ OpenIngests(w)
    /\ UNCHANGED <<endpoint, delivery, deleting, accepted, retries>>

Restart(w) ==
    /\ job[w].pc = "down"
    /\ job' = [job EXCEPT ![w].pc = "poll"]
    /\ UNCHANGED <<endpoint, delivery, message, ingest, deleting, accepted, faults, retries>>

RecordResult(w) == MarkSucceeded(w) \/ ScheduleRetry(w) \/ MarkFailed(w)
\* The jobs of a process end with one of them.
DeliverBatch(w) == (ClaimDeliveries(w) \/ Send(w) \/ RecordResult(w)) /\ OpenIngests(w)

WebhookNext ==
    \/ \E e \in Events : IngestBegin(e) \/ Ingest(e)
    \/ \E p \in Endpoints : SetEnabled(p) \/ DeleteDisable(p) \/ DeleteCancel(p)
    \/ \E d \in Deliveries : Retry(d) \/ LockGrowsStale(d) \/ FallsDue(d)
    \/ \E w \in Workers : DeliverBatch(w) \/ Crash(w) \/ Restart(w)

\* Alone, the module starts with every event in the stream.
WebhookSpec == /\ WebhookInit /\ stream = Events
               /\ [][WebhookNext /\ UNCHANGED stream]_<<webhookVars, stream>>
-----------------------------------------------------------------------------
\* A delivery is only recorded as succeeded when its endpoint accepted it, and
\* once settled it stays settled: neither a late result of a worker whose claim
\* was taken over nor a redelivered event reopens it.  Only a manual retry does,
\* and only from failed.  (MarkWebhookDeliverySucceeded .. Failed, locked_by.)
SettledStays ==
    [][\A d \in Deliveries :
          /\ delivery'[d].st = "succeeded" => d \in accepted'
          /\ delivery[d].st \in {"succeeded", "canceled"} =>
                delivery'[d].st = delivery[d].st
          /\ delivery[d].st = "failed" =>
                \/ delivery'[d].st = "failed"
                \/ delivery'[d].st = "pending" /\ retries' = retries + 1]_webhookVars
=============================================================================
