---------------------------- MODULE EventProofs -----------------------------
(***************************************************************************)
(* How events come and go: from FreeSWITCH over the ESL connection, and    *)
(* through the outbox to the stream and the webhooks.                      *)
(*                                                                         *)
(* A row marked published is in the stream, for any number of events,      *)
(* workers and faults: the inductive invariant adds that a job about to    *)
(* mark an event has had it acknowledged.                                  *)
(*                                                                         *)
(* The pipeline implements the outbox: whatever the webhook jobs do in the *)
(* same processes, their steps are steps of Outbox's OtherJobs.  What is   *)
(* proved of the outbox alone therefore holds of the pipeline.             *)
(*                                                                         *)
(* A webhook delivery that is settled stays settled.  The lock names       *)
(* nobody, so the argument cannot be that a late worker has lost it: it is *)
(* that a locked row is open, whoever locked it.                           *)
(*                                                                         *)
(* One ESL connection is shared by every command of a process, for any     *)
(* number of callers, connections and breaks: a reply answers the command  *)
(* it is for although it carries no id, and a client that is ready has     *)
(* sent its subscriptions on the connection it has now.                    *)
(***************************************************************************)
EXTENDS EventPipeline, EslClient, TLAPS

\* A job only marks an event after JetStream acknowledged it to that same job.
MarkFollowsAck ==
    \A w \in Workers : publisher[w].pc = "mark" => publisher[w].cur \subseteq stream

OutboxInv == OutboxTypeOK /\ PublishedIsStored /\ MarkFollowsAck

\* The row type, one field at a time.
LEMMA RowUpdate ==
    ASSUME NEW r \in OutboxRows, NEW b \in BOOLEAN
    PROVE  /\ UnlockedRow(r) \in OutboxRows
           /\ UnlockedRow(r).st = r.st
           /\ [r EXCEPT !.locked = b] \in OutboxRows
           /\ [r EXCEPT !.stale = b] \in OutboxRows
           /\ [r EXCEPT !.due = b] \in OutboxRows
           /\ [r EXCEPT !.locked = b].st = r.st
           /\ [r EXCEPT !.stale = b].st = r.st
           /\ [r EXCEPT !.due = b].st = r.st
           /\ [r EXCEPT !.st = "pending"] \in OutboxRows
           /\ [r EXCEPT !.st = "published"] \in OutboxRows
BY DEF OutboxRows, UnlockedRow

\* Down is a publisher in any control state.
LEMMA DownType ==
    Down \in Publishers /\ [Down EXCEPT !.pc = "start"] \in Publishers
BY DEF Down, Publishers, PublisherPCs

\* A worker goes down, by a crash or a database error, and the invariant's
\* conjuncts about workers survive it.
LEMMA FailKeeps ==
    ASSUME OutboxInv, NEW w \in Workers, JobFails(w), UNCHANGED stream
    PROVE  /\ publisher' \in [Workers -> Publishers]
           /\ MarkFollowsAck'
           /\ faults' \in 0..MaxFaults
<1>1. publisher' = [publisher EXCEPT ![w] = Down]
  BY DEF JobFails
<1>2. publisher' \in [Workers -> Publishers]
  BY <1>1, DownType DEF OutboxInv, OutboxTypeOK
<1>3. MarkFollowsAck'
  BY <1>1 DEF OutboxInv, OutboxTypeOK, MarkFollowsAck, Down
<1>4. faults' \in 0..MaxFaults
  BY OutboxAssumption DEF JobFails, Fault, OutboxInv, OutboxTypeOK
<1> QED BY <1>2, <1>3, <1>4

\* A row's UPDATE by a worker keeps the invariant when the new table is typed
\* and marks nothing published that is not stored.
LEMMA UpdateKeeps ==
    ASSUME OutboxInv, NEW w \in Workers, NEW rows \in [Events -> OutboxRows],
           \A e \in Events : rows[e].st = "published" => e \in stream,
           Update(w, rows)
    PROVE  OutboxInv'
<1>1. outbox' \in {outbox, rows} /\ stream' = stream
  BY DEF Update
<1>2. PublishedIsStored' /\ outbox' \in [Events -> OutboxRows] /\ stream' \subseteq Events
  BY <1>1 DEF OutboxInv, OutboxTypeOK, PublishedIsStored
<1>3. CASE NextInBatch(w) /\ UNCHANGED faults
  <2> DEFINE p == [publisher[w] EXCEPT !.cur = {},
                      !.pc = IF publisher[w].batch = {} THEN "poll" ELSE "publish"]
  <2>1. publisher[w] \in Publishers
    BY DEF OutboxInv, OutboxTypeOK
  <2>2. p \in Publishers /\ p.pc # "mark"
    BY <2>1 DEF Publishers, PublisherPCs
  <2>3. publisher' = [publisher EXCEPT ![w] = p]
    BY <1>3, <2>1 DEF NextInBatch, OutboxInv, OutboxTypeOK, Publishers
  <2> HIDE DEF p
  <2>4. publisher' \in [Workers -> Publishers]
    BY <2>2, <2>3 DEF OutboxInv, OutboxTypeOK
  <2>5. MarkFollowsAck'
    BY <1>1, <2>2, <2>3 DEF OutboxInv, OutboxTypeOK, MarkFollowsAck
  <2> QED BY <1>2, <1>3, <2>4, <2>5 DEF OutboxInv, OutboxTypeOK
<1>4. CASE JobFails(w)
  BY <1>1, <1>2, <1>4, FailKeeps DEF OutboxInv, OutboxTypeOK
<1> QED BY <1>3, <1>4 DEF Update

\* A publication acknowledged by JetStream puts the event in the stream before
\* the job may mark it; a failed one sends the job to the retry branch.
LEMMA PublishKeeps ==
    ASSUME OutboxInv, NEW w \in Workers, Publish(w)
    PROVE  OutboxInv'
<1>1. PICK e \in publisher[w].batch, next \in {"mark", "fail"} :
         /\ publisher' = [publisher EXCEPT ![w] =
               [pc |-> next, batch |-> publisher[w].batch \ {e}, cur |-> {e}]]
         /\ stream' \in {stream, stream \cup {e}}
         /\ next = "mark" => stream' = stream \cup {e}
         /\ (UNCHANGED faults) \/ Fault
  BY DEF Publish
<1> DEFINE p == [pc |-> next, batch |-> publisher[w].batch \ {e}, cur |-> {e}]
<1>2. publisher[w] \in Publishers /\ publisher[w].batch \subseteq Events
  BY DEF OutboxInv, OutboxTypeOK, Publishers
<1>3. e \in Events /\ p \in Publishers
  BY <1>2 DEF Publishers, PublisherPCs
<1>4. p.pc = "mark" => p.cur \subseteq stream'
  BY <1>1
<1>5. outbox' = outbox /\ stream \subseteq stream' /\ stream' \subseteq Events
  BY <1>1, <1>3 DEF Publish, OutboxInv, OutboxTypeOK
<1>6. publisher' = [publisher EXCEPT ![w] = p]
  BY <1>1
<1> HIDE DEF p
<1>7. publisher' \in [Workers -> Publishers]
  BY <1>3, <1>6 DEF OutboxInv, OutboxTypeOK
<1>8. MarkFollowsAck'
  BY <1>4, <1>5, <1>6 DEF OutboxInv, OutboxTypeOK, MarkFollowsAck
<1>9. faults' \in 0..MaxFaults
  BY <1>1, OutboxAssumption DEF Fault, OutboxInv, OutboxTypeOK
<1> QED BY <1>5, <1>7, <1>8, <1>9 DEF OutboxInv, OutboxTypeOK, PublishedIsStored

\* A step that leaves publishers, stream and faults alone keeps the invariant
\* when no row becomes published.
LEMMA RowStepKeeps ==
    ASSUME OutboxInv, UNCHANGED <<publisher, stream, faults>>,
           outbox' \in [Events -> OutboxRows],
           \A e \in Events : outbox'[e].st = "published" => outbox[e].st = "published"
    PROVE  OutboxInv'
BY DEF OutboxInv, OutboxTypeOK, PublishedIsStored, MarkFollowsAck

\* Every step of Next keeps the invariant.
LEMMA OutboxStep == OutboxInv /\ [OutboxNext]_outboxVars => OutboxInv'
<1> SUFFICES ASSUME OutboxInv, [OutboxNext]_outboxVars PROVE OutboxInv'
  OBVIOUS
<1>0. outbox \in [Events -> OutboxRows] /\ \A e \in Events : outbox[e] \in OutboxRows
  BY DEF OutboxInv, OutboxTypeOK
<1>1. ASSUME NEW e \in Events, InsertEvent(e) PROVE OutboxInv'
  <2>1. outbox' = [outbox EXCEPT ![e] = [outbox[e] EXCEPT !.st = "pending"]]
    BY <1>1 DEF InsertEvent
  <2>2. [outbox[e] EXCEPT !.st = "pending"] \in OutboxRows
    BY <1>0, RowUpdate
  <2>3. [outbox[e] EXCEPT !.st = "pending"].st # "published"
    BY <1>0 DEF OutboxRows
  <2> QED BY <1>0, <1>1, <2>1, <2>2, <2>3, RowStepKeeps DEF InsertEvent
<1>2. ASSUME NEW e \in Events, LockGrowsStale(e) PROVE OutboxInv'
  <2>1. outbox' = [outbox EXCEPT ![e] = [outbox[e] EXCEPT !.stale = TRUE]]
    BY <1>2 DEF LockGrowsStale
  <2>2. /\ [outbox[e] EXCEPT !.stale = TRUE] \in OutboxRows
        /\ [outbox[e] EXCEPT !.stale = TRUE].st = outbox[e].st
    BY <1>0, RowUpdate
  <2> QED BY <1>0, <1>2, <2>1, <2>2, RowStepKeeps DEF LockGrowsStale
<1>3. ASSUME NEW e \in Events, FallsDue(e) PROVE OutboxInv'
  <2>1. outbox' = [outbox EXCEPT ![e] = [outbox[e] EXCEPT !.due = TRUE]]
    BY <1>3 DEF FallsDue
  <2>2. /\ [outbox[e] EXCEPT !.due = TRUE] \in OutboxRows
        /\ [outbox[e] EXCEPT !.due = TRUE].st = outbox[e].st
    BY <1>0, RowUpdate
  <2> QED BY <1>0, <1>3, <2>1, <2>2, RowStepKeeps DEF FallsDue
<1>4. ASSUME NEW w \in Workers, ReleaseStaleLocks(w) PROVE OutboxInv'
  <2>1. /\ StaleReleased \in [Events -> OutboxRows]
        /\ \A e \in Events : StaleReleased[e].st = outbox[e].st
    BY <1>0, RowUpdate DEF StaleReleased
  <2>2. CASE outbox' = StaleReleased /\ publisher' = [publisher EXCEPT ![w].pc = "poll"]
                /\ UNCHANGED faults
    <3>1. stream' = stream
      BY <1>4 DEF ReleaseStaleLocks
    <3>2. publisher[w] \in Publishers
      BY DEF OutboxInv, OutboxTypeOK
    <3>3. [publisher[w] EXCEPT !.pc = "poll"] \in Publishers
      BY <3>2 DEF Publishers, PublisherPCs
    <3>4. publisher' \in [Workers -> Publishers]
      BY <2>2, <3>3 DEF OutboxInv, OutboxTypeOK
    <3>5. MarkFollowsAck'
      BY <2>2, <3>1, <3>2 DEF OutboxInv, OutboxTypeOK, MarkFollowsAck, Publishers
    <3> QED BY <2>1, <2>2, <3>1, <3>4, <3>5 DEF OutboxInv, OutboxTypeOK, PublishedIsStored
  <2>3. CASE JobFails(w) /\ UNCHANGED outbox
    <3>1. stream' = stream
      BY <1>4 DEF ReleaseStaleLocks
    <3> QED BY <2>3, <3>1, FailKeeps DEF OutboxInv, OutboxTypeOK, PublishedIsStored
  <2> QED BY <1>4, <2>2, <2>3 DEF ReleaseStaleLocks
<1>5. ASSUME NEW w \in Workers, ClaimPending(w) PROVE OutboxInv'
  <2>1. PICK batch \in SUBSET Claimable :
          /\ outbox' = [e \in Events |-> IF e \in batch
                           THEN [outbox[e] EXCEPT !.locked = TRUE] ELSE outbox[e]]
          /\ \/ publisher' = [publisher EXCEPT ![w] =
                                 [pc |-> "publish", batch |-> batch, cur |-> {}]]
                /\ UNCHANGED faults
             \/ JobFails(w)
    BY <1>5 DEF ClaimPending
  <2>2. stream' = stream
    BY <1>5 DEF ClaimPending
  <2>3. outbox' \in [Events -> OutboxRows] /\ \A e \in Events : outbox'[e].st = outbox[e].st
    BY <1>0, <2>1, RowUpdate
  <2>4. [pc |-> "publish", batch |-> batch, cur |-> {}] \in Publishers
    BY DEF Claimable, Publishers, PublisherPCs
  <2>5. CASE /\ publisher' = [publisher EXCEPT ![w] =
                                 [pc |-> "publish", batch |-> batch, cur |-> {}]]
             /\ UNCHANGED faults
    <3>1. publisher' \in [Workers -> Publishers]
      BY <2>4, <2>5 DEF OutboxInv, OutboxTypeOK
    <3>2. MarkFollowsAck'
      BY <2>2, <2>5 DEF OutboxInv, OutboxTypeOK, MarkFollowsAck
    <3> QED BY <2>2, <2>3, <2>5, <3>1, <3>2 DEF OutboxInv, OutboxTypeOK, PublishedIsStored
  <2>6. CASE JobFails(w)
    BY <2>2, <2>3, <2>6, FailKeeps DEF OutboxInv, OutboxTypeOK, PublishedIsStored
  <2> QED BY <2>1, <2>5, <2>6
<1>6. ASSUME NEW w \in Workers, MarkPublished(w) PROVE OutboxInv'
  <2>1. PICK e \in publisher[w].cur :
          Update(w, IF outbox[e].st = "pending"
                    THEN [outbox EXCEPT ![e] = [UnlockedRow(@) EXCEPT !.st = "published"]]
                    ELSE outbox)
    BY <1>6 DEF MarkPublished
  <2>2. e \in stream /\ e \in Events
    BY <1>6 DEF MarkPublished, OutboxInv, OutboxTypeOK, MarkFollowsAck
  <2> DEFINE r == [UnlockedRow(outbox[e]) EXCEPT !.st = "published"]
             rows == [outbox EXCEPT ![e] = r]
  <2>3. r \in OutboxRows
    BY <1>0, <2>2, RowUpdate
  <2> HIDE DEF r
  <2>4. rows \in [Events -> OutboxRows]
    BY <1>0, <2>3
  <2>5. \A f \in Events : rows[f].st = "published" => f \in stream
    BY <1>0, <2>2, <2>4 DEF OutboxInv, PublishedIsStored
  <2>6. \A f \in Events : outbox[f].st = "published" => f \in stream
    BY DEF OutboxInv, PublishedIsStored
  <2>7. Update(w, rows) \/ Update(w, outbox)
    BY <2>1 DEF r
  <2> HIDE DEF rows
  <2> QED BY <1>0, <2>4, <2>5, <2>6, <2>7, UpdateKeeps
<1>7. ASSUME NEW w \in Workers, MarkFailed(w) PROVE OutboxInv'
  <2>1. PICK e \in publisher[w].cur :
          Update(w, IF outbox[e].st = "pending"
                    THEN [outbox EXCEPT ![e] = [UnlockedRow(@) EXCEPT !.due = FALSE]]
                    ELSE outbox)
    BY <1>7 DEF MarkFailed
  <2>2. e \in Events
    BY DEF OutboxInv, OutboxTypeOK, Publishers
  <2> DEFINE r == [UnlockedRow(outbox[e]) EXCEPT !.due = FALSE]
             rows == [outbox EXCEPT ![e] = r]
  <2>3. r \in OutboxRows /\ r.st = outbox[e].st
    BY <1>0, <2>2, RowUpdate
  <2> HIDE DEF r
  <2>4. rows \in [Events -> OutboxRows]
    BY <1>0, <2>3
  <2>5. \A f \in Events : rows[f].st = "published" => f \in stream
    BY <1>0, <2>2, <2>3 DEF OutboxInv, PublishedIsStored
  <2>6. \A f \in Events : outbox[f].st = "published" => f \in stream
    BY DEF OutboxInv, PublishedIsStored
  <2>7. Update(w, rows) \/ Update(w, outbox)
    BY <2>1 DEF r
  <2> HIDE DEF rows
  <2> QED BY <1>0, <2>4, <2>5, <2>6, <2>7, UpdateKeeps
<1>8. ASSUME NEW w \in Workers, Crash(w) PROVE OutboxInv'
  BY <1>8, FailKeeps DEF Crash, OutboxInv, OutboxTypeOK, PublishedIsStored
<1>9. ASSUME NEW w \in Workers, Restart(w) PROVE OutboxInv'
  <2>1. publisher[w] \in Publishers
    BY DEF OutboxInv, OutboxTypeOK
  <2>2. [publisher[w] EXCEPT !.pc = "start"] \in Publishers
    BY <2>1 DEF Publishers, PublisherPCs
  <2>3. publisher' \in [Workers -> Publishers]
    BY <1>9, <2>2 DEF Restart, OutboxInv, OutboxTypeOK
  <2>4. MarkFollowsAck'
    BY <1>9, <2>1 DEF Restart, OutboxInv, OutboxTypeOK, MarkFollowsAck, Publishers
  <2> QED BY <1>9, <2>3, <2>4 DEF Restart, OutboxInv, OutboxTypeOK, PublishedIsStored
<1>10. CASE OtherJobs
  <2>1. faults' \in 0..MaxFaults
    BY <1>10, OutboxAssumption DEF OtherJobs, Fault, OutboxInv, OutboxTypeOK
  <2>2. publisher' \in [Workers -> Publishers]
    BY <1>10, DownType DEF OtherJobs, OutboxInv, OutboxTypeOK
  <2>3. MarkFollowsAck'
    BY <1>10 DEF OtherJobs, Down, OutboxInv, OutboxTypeOK, MarkFollowsAck
  <2> QED BY <1>10, <2>1, <2>2, <2>3 DEF OtherJobs, OutboxInv, OutboxTypeOK, PublishedIsStored
<1>11. CASE UNCHANGED outboxVars
  BY <1>11 DEF outboxVars, OutboxInv, OutboxTypeOK, PublishedIsStored, MarkFollowsAck
<1> QED BY <1>1, <1>2, <1>3, <1>4, <1>5, <1>6, <1>7, <1>8, <1>9, <1>10, <1>11, PublishKeeps
        DEF OutboxNext, PublishBatch

\* The tables start empty.
LEMMA OutboxStart == OutboxInit => OutboxInv
<1> SUFFICES ASSUME OutboxInit PROVE OutboxInv
  OBVIOUS
<1>1. NoEventRow \in OutboxRows /\ NoEventRow.st = "none"
  BY DEF NoEventRow, OutboxRows
<1>2. OutboxTypeOK
  BY <1>1, DownType, OutboxAssumption DEF OutboxInit, OutboxTypeOK
<1>3. PublishedIsStored
  BY <1>1 DEF OutboxInit, PublishedIsStored
<1>4. MarkFollowsAck
  BY DEF OutboxInit, MarkFollowsAck, Down
<1> QED BY <1>2, <1>3, <1>4 DEF OutboxInv

\* No interleaving of publishers, stale locks, lost acknowledgements and crashes
\* marks an event published that JetStream does not hold.
THEOREM PublishedEventsAreStored == OutboxSpec => []PublishedIsStored
<1>1. OutboxInv => PublishedIsStored
  BY DEF OutboxInv
<1> QED BY <1>1, OutboxStart, OutboxStep, PTL DEF OutboxSpec

\* The table, the jobs and the stream keep their types.
THEOREM OutboxTypeCorrect == OutboxSpec => []OutboxTypeOK
<1>1. OutboxInv => OutboxTypeOK
  BY DEF OutboxInv
<1> QED BY <1>1, OutboxStart, OutboxStep, PTL DEF OutboxSpec

-----------------------------------------------------------------------------
\* A webhook step charges a fault or none.
LEMMA HookFaults ==
    /\ \A w \in Workers : Hooks!DeliverBatch(w) => (UNCHANGED faults) \/ Fault
    /\ \A e \in Events : Hooks!IngestBegin(e) \/ Hooks!Ingest(e) => (UNCHANGED faults) \/ Fault
<1>1. ASSUME NEW w \in Workers, Hooks!DeliverBatch(w) PROVE (UNCHANGED faults) \/ Fault
  <2>1. CASE Hooks!ClaimDeliveries(w)
    BY <2>1 DEF Hooks!ClaimDeliveries, Hooks!Fault, Fault
  <2>2. CASE Hooks!Send(w)
    BY <2>2 DEF Hooks!Send
  <2>3. CASE Hooks!MarkSucceeded(w)
    BY <2>3 DEF Hooks!MarkSucceeded, Hooks!Record, Hooks!Fault, Fault
  <2>4. CASE Hooks!ScheduleRetry(w)
    BY <2>4 DEF Hooks!ScheduleRetry, Hooks!Record, Hooks!Fault, Fault
  <2>5. CASE Hooks!MarkFailed(w)
    BY <2>5 DEF Hooks!MarkFailed, Hooks!Record, Hooks!Fault, Fault
  <2> QED BY <1>1, <2>1, <2>2, <2>3, <2>4, <2>5 DEF Hooks!DeliverBatch, Hooks!RecordResult
<1>2. ASSUME NEW e \in Events, Hooks!IngestBegin(e) \/ Hooks!Ingest(e)
      PROVE  (UNCHANGED faults) \/ Fault
  BY <1>2 DEF Hooks!IngestBegin, Hooks!Ingest, Hooks!IngestCommit, Hooks!IngestFails,
              Hooks!Fault, Fault
<1> QED BY <1>1, <1>2

\* Every step of the pipeline is a step of the outbox, or leaves it alone.
LEMMA PipelineStep == [PipelineNext]_pipelineVars => [OutboxNext]_outboxVars
<1> SUFFICES ASSUME [PipelineNext]_pipelineVars PROVE [OutboxNext]_outboxVars
  OBVIOUS
<1>1. ASSUME NEW e \in Events, InsertEvent(e) \/ Clock(e) PROVE OutboxNext
  BY <1>1 DEF Clock, OutboxNext
<1>2. ASSUME NEW e \in Events, Consume(e) PROVE OutboxNext
  BY <1>2, HookFaults DEF Consume, OutboxNext, OtherJobs
<1>3. ASSUME NEW w \in Workers, PublisherStep(w) PROVE OutboxNext
  BY <1>3 DEF PublisherStep, OutboxNext
<1>4. ASSUME NEW w \in Workers, DeliveryStep(w) PROVE OutboxNext
  BY <1>4, HookFaults DEF DeliveryStep, OutboxNext, OtherJobs
<1>5. ASSUME NEW w \in Workers, RestartProcess(w) PROVE OutboxNext
  BY <1>5 DEF RestartProcess, OutboxNext
<1>6. ASSUME NEW e \in Events, NEW p \in Endpoints, HookClock(<<e, p>>)
      PROVE  UNCHANGED outboxVars
  BY <1>6 DEF HookClock, Hooks!LockGrowsStale, Hooks!FallsDue, outboxVars
<1>7. CASE UNCHANGED pipelineVars
  BY <1>7 DEF pipelineVars, outboxVars
<1> QED BY <1>1, <1>2, <1>3, <1>4, <1>5, <1>6, <1>7 DEF PipelineNext

\* Publisher, consumer and delivery job in one process implement the outbox.
THEOREM PipelineImplementsOutbox == PipelineSpec => OutboxSpec
<1>1. PipelineInit => OutboxInit
  BY DEF PipelineInit
<1> QED BY <1>1, PipelineStep, PTL DEF PipelineSpec, OutboxSpec

\* Hence a process that its webhook job ends in the middle of a batch marks no
\* event published that JetStream does not hold.
THEOREM PipelinePublishedIsStored == PipelineSpec => []PublishedIsStored
BY PipelineImplementsOutbox, PublishedEventsAreStored, PTL

-----------------------------------------------------------------------------
\* The delivery table and the delivery jobs of the workers.
HookRows == [st : {"none", "pending", "retrying", "succeeded", "failed", "canceled"},
             attempts : Nat, locked : BOOLEAN, stale : BOOLEAN, due : BOOLEAN]
HookClaims == [d : Hooks!Deliveries, attempts : Nat]
HookJobs == [pc : {"down", "poll", "send", "ok", "retry", "reject"},
             batch : SUBSET HookClaims, cur : SUBSET HookClaims]

HookTypes == delivery \in [Hooks!Deliveries -> HookRows] /\ job \in [Workers -> HookJobs]

\* A lock is only on a row that is still open: a result settles it and unlocks it.
LockedIsOpen == \A d \in Hooks!Deliveries : delivery[d].locked => delivery[d].st \in {"pending", "retrying"}
\* A job that is about to record a success has had it from the endpoint.
OkIsAccepted == \A w \in Workers : job[w].pc = "ok" => \A c \in job[w].cur : c.d \in accepted
SucceededIsAccepted == \A d \in Hooks!Deliveries : delivery[d].st = "succeeded" => d \in accepted

HookInv == HookTypes /\ LockedIsOpen /\ OkIsAccepted /\ SucceededIsAccepted

\* What SettledStays says of a step.
SettledStep ==
    \A d \in Hooks!Deliveries :
       /\ delivery'[d].st = "succeeded" => d \in accepted'
       /\ delivery[d].st \in {"succeeded", "canceled"} => delivery'[d].st = delivery[d].st
       /\ delivery[d].st = "failed" =>
             \/ delivery'[d].st = "failed"
             \/ delivery'[d].st = "pending" /\ retries' = retries + 1

\* The ways in which a step may change a row, and the jobs.
RowFits(d) ==
    \/ delivery'[d] = delivery[d]
    \/ /\ delivery'[d].st = delivery[d].st
       /\ delivery'[d].locked => delivery[d].st \in {"pending", "retrying"}
    \/ delivery[d].st = "none" /\ delivery'[d].st = "pending"
    \/ /\ delivery[d].st \in {"pending", "retrying"} /\ ~delivery'[d].locked
       /\ delivery'[d].st = "succeeded" => d \in accepted
    \/ delivery[d].st = "failed" /\ delivery'[d].st = "pending" /\ retries' = retries + 1
JobFits(w) ==
    job'[w] = job[w] \/ (job'[w].pc = "ok" => \A c \in job'[w].cur : c.d \in accepted')

RowsFit == delivery' \in [Hooks!Deliveries -> HookRows] /\ \A d \in Hooks!Deliveries : RowFits(d)
JobsFit == job' \in [Workers -> HookJobs] /\ \A w \in Workers : JobFits(w)

LEMMA FitKeeps ==
    ASSUME HookInv, RowsFit, JobsFit, accepted \subseteq accepted'
    PROVE  HookInv' /\ SettledStep
<1>1. HookTypes'
  BY DEF HookInv, HookTypes, RowsFit, JobsFit
<1>2. LockedIsOpen'
  BY DEF HookInv, LockedIsOpen, RowsFit, RowFits
<1>3. OkIsAccepted'
  BY DEF HookInv, OkIsAccepted, JobsFit, JobFits
<1>4. SucceededIsAccepted'
  BY DEF HookInv, SucceededIsAccepted, RowsFit, RowFits
<1>5. SettledStep
  BY <1>4 DEF HookInv, SucceededIsAccepted, SettledStep, RowsFit, RowFits
<1> QED BY <1>1, <1>2, <1>3, <1>4, <1>5 DEF HookInv

LEMMA RowsStay == ASSUME HookInv, delivery' = delivery PROVE RowsFit
BY DEF HookInv, HookTypes, RowsFit, RowFits

LEMMA JobsStay == ASSUME HookInv, job' = job PROVE JobsFit
BY DEF HookInv, HookTypes, JobsFit, JobFits

\* One row becomes r.
LEMMA RowNow ==
    ASSUME HookInv, NEW d \in Hooks!Deliveries, NEW r \in HookRows,
           delivery' = [delivery EXCEPT ![d] = r],
           \/ r.st = delivery[d].st /\ (r.locked => r.st \in {"pending", "retrying"})
           \/ /\ delivery[d].st \in {"pending", "retrying"} /\ ~r.locked
              /\ r.st = "succeeded" => d \in accepted
           \/ delivery[d].st = "failed" /\ r.st = "pending" /\ retries' = retries + 1
    PROVE  RowsFit
<1>1. delivery' \in [Hooks!Deliveries -> HookRows] /\ delivery'[d] = r
      /\ \A e \in Hooks!Deliveries : e # d => delivery'[e] = delivery[e]
  BY DEF HookInv, HookTypes
<1> QED BY <1>1 DEF RowsFit, RowFits

LEMMA JobNow ==
    ASSUME HookInv, NEW w \in Workers, NEW j \in HookJobs, job' = [job EXCEPT ![w] = j],
           j.pc = "ok" => \A c \in j.cur : c.d \in accepted'
    PROVE  JobsFit
<1>1. job' \in [Workers -> HookJobs] /\ job'[w] = j
      /\ \A v \in Workers : v # w => job'[v] = job[v]
  BY DEF HookInv, HookTypes
<1> QED BY <1>1 DEF JobsFit, JobFits

LEMMA NoJobType == /\ Hooks!NoJob \in HookJobs /\ Hooks!NoJob.pc = "down"
                   /\ [Hooks!NoJob EXCEPT !.pc = "poll"] \in HookJobs
                   /\ [Hooks!NoJob EXCEPT !.pc = "poll"].pc = "poll"
BY DEF Hooks!NoJob, HookJobs

LEMMA JobEndsFits == ASSUME HookInv, NEW w \in Workers, Hooks!JobEnds(w) PROVE JobsFit
BY NoJobType, JobNow DEF Hooks!JobEnds

LEMMA NextInBatchFits == ASSUME HookInv, NEW w \in Workers, Hooks!NextInBatch(w) PROVE JobsFit
<1> DEFINE j == [job[w] EXCEPT !.cur = {}, !.pc = IF job[w].batch = {} THEN "poll" ELSE "send"]
<1>1. job[w] \in HookJobs
  BY DEF HookInv, HookTypes
<1>2. j \in HookJobs /\ j.pc # "ok"
  BY <1>1 DEF HookJobs
<1>3. job' = [job EXCEPT ![w] = j]
  BY DEF Hooks!NextInBatch
<1> HIDE DEF j
<1> QED BY <1>2, <1>3, JobNow

LEMMA IngestFits ==
    ASSUME HookInv, NEW e \in Events, Hooks!IngestBegin(e) \/ Hooks!Ingest(e)
    PROVE  HookInv' /\ SettledStep
<1>1. JobsFit /\ accepted' = accepted
  BY JobsStay DEF Hooks!IngestBegin, Hooks!Ingest, Hooks!IngestCommit, Hooks!IngestFails
<1>2. CASE delivery' = delivery
  BY <1>1, <1>2, RowsStay, FitKeeps
<1>3. CASE Hooks!IngestCommit(e)
  <2>1. \A d \in Hooks!Deliveries :
           /\ delivery[d] \in HookRows /\ [delivery[d] EXCEPT !.st = "pending"] \in HookRows
           /\ [delivery[d] EXCEPT !.st = "pending"].st = "pending"
    BY DEF HookInv, HookTypes, HookRows
  <2>2. delivery' \in [Hooks!Deliveries -> HookRows] /\ \A d \in Hooks!Deliveries :
           delivery'[d] = delivery[d] \/ (delivery[d].st = "none" /\ delivery'[d].st = "pending")
    BY <1>3, <2>1 DEF Hooks!IngestCommit
  <2>3. RowsFit
    BY <2>2 DEF RowsFit, RowFits
  <2> QED BY <1>1, <2>3, FitKeeps
<1> QED BY <1>2, <1>3 DEF Hooks!IngestBegin, Hooks!Ingest, Hooks!IngestFails

LEMMA ClockFits ==
    ASSUME HookInv, NEW d \in Hooks!Deliveries, Hooks!LockGrowsStale(d) \/ Hooks!FallsDue(d)
    PROVE  HookInv' /\ SettledStep
<1>1. JobsFit /\ accepted' = accepted
  BY JobsStay DEF Hooks!LockGrowsStale, Hooks!FallsDue
<1>2. PICK r \in HookRows : /\ delivery' = [delivery EXCEPT ![d] = r]
                            /\ r.st = delivery[d].st /\ r.locked = delivery[d].locked
  <2>1. delivery[d] \in HookRows
    BY DEF HookInv, HookTypes
  <2>2. /\ [delivery[d] EXCEPT !.stale = TRUE] \in HookRows
        /\ [delivery[d] EXCEPT !.stale = TRUE].st = delivery[d].st
        /\ [delivery[d] EXCEPT !.stale = TRUE].locked = delivery[d].locked
        /\ [delivery[d] EXCEPT !.due = TRUE] \in HookRows
        /\ [delivery[d] EXCEPT !.due = TRUE].st = delivery[d].st
        /\ [delivery[d] EXCEPT !.due = TRUE].locked = delivery[d].locked
    BY <2>1 DEF HookRows
  <2>3. \/ delivery' = [delivery EXCEPT ![d] = [delivery[d] EXCEPT !.stale = TRUE]]
        \/ delivery' = [delivery EXCEPT ![d] = [delivery[d] EXCEPT !.due = TRUE]]
    BY DEF Hooks!LockGrowsStale, Hooks!FallsDue
  <2> QED BY <2>2, <2>3
<1>3. RowsFit
  BY <1>2, RowNow DEF HookInv, LockedIsOpen
<1> QED BY <1>1, <1>3, FitKeeps

\* The endpoint operations of the API.
LEMMA EndpointFits ==
    ASSUME HookInv, NEW p \in Endpoints,
           Hooks!SetEnabled(p) \/ Hooks!DeleteDisable(p) \/ Hooks!DeleteCancel(p)
    PROVE  HookInv' /\ SettledStep
<1>1. JobsFit /\ accepted' = accepted
  BY JobsStay DEF Hooks!SetEnabled, Hooks!DeleteDisable, Hooks!DeleteCancel
<1>2. CASE delivery' = delivery
  BY <1>1, <1>2, RowsStay, FitKeeps
<1>3. CASE delivery' = [d \in Hooks!Deliveries |->
                          IF d[2] = p /\ delivery[d].st \in Hooks!Open
                          THEN Hooks!Canceled(delivery[d]) ELSE delivery[d]]
  <2>1. \A d \in Hooks!Deliveries :
           /\ delivery[d] \in HookRows /\ Hooks!Canceled(delivery[d]) \in HookRows
           /\ Hooks!Canceled(delivery[d]).st = "canceled" /\ ~Hooks!Canceled(delivery[d]).locked
    BY DEF HookInv, HookTypes, HookRows, Hooks!Canceled
  <2>2. RowsFit
    BY <1>3, <2>1 DEF RowsFit, RowFits, Hooks!Open
  <2> QED BY <1>1, <2>2, FitKeeps
<1> QED BY <1>2, <1>3 DEF Hooks!SetEnabled, Hooks!DeleteDisable, Hooks!DeleteCancel

LEMMA RetryFits ==
    ASSUME HookInv, NEW d \in Hooks!Deliveries, Hooks!Retry(d)
    PROVE  HookInv' /\ SettledStep
<1> DEFINE r == [delivery[d] EXCEPT !.st = "pending", !.due = TRUE, !.locked = FALSE, !.stale = FALSE]
<1>1. JobsFit /\ accepted' = accepted /\ delivery[d].st = "failed" /\ retries' = retries + 1
  BY JobsStay DEF Hooks!Retry
<1>2. delivery[d] \in HookRows
  BY DEF HookInv, HookTypes
<1>3. r \in HookRows /\ r.st = "pending"
  BY <1>2 DEF HookRows
<1>4. delivery' = [delivery EXCEPT ![d] = r]
  BY DEF Hooks!Retry
<1> HIDE DEF r
<1>5. RowsFit
  BY <1>1, <1>3, <1>4, RowNow
<1> QED BY <1>1, <1>5, FitKeeps

LEMMA ClaimFits ==
    ASSUME HookInv, NEW w \in Workers, Hooks!ClaimDeliveries(w)
    PROVE  HookInv' /\ SettledStep
<1>1. PICK batch \in SUBSET Hooks!Claimable :
         /\ delivery' = [d \in Hooks!Deliveries |-> IF d \in batch
               THEN [delivery[d] EXCEPT !.locked = TRUE, !.stale = FALSE, !.attempts = @ + 1]
               ELSE delivery[d]]
         /\ \/ job' = [job EXCEPT ![w] =
                  [pc |-> "send", cur |-> {},
                   batch |-> {[d |-> d, attempts |-> delivery[d].attempts + 1] : d \in batch}]]
            \/ Hooks!JobEnds(w)
  BY DEF Hooks!ClaimDeliveries
<1>2. accepted' = accepted
  BY DEF Hooks!ClaimDeliveries
<1>3. \A d \in Hooks!Deliveries :
         LET r == [delivery[d] EXCEPT !.locked = TRUE, !.stale = FALSE, !.attempts = @ + 1]
         IN  delivery[d] \in HookRows /\ r \in HookRows /\ r.st = delivery[d].st
  <2> SUFFICES ASSUME NEW d \in Hooks!Deliveries
               PROVE  LET r == [delivery[d] EXCEPT !.locked = TRUE, !.stale = FALSE, !.attempts = @ + 1]
                      IN  delivery[d] \in HookRows /\ r \in HookRows /\ r.st = delivery[d].st
    OBVIOUS
  <2>1. delivery[d] \in HookRows /\ delivery[d].attempts + 1 \in Nat
    BY DEF HookInv, HookTypes, HookRows
  <2> QED BY <2>1 DEF HookRows
<1>4. \A d \in batch : d \in Hooks!Deliveries /\ delivery[d].st \in {"pending", "retrying"}
                       /\ delivery[d].attempts + 1 \in Nat
  BY <1>3 DEF Hooks!Claimable, Hooks!Open, HookRows
<1>5. RowsFit
  BY <1>1, <1>3, <1>4 DEF RowsFit, RowFits
<1>6. JobsFit
  <2> DEFINE b == {[d |-> d, attempts |-> delivery[d].attempts + 1] : d \in batch}
             j == [pc |-> "send", cur |-> {}, batch |-> b]
  <2>1. CASE job' = [job EXCEPT ![w] = j]
    <3>1. b \subseteq HookClaims
      BY <1>4 DEF HookClaims
    <3> HIDE DEF b
    <3>2. j \in HookJobs /\ j.pc # "ok"
      BY <3>1 DEF HookJobs
    <3> HIDE DEF j
    <3> QED BY <2>1, <3>2, JobNow
  <2> QED BY <1>1, <2>1, JobEndsFits
<1> QED BY <1>2, <1>5, <1>6, FitKeeps

LEMMA SendFits ==
    ASSUME HookInv, NEW w \in Workers, Hooks!Send(w)
    PROVE  HookInv' /\ SettledStep
<1>1. PICK c \in job[w].batch, next \in {"ok", "retry", "reject"} :
         /\ job' = [job EXCEPT ![w] = [pc |-> next, batch |-> job[w].batch \ {c}, cur |-> {c}]]
         /\ accepted \subseteq accepted'
         /\ next = "ok" => c.d \in accepted'
  BY DEF Hooks!Send
<1> DEFINE j == [pc |-> next, batch |-> job[w].batch \ {c}, cur |-> {c}]
<1>2. job[w] \in HookJobs
  BY DEF HookInv, HookTypes
<1>3. j \in HookJobs /\ (j.pc = "ok" => \A x \in j.cur : x.d \in accepted')
  BY <1>1, <1>2 DEF HookJobs
<1>4. job' = [job EXCEPT ![w] = j]
  BY <1>1
<1> HIDE DEF j
<1>5. JobsFit
  BY <1>3, <1>4, JobNow
<1>6. RowsFit
  BY RowsStay DEF Hooks!Send
<1> QED BY <1>1, <1>5, <1>6, FitKeeps

\* A result statement: only a locked row changes, and a locked row is open.
LEMMA RecordFits ==
    ASSUME HookInv, NEW w \in Workers, NEW d \in Hooks!Deliveries,
           NEW st \in {"succeeded", "retrying", "failed"}, NEW ends,
           st = "succeeded" => d \in accepted,
           Hooks!Record(w, d, st, ends), accepted' = accepted
    PROVE  HookInv' /\ SettledStep
<1> DEFINE r == [Hooks!Settled(delivery[d], st) EXCEPT !.due = st # "retrying"]
<1>1. JobsFit
  BY JobEndsFits, NextInBatchFits DEF Hooks!Record
<1>2. \/ delivery' = delivery
      \/ delivery[d].locked /\ delivery' = [delivery EXCEPT ![d] = r]
  BY DEF Hooks!Record
<1>3. delivery[d] \in HookRows
  BY DEF HookInv, HookTypes
<1>4. r \in HookRows /\ r.st = st /\ r.locked = FALSE
  BY <1>3 DEF HookRows, Hooks!Settled
<1> HIDE DEF r
<1>5. RowsFit
  BY <1>2, <1>4, RowsStay, RowNow DEF HookInv, LockedIsOpen
<1> QED BY <1>1, <1>5, FitKeeps

LEMMA ResultFits ==
    ASSUME HookInv, NEW w \in Workers, Hooks!RecordResult(w)
    PROVE  HookInv' /\ SettledStep
<1>1. accepted' = accepted /\ job[w] \in HookJobs
  BY DEF Hooks!RecordResult, Hooks!MarkSucceeded, Hooks!ScheduleRetry, Hooks!MarkFailed,
         HookInv, HookTypes
<1>2. PICK c \in job[w].cur, st \in {"succeeded", "retrying", "failed"} :
         /\ \E ends : Hooks!Record(w, c.d, st, ends)
         /\ st = "succeeded" => job[w].pc = "ok"
  BY DEF Hooks!RecordResult, Hooks!MarkSucceeded, Hooks!ScheduleRetry, Hooks!MarkFailed
<1>3. c.d \in Hooks!Deliveries /\ (st = "succeeded" => c.d \in accepted)
  BY <1>1, <1>2 DEF HookInv, OkIsAccepted, HookJobs, HookClaims
<1> QED BY <1>1, <1>2, <1>3, RecordFits

LEMMA DeliverBatchFits ==
    ASSUME HookInv, NEW w \in Workers, Hooks!DeliverBatch(w)
    PROVE  HookInv' /\ SettledStep
BY ClaimFits, SendFits, ResultFits DEF Hooks!DeliverBatch

LEMMA RestartFits ==
    ASSUME HookInv, NEW w \in Workers, Hooks!Crash(w) \/ Hooks!Restart(w)
    PROVE  HookInv' /\ SettledStep
<1>1. RowsFit /\ accepted' = accepted
  BY RowsStay DEF Hooks!Crash, Hooks!Restart
<1>2. CASE Hooks!Crash(w)
  BY <1>1, <1>2, JobEndsFits, FitKeeps DEF Hooks!Crash
<1>3. CASE Hooks!Restart(w)
  <2> DEFINE j == [job[w] EXCEPT !.pc = "poll"]
  <2>1. job[w] \in HookJobs
    BY DEF HookInv, HookTypes
  <2>2. j \in HookJobs /\ j.pc = "poll" /\ job' = [job EXCEPT ![w] = j]
    BY <1>3, <2>1 DEF HookJobs, Hooks!Restart
  <2> HIDE DEF j
  <2>3. JobsFit
    BY <2>2, JobNow
  <2> QED BY <1>1, <2>3, FitKeeps
<1> QED BY <1>2, <1>3

LEMMA HookStart == Hooks!WebhookInit => HookInv
<1> SUFFICES ASSUME Hooks!WebhookInit PROVE HookInv
  OBVIOUS
<1>1. Hooks!NoDelivery \in HookRows /\ Hooks!NoDelivery.st = "none" /\ ~Hooks!NoDelivery.locked
  BY DEF Hooks!NoDelivery, HookRows
<1>2. delivery \in [Hooks!Deliveries -> HookRows] /\ \A d \in Hooks!Deliveries : delivery[d] = Hooks!NoDelivery
  BY <1>1 DEF Hooks!WebhookInit
<1>3. job \in [Workers -> HookJobs] /\ \A w \in Workers : job[w].pc = "poll"
  BY NoJobType DEF Hooks!WebhookInit
<1> QED BY <1>1, <1>2, <1>3 DEF HookInv, HookTypes, LockedIsOpen, OkIsAccepted, SucceededIsAccepted

LEMMA HookStutters == HookInv /\ UNCHANGED <<delivery, job, accepted>> => HookInv' /\ SettledStep
BY RowsStay, JobsStay, FitKeeps

\* Every step of the webhook component keeps the invariant, those of the API included.
LEMMA WebhookStep ==
    HookInv /\ [Hooks!WebhookNext /\ UNCHANGED stream]_<<Hooks!webhookVars, stream>> => HookInv' /\ SettledStep
<1>1. HookInv /\ Hooks!WebhookNext => HookInv' /\ SettledStep
  BY IngestFits, EndpointFits, RetryFits, ClockFits, DeliverBatchFits, RestartFits DEF Hooks!WebhookNext
<1> QED BY <1>1, HookStutters DEF Hooks!webhookVars

\* Every step of the pipeline does.
LEMMA PipelineHookStep == HookInv /\ [PipelineNext]_pipelineVars => HookInv' /\ SettledStep
<1> SUFFICES ASSUME HookInv, [PipelineNext]_pipelineVars PROVE HookInv' /\ SettledStep
  OBVIOUS
<1>1. ASSUME NEW e \in Events, (InsertEvent(e) /\ UNCHANGED hookVars) \/ Clock(e)
      PROVE  HookInv' /\ SettledStep
  BY <1>1, HookStutters DEF Clock, hookVars
<1>2. ASSUME NEW e \in Events, Consume(e) PROVE HookInv' /\ SettledStep
  BY <1>2, IngestFits DEF Consume
<1>3. ASSUME NEW w \in Workers, PublisherStep(w) PROVE HookInv' /\ SettledStep
  <2>1. RowsFit /\ accepted' = accepted
    BY <1>3, RowsStay DEF PublisherStep
  <2>2. JobsFit
    BY <1>3, JobsStay, NoJobType, JobNow DEF PublisherStep
  <2> QED BY <2>1, <2>2, FitKeeps
<1>4. ASSUME NEW w \in Workers, DeliveryStep(w) PROVE HookInv' /\ SettledStep
  BY <1>4, DeliverBatchFits DEF DeliveryStep
<1>5. ASSUME NEW w \in Workers, RestartProcess(w) PROVE HookInv' /\ SettledStep
  BY <1>5, RestartFits DEF RestartProcess
<1>6. ASSUME NEW e \in Events, NEW p \in Endpoints, HookClock(<<e, p>>)
      PROVE  HookInv' /\ SettledStep
  <2>1. <<e, p>> \in Hooks!Deliveries
    BY DEF Hooks!Deliveries
  <2> QED BY <1>6, <2>1, ClockFits DEF HookClock
<1>7. CASE UNCHANGED pipelineVars
  BY <1>7, HookStutters DEF pipelineVars, hookVars
<1> QED BY <1>1, <1>2, <1>3, <1>4, <1>5, <1>6, <1>7 DEF PipelineNext

\* A settled delivery stays settled, under the endpoint operations of the API and manual
\* retries, with any number of workers that share one lock name: a success is the
\* endpoint's own, and no late result statement or redelivered event reopens a row.
THEOREM WebhooksStaySettled == Hooks!WebhookSpec => Hooks!SettledStays
BY HookStart, WebhookStep, PTL DEF Hooks!WebhookSpec, Hooks!SettledStays, SettledStep

\* The same in the pipeline, where a publisher or a consumer of the same process may end
\* the delivery job between a post and its result.
THEOREM PipelineStaysSettled == PipelineSpec => SettledStays
<1>1. PipelineInit => HookInv
  BY HookStart DEF PipelineInit
<1> QED BY <1>1, PipelineHookStep, PTL DEF PipelineSpec, SettledStays, Hooks!SettledStays, SettledStep

-----------------------------------------------------------------------------
\* The ESL client.

\* Where a user holds commandMu, and where a connector is past its restoration's read.
Holding == {"write", "wait", "retire", "shut", "supervise"}
Sending == Holding \cup {"lock", "ok", "err", "restored"}
Disconnecting == {"retire", "shut", "supervise"}
Labels == Sending \cup {"idle", "dial", "install", "restore", "failed", "done", "backoff", "return",
                        "read", "reply", "over"}
Links == [st : {"none", "up", "lost", "closed"}, frames : Seq(Users), events : BOOLEAN]

EslTypes ==
    /\ conn \in Conns \cup {NoConn} /\ ready \in BOOLEAN /\ reconnecting \in BOOLEAN /\ subscribed \in BOOLEAN
    /\ commandMu \in Users \cup {Nobody} /\ subscriptionsMu \in Users \cup {Nobody}
    /\ link \in [Conns -> Links]
    /\ done \subseteq Conns
    /\ pc \in [Goroutines -> Labels]
    /\ \A k \in Conns : pc[k] \in {"idle", "read", "reply", "over"} \cup Disconnecting
    /\ at \in [Users -> Conns \cup {NoConn}] /\ dialed \in [Connectors -> Conns \cup {NoConn}]
    /\ got \in [Goroutines -> Users \cup {Nobody}]
    /\ closer \in [pc : {"idle", "cancel", "wait", "returned"}, k : Conns \cup {NoConn}]

\* A connection is used by nobody before it is installed, and never installed twice.
Installed(k) == k \in Conns /\ pc[k] # "idle"
ConnsPlaced ==
    /\ \A k \in Conns : pc[k] = "idle" => link[k].frames = <<>> /\ k \notin done
    /\ \A k \in Conns : Installed(k) => link[k].st # "none"
    /\ conn # NoConn => Installed(conn)
    /\ closer.k # NoConn => Installed(closer.k)
    /\ \A p \in Users : at[p] # NoConn => Installed(at[p])
    /\ \A x \in Connectors : pc[x] \in Sending \cup {"restore"} => Installed(dialed[x])
    /\ \A x \in Connectors : pc[x] = "install" =>
          dialed[x] \in Conns /\ pc[dialed[x]] = "idle" /\ link[dialed[x]].st = "up"
    /\ pc["main"] = "install" /\ pc["loop"] = "install" => dialed["main"] # dialed["loop"]

\* The critical sections, and the flag that keeps a second reconnect loop away.
LocksHeld ==
    /\ \A p \in Users : pc[p] \in Holding => commandMu = p /\ at[p] # NoConn
    /\ pc["sub"] \in Holding \cup {"lock", "ok"} => subscriptionsMu = "sub"
    /\ ~reconnecting => pc["loop"] = "idle"

\* A retired connection stays retired.
Retired ==
    /\ conn \notin done
    /\ \A g \in Goroutines : pc[g] = "shut" => conn # Target(g)

\* No reply is under way on connection k.
Quiet(k) == link[k].frames = <<>> /\ pc[k] # "reply"
\* What is under way on it is the reply to p.
OwedTo(k, p) == /\ link[k].frames \in {<<>>, <<p>>}
                /\ pc[k] = "reply" => got[k] = p /\ link[k].frames = <<>>

\* A reply is only under way on the connection in use while its command waits
\* for it, or is about to retire that connection.
ConnPaired == conn # NoConn => \/ Quiet(conn)
                               \/ /\ commandMu \in Users /\ at[commandMu] = conn
                                  /\ pc[commandMu] \in {"wait", "retire"}
UsersPaired == \A p \in Users : /\ pc[p] = "write" => Quiet(at[p])
                                /\ pc[p] = "wait" => OwedTo(at[p], p)
RepliesPaired == ConnPaired /\ UsersPaired

\* A subscription that was answered went out on the connection it was sent on,
\* and the one in use now is that one, or is not ready and still to be restored.
EventsFlow ==
    /\ ready => conn # NoConn
    /\ \A p \in Users \ Callers :
          /\ pc[p] = "wait" => Quiet(at[p]) \/ link[at[p]].events
          /\ pc[p] = "ok" => at[p] # NoConn /\ link[at[p]].events
    /\ pc["sub"] \in Holding \cup {"ok"} /\ conn # NoConn /\ conn # at["sub"] =>
          ~ready /\ \A x \in Connectors : dialed[x] = conn => pc[x] \notin Sending
    /\ \A x \in Connectors : conn = dialed[x] /\ pc[x] \in Holding \cup {"ok"} => at[x] = dialed[x]
    /\ \A x \in Connectors : conn = dialed[x] /\ pc[x] = "restored" /\ subscribed => link[conn].events

EslInv == /\ EslTypes /\ ConnsPlaced /\ LocksHeld /\ Retired /\ RepliesPaired /\ ReplyIsOwn
          /\ EventsFlow /\ ReadyIsSubscribed
-----------------------------------------------------------------------------
\* Constants, and what each kind of write does to the links.

LEMMA Names ==
    /\ \A p \in Users : p \notin Conns /\ p \in Goroutines /\ p # Nobody
    /\ \A k \in Conns : k \in Goroutines /\ k # NoConn /\ k \notin Users
    /\ \A g \in Goroutines : g \in Users \/ g \in Conns
    /\ "main" \in Users /\ "loop" \in Users /\ "sub" \in Users /\ Callers \subseteq Users
    /\ "main" \in Connectors /\ "loop" \in Connectors /\ Connectors \subseteq Users
    /\ \A x \in Connectors : x = "main" \/ x = "loop"
    /\ \A p \in Callers : p \notin Connectors /\ p # "sub"
  BY EslAssumption DEF Users, Connectors, Goroutines

LinkNow(k, s, f, e) ==
    /\ link' \in [Conns -> Links]
    /\ link'[k].st = s /\ link'[k].frames = f /\ link'[k].events = e
    /\ \A j \in Conns \ {k} : link'[j] = link[j]

LEMMA LinkCloses ==
    ASSUME link \in [Conns -> Links], NEW k \in Conns, CloseLink(k)
    PROVE  LinkNow(k, "closed", <<>>, link[k].events)
<1>1. <<>> \in Seq(Users)
  OBVIOUS
<1> QED BY <1>1 DEF CloseLink, LinkNow, Links

LEMMA LinkMoves ==
    ASSUME link \in [Conns -> Links], NEW k \in Conns, NEW s \in {"none", "up", "lost", "closed"},
           link' = [link EXCEPT ![k].st = s]
    PROVE  LinkNow(k, s, link[k].frames, link[k].events)
  BY DEF LinkNow, Links

LEMMA LinkForgotten ==
    ASSUME link \in [Conns -> Links], NEW k \in Conns, link' = [link EXCEPT ![k] = NoLink]
    PROVE  LinkNow(k, "none", <<>>, FALSE)
<1>1. NoLink \in Links /\ NoLink.st = "none" /\ NoLink.frames = <<>> /\ NoLink.events = FALSE
  BY DEF NoLink, Links
<1> QED BY <1>1 DEF LinkNow

LEMMA LinkRead ==
    ASSUME link \in [Conns -> Links], NEW k \in Conns, link[k].frames # <<>>,
           link' = [link EXCEPT ![k].frames = Tail(@)]
    PROVE  LinkNow(k, link[k].st, Tail(link[k].frames), link[k].events)
<1>1. link[k].frames \in Seq(Users)
  BY DEF Links
<1>2. Tail(link[k].frames) \in Seq(Users)
  BY <1>1
<1> QED BY <1>2 DEF LinkNow, Links

LEMMA LinkWritten ==
    ASSUME link \in [Conns -> Links], NEW k \in Conns, NEW p \in Users,
           link' = [link EXCEPT ![k].frames = Append(@, p), ![k].events = @ \/ p \notin Callers]
    PROVE  LinkNow(k, link[k].st, Append(link[k].frames, p), link[k].events \/ p \notin Callers)
<1>1. link[k].frames \in Seq(Users)
  BY DEF Links
<1>2. Append(link[k].frames, p) \in Seq(Users)
  BY <1>1
<1>3. (link[k].events \/ p \notin Callers) \in BOOLEAN
  OBVIOUS
<1> QED BY <1>2, <1>3 DEF LinkNow, Links

LEMMA LockKeeps ==
    ASSUME EslInv, NEW p \in Users, Lock(p)
    PROVE  EslInv'
<1>1. EslTypes'
  BY Names DEF Lock, Goto, clientVars, lockVars, EslInv, EslTypes, Disconnecting, Sending,
       Holding, Labels
<1>2. ConnsPlaced'
  BY Names DEF Lock, Goto, clientVars, lockVars, EslInv, EslTypes, ConnsPlaced, Installed,
       Holding, Sending
<1>3. LocksHeld'
  BY Names DEF Lock, Goto, clientVars, lockVars, EslInv, EslTypes, LocksHeld, Holding
<1>4. Retired'
  BY Names DEF Lock, Goto, clientVars, lockVars, EslInv, EslTypes, ConnsPlaced, Installed,
       Retired, Target
<1>5. RepliesPaired'
  BY Names DEF Lock, Goto, clientVars, lockVars, EslInv, EslTypes, RepliesPaired, ConnPaired, UsersPaired, LocksHeld,
       Holding, Quiet, OwedTo, Retired, Installed, ConnsPlaced
<1>6. ReplyIsOwn'
  BY Names DEF Lock, Goto, clientVars, lockVars, EslInv, EslTypes, RepliesPaired, ConnPaired, UsersPaired, ReplyIsOwn,
       OwedTo
<1>7. EventsFlow'
  BY Names DEF Lock, Goto, clientVars, lockVars, EslInv, EslTypes, EventsFlow, RepliesPaired, ConnPaired, UsersPaired,
       OwedTo, LocksHeld, Holding, Sending, Quiet, Retired, Installed, ConnsPlaced
<1>8. ReadyIsSubscribed'
  BY Names DEF Lock, Goto, clientVars, lockVars, EslInv, EslTypes, EventsFlow,
       ReadyIsSubscribed, ConnsPlaced, Installed
<1> QED BY <1>1, <1>2, <1>3, <1>4, <1>5, <1>6, <1>7, <1>8 DEF EslInv

LEMMA WriteKeeps ==
    ASSUME EslInv, NEW p \in Users, Write(p)
    PROVE  EslInv'
<1>1. at[p] \in Conns /\ pc[p] = "write" /\ UNCHANGED <<clientVars, subscriptionsMu, subscribed, done, at, got, dialed, closer, missed>>
  BY DEF Write, EslInv, EslTypes, LocksHeld, Holding
<1>2. CASE /\ Goto(p, "wait") /\ UNCHANGED commandMu
          /\ link' = [link EXCEPT ![at[p]].frames = Append(@, p), ![at[p]].events = @ \/ p \notin Callers]
  <2>1. LinkNow(at[p], link[at[p]].st, Append(link[at[p]].frames, p), link[at[p]].events \/ p \notin Callers)
    BY <1>1, <1>2, LinkWritten DEF EslInv, EslTypes
  <2>2. link[at[p]].frames = <<>> /\ Append(<<>>, p) = <<p>>
    BY <1>1 DEF EslInv, RepliesPaired, ConnPaired, UsersPaired, Quiet
  <2>3. /\ Goto(p, "wait") /\ UNCHANGED commandMu /\ at[p] \in Conns /\ pc[p] = "write" /\ UNCHANGED <<clientVars, subscriptionsMu, subscribed, done, at, got, dialed, closer, missed>>
         /\ LinkNow(at[p], link[at[p]].st, <<p>>, link[at[p]].events \/ p \notin Callers)
    BY <1>1, <1>2, <2>1, <2>2
  <2>4. EslTypes'
    BY <2>3, Names DEF Goto, LinkNow, clientVars, lockVars, EslInv, EslTypes, Disconnecting,
         Sending, Holding, Labels
  <2>5. ConnsPlaced'
    BY <2>3, Names DEF Goto, LinkNow, clientVars, lockVars, EslInv, EslTypes, ConnsPlaced,
         Installed, Holding, Sending
  <2>6. LocksHeld'
    BY <2>3, Names DEF Goto, LinkNow, clientVars, lockVars, EslInv, EslTypes, LocksHeld,
         Holding
  <2>7. Retired'
    BY <2>3, Names DEF Goto, LinkNow, clientVars, lockVars, EslInv, EslTypes, ConnsPlaced,
         Installed, Retired, Target
  <2>8. RepliesPaired'
    <3>1. commandMu = p /\ \A q \in Users \ {p} : pc[q] \notin Holding /\ pc'[q] = pc[q]
      BY <2>3, Names DEF EslInv, EslTypes, LocksHeld, Holding, Goto
    <3>2. pc'[p] = "wait" /\ \A k \in Conns : pc'[k] = pc[k]
      BY <2>3, Names DEF EslInv, EslTypes, Goto
    <3>3. Quiet(at[p])
      BY <2>3 DEF EslInv, RepliesPaired, ConnPaired, UsersPaired
    <3>4. OwedTo(at[p], p)'
      BY <2>3, <3>2, <3>3 DEF OwedTo, Quiet, LinkNow
    <3>5. conn # NoConn /\ conn # at[p] => Quiet(conn)'
      BY <2>3, <3>1, <3>2 DEF EslInv, EslTypes, RepliesPaired, ConnPaired, UsersPaired, Quiet, LinkNow, clientVars
    <3> QED BY <2>3, <3>1, <3>2, <3>4, <3>5, Names DEF EslInv, EslTypes, RepliesPaired, ConnPaired, UsersPaired, Holding, clientVars
  <2>9. ReplyIsOwn'
    BY <2>3, Names DEF Goto, LinkNow, clientVars, lockVars, EslInv, EslTypes, RepliesPaired, ConnPaired, UsersPaired,
         ReplyIsOwn, OwedTo
  <2>10. EventsFlow'
    <3>1. pc'[p] = "wait" /\ \A g \in Goroutines \ {p} : pc'[g] = pc[g]
      BY <2>3, Names DEF EslInv, EslTypes, Goto
    <3>2. \A k \in Conns : link[k].events => link'[k].events
      BY <2>3 DEF EslInv, EslTypes, LinkNow
    <3>3. p \notin Callers => link'[at[p]].events
      BY <2>3 DEF LinkNow
    <3>4. \A q \in Users : q # p => pc[q] \notin Holding
      BY <2>3 DEF EslInv, LocksHeld, Holding
    <3>5. \A q \in Users \ Callers :
             /\ pc'[q] = "wait" => Quiet(at[q])' \/ link'[at[q]].events
             /\ pc'[q] = "ok" => at[q] # NoConn /\ link'[at[q]].events
      BY <3>1, <3>2, <3>3, <3>4, Names DEF EslInv, EslTypes, EventsFlow, Holding
    <3>6. \A q \in Users : pc'[q] \in Holding => pc[q] \in Holding
      BY <2>3, <3>1, Names DEF Holding
    <3>7. \A q \in Users : pc'[q] \in Sending => pc[q] \in Sending
      BY <2>3, <3>1, Names DEF Holding, Sending
    <3>8. UNCHANGED <<conn, ready, at, dialed, subscribed>>
      BY <2>3 DEF clientVars
    <3>9. /\ pc'["sub"] \in Holding \cup {"ok"} => pc["sub"] \in Holding \cup {"ok"}
          /\ \A x \in Connectors : pc'[x] \in Holding \cup {"ok"} => pc[x] \in Holding \cup {"ok"}
          /\ \A x \in Connectors : pc'[x] = "restored" => pc[x] = "restored"
      BY <3>1, <3>6, Names
    <3>10. \A x \in Connectors : conn = dialed[x] /\ pc'[x] = "restored" /\ subscribed => link'[conn].events
      BY <3>2, <3>9 DEF EslInv, EslTypes, EventsFlow, ConnsPlaced, Installed, Sending
    <3> QED BY <3>5, <3>7, <3>8, <3>9, <3>10, Names DEF EslInv, EventsFlow
  <2>11. ReadyIsSubscribed'
    BY <2>3, Names DEF Goto, LinkNow, clientVars, lockVars, EslInv, EslTypes, EventsFlow,
         ReadyIsSubscribed, ConnsPlaced, Installed
  <2> QED BY <2>4, <2>5, <2>6, <2>7, <2>8, <2>9, <2>10, <2>11 DEF EslInv
<1>3. CASE UNCHANGED link /\ ((Goto(p, "wait") /\ UNCHANGED commandMu) \/ Returns(p, "err"))
  <2>1. EslTypes'
    BY <1>1, <1>3, Names DEF Goto, Returns, clientVars, lockVars, EslInv, EslTypes,
         Disconnecting, Sending, Holding, Labels
  <2>2. ConnsPlaced'
    BY <1>1, <1>3, Names DEF Goto, Returns, clientVars, lockVars, EslInv, EslTypes, ConnsPlaced,
         Installed, Holding, Sending
  <2>3. LocksHeld'
    BY <1>1, <1>3, Names DEF Goto, Returns, clientVars, lockVars, EslInv, EslTypes, LocksHeld,
         Holding
  <2>4. Retired'
    BY <1>1, <1>3, Names DEF Goto, Returns, clientVars, lockVars, EslInv, EslTypes, ConnsPlaced,
         Installed, Retired, Target
  <2>5. RepliesPaired'
    BY <1>1, <1>3, Names DEF Goto, Returns, clientVars, lockVars, EslInv, EslTypes,
         RepliesPaired, ConnPaired, UsersPaired, LocksHeld, Holding, Quiet, OwedTo, Retired, Installed, ConnsPlaced
  <2>6. ReplyIsOwn'
    BY <1>1, <1>3, Names DEF Goto, Returns, clientVars, lockVars, EslInv, EslTypes,
         RepliesPaired, ConnPaired, UsersPaired, ReplyIsOwn, OwedTo
  <2>7. EventsFlow'
    BY <1>1, <1>3, Names DEF Goto, Returns, clientVars, lockVars, EslInv, EslTypes, EventsFlow,
         RepliesPaired, ConnPaired, UsersPaired, OwedTo, LocksHeld, Holding, Sending, Quiet, Retired, Installed,
         ConnsPlaced
  <2>8. ReadyIsSubscribed'
    BY <1>1, <1>3, Names DEF Goto, Returns, clientVars, lockVars, EslInv, EslTypes, EventsFlow,
         ReadyIsSubscribed, ConnsPlaced, Installed
  <2> QED BY <2>1, <2>2, <2>3, <2>4, <2>5, <2>6, <2>7, <2>8 DEF EslInv
<1> QED BY <1>2, <1>3 DEF Write

LEMMA ReplyKeeps ==
    ASSUME EslInv, NEW p \in Users, Reply(p)
    PROVE  EslInv'
<1>1. EslTypes'
  BY Names DEF Reply, clientVars, lockVars, EslInv, EslTypes, Disconnecting, Sending, Holding,
       Labels, LocksHeld
<1>2. ConnsPlaced'
  BY Names DEF Reply, clientVars, lockVars, EslInv, EslTypes, ConnsPlaced, Installed, Holding,
       Sending
<1>3. LocksHeld'
  BY Names DEF Reply, clientVars, lockVars, EslInv, EslTypes, LocksHeld, Holding
<1>4. Retired'
  BY Names DEF Reply, clientVars, lockVars, EslInv, EslTypes, ConnsPlaced, Installed, Retired,
       Target
<1>5. RepliesPaired'
  BY Names DEF Reply, clientVars, lockVars, EslInv, EslTypes, RepliesPaired, ConnPaired, UsersPaired, LocksHeld, Holding,
       Quiet, OwedTo, Retired, Installed, ConnsPlaced
<1>6. ReplyIsOwn'
  BY Names DEF Reply, clientVars, lockVars, EslInv, EslTypes, RepliesPaired, ConnPaired, UsersPaired, ReplyIsOwn, OwedTo
<1>7. EventsFlow'
  BY Names DEF Reply, clientVars, lockVars, EslInv, EslTypes, EventsFlow, RepliesPaired, ConnPaired, UsersPaired, OwedTo,
       LocksHeld, Holding, Sending, Quiet, Retired, Installed, ConnsPlaced
<1>8. ReadyIsSubscribed'
  BY Names DEF Reply, clientVars, lockVars, EslInv, EslTypes, EventsFlow, ReadyIsSubscribed,
       ConnsPlaced, Installed
<1> QED BY <1>1, <1>2, <1>3, <1>4, <1>5, <1>6, <1>7, <1>8 DEF EslInv

LEMMA GiveUpKeeps ==
    ASSUME EslInv, NEW p \in Users, GiveUp(p)
    PROVE  EslInv'
<1>1. EslTypes'
  BY Names DEF GiveUp, Goto, Returns, Break, clientVars, lockVars, EslInv, EslTypes,
       Disconnecting, Sending, Holding, Labels
<1>2. ConnsPlaced'
  BY Names DEF GiveUp, Goto, Returns, Break, clientVars, lockVars, EslInv, EslTypes,
       ConnsPlaced, Installed, Holding, Sending
<1>3. LocksHeld'
  BY Names DEF GiveUp, Goto, Returns, Break, clientVars, lockVars, EslInv, EslTypes, LocksHeld,
       Holding
<1>4. Retired'
  BY Names DEF GiveUp, Goto, Returns, Break, clientVars, lockVars, EslInv, EslTypes,
       ConnsPlaced, Installed, Retired, Target
<1>5. RepliesPaired'
  BY Names DEF GiveUp, Goto, Returns, Break, clientVars, lockVars, EslInv, EslTypes,
       RepliesPaired, ConnPaired, UsersPaired, LocksHeld, Holding, Quiet, OwedTo, Retired, Installed, ConnsPlaced
<1>6. ReplyIsOwn'
  BY Names DEF GiveUp, Goto, Returns, Break, clientVars, lockVars, EslInv, EslTypes,
       RepliesPaired, ConnPaired, UsersPaired, ReplyIsOwn, OwedTo
<1>7. EventsFlow'
  BY Names DEF GiveUp, Goto, Returns, Break, clientVars, lockVars, EslInv, EslTypes, EventsFlow,
       RepliesPaired, ConnPaired, UsersPaired, OwedTo, LocksHeld, Holding, Sending, Quiet, Retired, Installed,
       ConnsPlaced
<1>8. ReadyIsSubscribed'
  BY Names DEF GiveUp, Goto, Returns, Break, clientVars, lockVars, EslInv, EslTypes, EventsFlow,
       ReadyIsSubscribed, ConnsPlaced, Installed
<1> QED BY <1>1, <1>2, <1>3, <1>4, <1>5, <1>6, <1>7, <1>8 DEF EslInv

LEMMA RetireKeeps ==
    ASSUME EslInv, NEW g \in Goroutines, Retire(g)
    PROVE  EslInv'
<1>1. EslTypes'
  BY ZenonT(60), Names DEF Retire, Goto, Leaves, Returns, Target, clientVars, lockVars, EslInv, EslTypes,
       Disconnecting, Sending, Holding, Labels
<1>2. ConnsPlaced'
  BY Names DEF Retire, Goto, Leaves, Returns, Target, clientVars, lockVars, EslInv, EslTypes,
       ConnsPlaced, Installed, Holding, Sending
<1>3. LocksHeld'
  BY Names DEF Retire, Goto, Leaves, Returns, Target, clientVars, lockVars, EslInv, EslTypes,
       LocksHeld, Holding
<1>4. Retired'
  BY Names DEF Retire, Goto, Leaves, Returns, Target, clientVars, lockVars, EslInv, EslTypes,
       ConnsPlaced, Installed, Retired, LocksHeld, Holding
<1>5. RepliesPaired'
  BY Names DEF Retire, Goto, Leaves, Returns, Target, clientVars, lockVars, EslInv, EslTypes,
       RepliesPaired, ConnPaired, UsersPaired, LocksHeld, Holding, Quiet, OwedTo, Retired, Installed, ConnsPlaced
<1>6. ReplyIsOwn'
  BY Names DEF Retire, Goto, Leaves, Returns, Target, clientVars, lockVars, EslInv, EslTypes,
       RepliesPaired, ConnPaired, UsersPaired, ReplyIsOwn, OwedTo
<1>7. EventsFlow'
  BY Names DEF Retire, Goto, Leaves, Returns, Target, clientVars, lockVars, EslInv, EslTypes,
       EventsFlow, RepliesPaired, ConnPaired, UsersPaired, OwedTo, LocksHeld, Holding, Sending, Quiet, Retired,
       Installed, ConnsPlaced
<1>8. ReadyIsSubscribed'
  BY Names DEF Retire, Goto, Leaves, Returns, Target, clientVars, lockVars, EslInv, EslTypes,
       EventsFlow, ReadyIsSubscribed, ConnsPlaced, Installed
<1> QED BY <1>1, <1>2, <1>3, <1>4, <1>5, <1>6, <1>7, <1>8 DEF EslInv

LEMMA ShutKeeps ==
    ASSUME EslInv, NEW g \in Goroutines, Shut(g)
    PROVE  EslInv'
<1>1. Target(g) \in Conns /\ Installed(Target(g)) /\ pc[g] = "shut"
  BY Names DEF Shut, Target, Installed, EslInv, EslTypes, LocksHeld, Holding, ConnsPlaced
<1>2. LinkNow(Target(g), "closed", <<>>, link[Target(g)].events)
  BY <1>1, LinkCloses DEF Shut, EslInv, EslTypes
<1>3. EslTypes'
  BY <1>1, <1>2, Names DEF Shut, Goto, LinkNow, clientVars, lockVars, EslInv, EslTypes,
       Disconnecting, Sending, Holding, Labels
<1>4. ConnsPlaced'
  BY <1>1, <1>2, Names DEF Shut, Goto, LinkNow, clientVars, lockVars, EslInv, EslTypes,
       ConnsPlaced, Installed, Holding, Sending
<1>5. LocksHeld'
  BY <1>1, <1>2, Names DEF Shut, Goto, LinkNow, clientVars, lockVars, EslInv, EslTypes,
       LocksHeld, Holding
<1>6. Retired'
  BY <1>1, <1>2, Names DEF Shut, Goto, LinkNow, clientVars, lockVars, EslInv, EslTypes,
       ConnsPlaced, Installed, Retired, Target
<1>7. RepliesPaired'
  BY <1>1, <1>2, Names DEF Shut, Goto, LinkNow, clientVars, lockVars, EslInv, EslTypes,
       RepliesPaired, ConnPaired, UsersPaired, LocksHeld, Holding, Quiet, OwedTo, Retired, Installed, ConnsPlaced
<1>8. ReplyIsOwn'
  BY <1>1, <1>2, Names DEF Shut, Goto, LinkNow, clientVars, lockVars, EslInv, EslTypes,
       RepliesPaired, ConnPaired, UsersPaired, ReplyIsOwn, OwedTo
<1>9. EventsFlow'
  BY <1>1, <1>2, Names DEF Shut, Goto, LinkNow, clientVars, lockVars, EslInv, EslTypes,
       EventsFlow, RepliesPaired, ConnPaired, UsersPaired, OwedTo, LocksHeld, Holding, Sending, Quiet, Retired,
       Installed, ConnsPlaced
<1>10. ReadyIsSubscribed'
  BY <1>1, <1>2, Names DEF Shut, Goto, LinkNow, clientVars, lockVars, EslInv, EslTypes,
       EventsFlow, ReadyIsSubscribed, ConnsPlaced, Installed
<1> QED BY <1>3, <1>4, <1>5, <1>6, <1>7, <1>8, <1>9, <1>10 DEF EslInv

LEMMA StartReconnectKeeps ==
    ASSUME EslInv, NEW g \in Goroutines, startReconnect(g)
    PROVE  EslInv'
<1>1. pc[g] = "supervise" /\ UNCHANGED <<conn, ready, closed, cancelled, subscriptionsMu, subscribed, link, done, at, got, dialed, closer, breaks>>
  BY DEF startReconnect
<1>2. CASE Leaves(g) /\ UNCHANGED reconnecting
  <2>1. EslTypes'
    BY <1>1, <1>2, Names DEF Leaves, Goto, Returns, clientVars, lockVars, EslInv, EslTypes,
         Disconnecting, Sending, Holding, Labels
  <2>2. ConnsPlaced'
    BY <1>1, <1>2, Names DEF Leaves, Goto, Returns, clientVars, lockVars, EslInv, EslTypes,
         ConnsPlaced, Installed, Holding, Sending
  <2>3. LocksHeld'
    BY <1>1, <1>2, Names DEF Leaves, Goto, Returns, clientVars, lockVars, EslInv, EslTypes,
         LocksHeld, Holding
  <2>4. Retired'
    BY <1>1, <1>2, Names DEF Leaves, Goto, Returns, clientVars, lockVars, EslInv, EslTypes,
         ConnsPlaced, Installed, Retired, Target
  <2>5. RepliesPaired'
    BY <1>1, <1>2, Names DEF Leaves, Goto, Returns, clientVars, lockVars, EslInv, EslTypes,
         RepliesPaired, ConnPaired, UsersPaired, LocksHeld, Holding, Quiet, OwedTo, Retired, Installed, ConnsPlaced
  <2>6. ReplyIsOwn'
    BY <1>1, <1>2, Names DEF Leaves, Goto, Returns, clientVars, lockVars, EslInv, EslTypes,
         RepliesPaired, ConnPaired, UsersPaired, ReplyIsOwn, OwedTo
  <2>7. EventsFlow'
    BY <1>1, <1>2, Names DEF Leaves, Goto, Returns, clientVars, lockVars, EslInv, EslTypes,
         EventsFlow, RepliesPaired, ConnPaired, UsersPaired, OwedTo, LocksHeld, Holding, Sending, Quiet, Retired,
         Installed, ConnsPlaced
  <2>8. ReadyIsSubscribed'
    BY <1>1, <1>2, Names DEF Leaves, Goto, Returns, clientVars, lockVars, EslInv, EslTypes,
         EventsFlow, ReadyIsSubscribed, ConnsPlaced, Installed
  <2> QED BY <2>1, <2>2, <2>3, <2>4, <2>5, <2>6, <2>7, <2>8 DEF EslInv
<1>3. CASE /\ ~reconnecting /\ reconnecting' = TRUE
          /\ pc' = [pc EXCEPT !["loop"] = "dial", ![g] = IF g \in Conns THEN "over" ELSE "err"]
          /\ commandMu' = IF g \in Conns THEN commandMu ELSE Nobody
  <2>1. g # "loop" /\ pc["loop"] = "idle"
    BY <1>1, <1>3 DEF EslInv, LocksHeld
  <2>2. EslTypes'
    BY <1>1, <1>3, <2>1, Names DEF clientVars, lockVars, EslInv, EslTypes, Disconnecting,
         Sending, Holding, Labels
  <2>3. ConnsPlaced'
    BY <1>1, <1>3, <2>1, Names DEF clientVars, lockVars, EslInv, EslTypes, ConnsPlaced,
         Installed, Holding, Sending
  <2>4. LocksHeld'
    BY <1>1, <1>3, <2>1, Names DEF clientVars, lockVars, EslInv, EslTypes, LocksHeld, Holding
  <2>5. Retired'
    BY <1>1, <1>3, <2>1, Names DEF clientVars, lockVars, EslInv, EslTypes, ConnsPlaced,
         Installed, Retired, Target
  <2>6. RepliesPaired'
    BY <1>1, <1>3, <2>1, Names DEF clientVars, lockVars, EslInv, EslTypes, RepliesPaired, ConnPaired, UsersPaired,
         LocksHeld, Holding, Quiet, OwedTo, Retired, Installed, ConnsPlaced
  <2>7. ReplyIsOwn'
    BY <1>1, <1>3, <2>1, Names DEF clientVars, lockVars, EslInv, EslTypes, RepliesPaired, ConnPaired, UsersPaired,
         ReplyIsOwn, OwedTo
  <2>8. EventsFlow'
    BY <1>1, <1>3, <2>1, Names DEF clientVars, lockVars, EslInv, EslTypes, EventsFlow,
         RepliesPaired, ConnPaired, UsersPaired, OwedTo, LocksHeld, Holding, Sending, Quiet, Retired, Installed,
         ConnsPlaced
  <2>9. ReadyIsSubscribed'
    BY <1>1, <1>3, <2>1, Names DEF clientVars, lockVars, EslInv, EslTypes, EventsFlow,
         ReadyIsSubscribed, ConnsPlaced, Installed
  <2> QED BY <2>2, <2>3, <2>4, <2>5, <2>6, <2>7, <2>8, <2>9 DEF EslInv
<1> QED BY <1>2, <1>3 DEF startReconnect

LEMMA ReadFrameKeeps ==
    ASSUME EslInv, NEW k \in Conns, ReadFrame(k)
    PROVE  EslInv'
<1>1. LinkNow(k, link[k].st, Tail(link[k].frames), link[k].events)
  BY LinkRead DEF ReadFrame, EslInv, EslTypes
<1>2. link[k].frames \in Seq(Users) /\ Head(link[k].frames) \in Users
  BY DEF ReadFrame, EslInv, EslTypes, Links
<1>3. \A p \in Users : Head(<<p>>) = p /\ Tail(<<p>>) = <<>>
  OBVIOUS
<1>4. EslTypes'
  BY <1>1, <1>2, <1>3, Names DEF ReadFrame, Goto, LinkNow, clientVars, lockVars, EslInv,
       EslTypes, Disconnecting, Sending, Holding, Labels
<1>5. ConnsPlaced'
  BY <1>1, <1>2, <1>3, Names DEF ReadFrame, Goto, LinkNow, clientVars, lockVars, EslInv,
       EslTypes, ConnsPlaced, Installed, Holding, Sending
<1>6. LocksHeld'
  BY <1>1, <1>2, <1>3, Names DEF ReadFrame, Goto, LinkNow, clientVars, lockVars, EslInv,
       EslTypes, LocksHeld, Holding
<1>7. Retired'
  BY <1>1, <1>2, <1>3, Names DEF ReadFrame, Goto, LinkNow, clientVars, lockVars, EslInv,
       EslTypes, ConnsPlaced, Installed, Retired, Target
<1>8. RepliesPaired'
  <2>1. /\ \A q \in Users : pc'[q] = pc[q]
        /\ \A j \in Conns \ {k} : pc'[j] = pc[j] /\ link'[j] = link[j] /\ got'[j] = got[j]
        /\ got'[k] = Head(link[k].frames) /\ link'[k].frames = Tail(link[k].frames) /\ ~Quiet(k)
        /\ UNCHANGED <<conn, commandMu, at>>
    BY <1>1, Names DEF ReadFrame, Goto, LinkNow, Quiet, EslInv, EslTypes, clientVars, lockVars
  <2>2. \A j \in Conns \ {k}, q \in Users : (Quiet(j) => Quiet(j)') /\ (OwedTo(j, q) => OwedTo(j, q)')
    BY <2>1 DEF Quiet, OwedTo
  <2>3. \A q \in Users : OwedTo(k, q) => OwedTo(k, q)'
    BY <2>1, <1>2, <1>3 DEF OwedTo, ReadFrame
  <2>4. \A q \in Users : pc[q] \in {"write", "wait"} => at[q] \in Conns
    BY DEF EslInv, EslTypes, LocksHeld, Holding
  <2>5. \A q \in Users : pc[q] = "write" => at[q] # k
    BY <2>1 DEF EslInv, RepliesPaired, ConnPaired, UsersPaired
  <2>6. conn # NoConn => \/ Quiet(conn)'
                         \/ /\ commandMu \in Users /\ at[commandMu] = conn
                            /\ pc[commandMu] \in {"wait", "retire"}
    BY <2>1, <2>2 DEF EslInv, EslTypes, RepliesPaired, ConnPaired, UsersPaired, Quiet
  <2>7. UsersPaired'
    <3> SUFFICES ASSUME NEW q \in Users
                 PROVE  (pc[q] = "write" => Quiet(at[q]))' /\ (pc[q] = "wait" => OwedTo(at[q], q))'
      BY DEF UsersPaired
    <3>1. (pc[q] = "write" => Quiet(at[q]))'
      BY <2>1, <2>2, <2>4, <2>5 DEF EslInv, RepliesPaired, ConnPaired, UsersPaired, UsersPaired, Quiet
    <3>2. CASE at[q] = k
      BY <2>1, <2>3, <3>1, <3>2 DEF EslInv, RepliesPaired, ConnPaired, UsersPaired, UsersPaired, OwedTo
    <3>3. CASE at[q] # k
      BY <2>1, <2>2, <2>4, <3>1, <3>3 DEF EslInv, RepliesPaired, ConnPaired, UsersPaired, UsersPaired, OwedTo
    <3> QED BY <3>2, <3>3
  <2>8. ConnPaired'
    BY <2>1, <2>6 DEF Quiet, ConnPaired
  <2> QED BY <2>7, <2>8 DEF RepliesPaired
<1>9. ReplyIsOwn'
  BY <1>1, <1>2, <1>3, Names DEF ReadFrame, Goto, LinkNow, clientVars, lockVars, EslInv,
       EslTypes, RepliesPaired, ConnPaired, UsersPaired, ReplyIsOwn, OwedTo
<1>10. EventsFlow'
  BY <1>1, <1>2, <1>3, Names DEF ReadFrame, Goto, LinkNow, clientVars, lockVars, EslInv,
       EslTypes, EventsFlow, RepliesPaired, ConnPaired, UsersPaired, OwedTo, LocksHeld, Holding, Sending, Quiet, Retired,
       Installed, ConnsPlaced
<1>11. ReadyIsSubscribed'
  BY <1>1, <1>2, <1>3, Names DEF ReadFrame, Goto, LinkNow, clientVars, lockVars, EslInv,
       EslTypes, EventsFlow, ReadyIsSubscribed, ConnsPlaced, Installed
<1> QED BY <1>4, <1>5, <1>6, <1>7, <1>8, <1>9, <1>10, <1>11 DEF EslInv

LEMMA ReadFailsKeeps ==
    ASSUME EslInv, NEW k \in Conns, ReadFails(k)
    PROVE  EslInv'
<1>1. EslTypes'
  BY Names DEF ReadFails, Goto, clientVars, lockVars, EslInv, EslTypes, Disconnecting, Sending,
       Holding, Labels
<1>2. ConnsPlaced'
  BY Names DEF ReadFails, Goto, clientVars, lockVars, EslInv, EslTypes, ConnsPlaced, Installed,
       Holding, Sending
<1>3. LocksHeld'
  BY Names DEF ReadFails, Goto, clientVars, lockVars, EslInv, EslTypes, LocksHeld, Holding
<1>4. Retired'
  BY Names DEF ReadFails, Goto, clientVars, lockVars, EslInv, EslTypes, ConnsPlaced, Installed,
       Retired, Target
<1>5. RepliesPaired'
  BY Names DEF ReadFails, Goto, clientVars, lockVars, EslInv, EslTypes, RepliesPaired, ConnPaired, UsersPaired,
       LocksHeld, Holding, Quiet, OwedTo, Retired, Installed, ConnsPlaced
<1>6. ReplyIsOwn'
  BY Names DEF ReadFails, Goto, clientVars, lockVars, EslInv, EslTypes, RepliesPaired, ConnPaired, UsersPaired,
       ReplyIsOwn, OwedTo
<1>7. EventsFlow'
  BY Names DEF ReadFails, Goto, clientVars, lockVars, EslInv, EslTypes, EventsFlow,
       RepliesPaired, ConnPaired, UsersPaired, OwedTo, LocksHeld, Holding, Sending, Quiet, Retired, Installed,
       ConnsPlaced
<1>8. ReadyIsSubscribed'
  BY Names DEF ReadFails, Goto, clientVars, lockVars, EslInv, EslTypes, EventsFlow,
       ReadyIsSubscribed, ConnsPlaced, Installed
<1> QED BY <1>1, <1>2, <1>3, <1>4, <1>5, <1>6, <1>7, <1>8 DEF EslInv

LEMMA ReplyDroppedKeeps ==
    ASSUME EslInv, NEW k \in Conns, ReplyDropped(k)
    PROVE  EslInv'
<1>1. EslTypes'
  BY Names DEF ReplyDropped, Goto, clientVars, lockVars, EslInv, EslTypes, Disconnecting,
       Sending, Holding, Labels
<1>2. ConnsPlaced'
  BY Names DEF ReplyDropped, Goto, clientVars, lockVars, EslInv, EslTypes, ConnsPlaced,
       Installed, Holding, Sending
<1>3. LocksHeld'
  BY Names DEF ReplyDropped, Goto, clientVars, lockVars, EslInv, EslTypes, LocksHeld, Holding
<1>4. Retired'
  BY Names DEF ReplyDropped, Goto, clientVars, lockVars, EslInv, EslTypes, ConnsPlaced,
       Installed, Retired, Target
<1>5. RepliesPaired'
  BY Names DEF ReplyDropped, Goto, clientVars, lockVars, EslInv, EslTypes, RepliesPaired, ConnPaired, UsersPaired,
       LocksHeld, Holding, Quiet, OwedTo, Retired, Installed, ConnsPlaced
<1>6. ReplyIsOwn'
  BY Names DEF ReplyDropped, Goto, clientVars, lockVars, EslInv, EslTypes, RepliesPaired, ConnPaired, UsersPaired,
       ReplyIsOwn, OwedTo
<1>7. EventsFlow'
  BY Names DEF ReplyDropped, Goto, clientVars, lockVars, EslInv, EslTypes, EventsFlow,
       RepliesPaired, ConnPaired, UsersPaired, OwedTo, LocksHeld, Holding, Sending, Quiet, Retired, Installed,
       ConnsPlaced
<1>8. ReadyIsSubscribed'
  BY Names DEF ReplyDropped, Goto, clientVars, lockVars, EslInv, EslTypes, EventsFlow,
       ReadyIsSubscribed, ConnsPlaced, Installed
<1> QED BY <1>1, <1>2, <1>3, <1>4, <1>5, <1>6, <1>7, <1>8 DEF EslInv

LEMMA LinkLostKeeps ==
    ASSUME EslInv, NEW k \in Conns, LinkLost(k)
    PROVE  EslInv'
<1>1. LinkNow(k, "lost", link[k].frames, link[k].events)
  BY LinkMoves DEF LinkLost, EslInv, EslTypes
<1>2. EslTypes'
  BY <1>1, Names DEF LinkLost, LinkNow, clientVars, lockVars, EslInv, EslTypes, Disconnecting,
       Sending, Holding, Labels
<1>3. ConnsPlaced'
  BY <1>1, Names DEF LinkLost, LinkNow, clientVars, lockVars, EslInv, EslTypes, ConnsPlaced,
       Installed, Holding, Sending
<1>4. LocksHeld'
  BY <1>1, Names DEF LinkLost, LinkNow, clientVars, lockVars, EslInv, EslTypes, LocksHeld,
       Holding
<1>5. Retired'
  BY <1>1, Names DEF LinkLost, LinkNow, clientVars, lockVars, EslInv, EslTypes, ConnsPlaced,
       Installed, Retired, Target
<1>6. RepliesPaired'
  BY <1>1, Names DEF LinkLost, LinkNow, clientVars, lockVars, EslInv, EslTypes, RepliesPaired, ConnPaired, UsersPaired,
       LocksHeld, Holding, Quiet, OwedTo, Retired, Installed, ConnsPlaced
<1>7. ReplyIsOwn'
  BY <1>1, Names DEF LinkLost, LinkNow, clientVars, lockVars, EslInv, EslTypes, RepliesPaired, ConnPaired, UsersPaired,
       ReplyIsOwn, OwedTo
<1>8. EventsFlow'
  BY <1>1, Names DEF LinkLost, LinkNow, clientVars, lockVars, EslInv, EslTypes, EventsFlow,
       RepliesPaired, ConnPaired, UsersPaired, OwedTo, LocksHeld, Holding, Sending, Quiet, Retired, Installed,
       ConnsPlaced
<1>9. ReadyIsSubscribed'
  BY <1>1, Names DEF LinkLost, LinkNow, clientVars, lockVars, EslInv, EslTypes, EventsFlow,
       ReadyIsSubscribed, ConnsPlaced, Installed
<1> QED BY <1>2, <1>3, <1>4, <1>5, <1>6, <1>7, <1>8, <1>9 DEF EslInv

LEMMA DialKeeps ==
    ASSUME EslInv, NEW x \in Connectors, Dial(x)
    PROVE  EslInv'
<1>1. CASE \E i \in DOMAIN Order : link[Order[i]].st = "none" /\ link' = [link EXCEPT ![Order[i]].st = "up"]
            /\ dialed' = [dialed EXCEPT ![x] = Order[i]] /\ Goto(x, "install")
  <2>1. PICK k \in Conns : link[k].st = "none" /\ link' = [link EXCEPT ![k].st = "up"]
             /\ dialed' = [dialed EXCEPT ![x] = k] /\ Goto(x, "install")
    BY <1>1 DEF Conns
  <2>2. LinkNow(k, "up", link[k].frames, link[k].events)
    BY <2>1, LinkMoves DEF EslInv, EslTypes
  <2>3. pc[x] = "dial" /\ UNCHANGED <<clientVars, lockVars, done, at, got, closer>>
    BY DEF Dial
  <2>4. EslTypes'
    BY <2>1, <2>2, <2>3, Names DEF Goto, LinkNow, clientVars, lockVars, EslInv, EslTypes,
         Disconnecting, Sending, Holding, Labels
  <2>5. ConnsPlaced'
    BY <2>1, <2>2, <2>3, Names DEF Goto, LinkNow, clientVars, lockVars, EslInv, EslTypes,
         ConnsPlaced, Installed, Holding, Sending
  <2>6. LocksHeld'
    BY <2>1, <2>2, <2>3, Names DEF Goto, LinkNow, clientVars, lockVars, EslInv, EslTypes,
         LocksHeld, Holding
  <2>7. Retired'
    BY <2>1, <2>2, <2>3, Names DEF Goto, LinkNow, clientVars, lockVars, EslInv, EslTypes,
         ConnsPlaced, Installed, Retired, Target
  <2>8. RepliesPaired'
    BY <2>1, <2>2, <2>3, Names DEF Goto, LinkNow, clientVars, lockVars, EslInv, EslTypes,
         RepliesPaired, ConnPaired, UsersPaired, LocksHeld, Holding, Quiet, OwedTo, Retired, Installed, ConnsPlaced
  <2>9. ReplyIsOwn'
    BY <2>1, <2>2, <2>3, Names DEF Goto, LinkNow, clientVars, lockVars, EslInv, EslTypes,
         RepliesPaired, ConnPaired, UsersPaired, ReplyIsOwn, OwedTo
  <2>10. EventsFlow'
    BY <2>1, <2>2, <2>3, Names DEF Goto, LinkNow, clientVars, lockVars, EslInv, EslTypes,
         EventsFlow, RepliesPaired, ConnPaired, UsersPaired, OwedTo, LocksHeld, Holding, Sending, Quiet, Retired,
         Installed, ConnsPlaced
  <2>11. ReadyIsSubscribed'
    BY <2>1, <2>2, <2>3, Names DEF Goto, LinkNow, clientVars, lockVars, EslInv, EslTypes,
         EventsFlow, ReadyIsSubscribed, ConnsPlaced, Installed
  <2> QED BY <2>4, <2>5, <2>6, <2>7, <2>8, <2>9, <2>10, <2>11 DEF EslInv
<1>2. CASE UNCHANGED <<link, dialed>> /\ Failed(x)
  <2>1. EslTypes'
    BY <1>2, Names DEF Dial, Goto, Failed, clientVars, lockVars, EslInv, EslTypes,
         Disconnecting, Sending, Holding, Labels
  <2>2. ConnsPlaced'
    BY <1>2, Names DEF Dial, Goto, Failed, clientVars, lockVars, EslInv, EslTypes, ConnsPlaced,
         Installed, Holding, Sending
  <2>3. LocksHeld'
    BY <1>2, Names DEF Dial, Goto, Failed, clientVars, lockVars, EslInv, EslTypes, LocksHeld,
         Holding
  <2>4. Retired'
    BY <1>2, Names DEF Dial, Goto, Failed, clientVars, lockVars, EslInv, EslTypes, ConnsPlaced,
         Installed, Retired, Target
  <2>5. RepliesPaired'
    BY <1>2, Names DEF Dial, Goto, Failed, clientVars, lockVars, EslInv, EslTypes,
         RepliesPaired, ConnPaired, UsersPaired, LocksHeld, Holding, Quiet, OwedTo, Retired, Installed, ConnsPlaced
  <2>6. ReplyIsOwn'
    BY <1>2, Names DEF Dial, Goto, Failed, clientVars, lockVars, EslInv, EslTypes,
         RepliesPaired, ConnPaired, UsersPaired, ReplyIsOwn, OwedTo
  <2>7. EventsFlow'
    BY <1>2, Names DEF Dial, Goto, Failed, clientVars, lockVars, EslInv, EslTypes, EventsFlow,
         RepliesPaired, ConnPaired, UsersPaired, OwedTo, LocksHeld, Holding, Sending, Quiet, Retired, Installed,
         ConnsPlaced
  <2>8. ReadyIsSubscribed'
    BY <1>2, Names DEF Dial, Goto, Failed, clientVars, lockVars, EslInv, EslTypes, EventsFlow,
         ReadyIsSubscribed, ConnsPlaced, Installed
  <2> QED BY <2>1, <2>2, <2>3, <2>4, <2>5, <2>6, <2>7, <2>8 DEF EslInv
<1> QED BY <1>1, <1>2 DEF Dial

LEMMA InstallConnectionKeeps ==
    ASSUME EslInv, NEW x \in Connectors, installConnection(x)
    PROVE  EslInv'
<1>1. /\ dialed[x] \in Conns /\ pc[dialed[x]] = "idle" /\ pc[x] = "install"
      /\ UNCHANGED <<closed, reconnecting, cancelled, lockVars, done, at, got, dialed, closer, breaks>>
  BY DEF installConnection, EslInv, ConnsPlaced
<1>2. CASE /\ link' = [link EXCEPT ![dialed[x]] = NoLink] /\ UNCHANGED <<conn, ready>>
          /\ \E l \in {"failed", "backoff", "done", "return"} : Goto(x, l)
  <2>1. LinkNow(dialed[x], "none", <<>>, FALSE)
    BY <1>1, <1>2, LinkForgotten DEF EslInv, EslTypes
  <2>2. PICK l \in {"failed", "backoff", "done", "return"} : Goto(x, l) /\ UNCHANGED <<conn, ready>>
    BY <1>2
  <2>3. EslTypes'
    BY <1>1, <2>1, <2>2, Names DEF Goto, LinkNow, clientVars, lockVars, EslInv, EslTypes,
         Disconnecting, Sending, Holding, Labels
  <2>4. ConnsPlaced'
    BY <1>1, <2>1, <2>2, Names DEF Goto, LinkNow, clientVars, lockVars, EslInv, EslTypes,
         ConnsPlaced, Installed, Holding, Sending
  <2>5. LocksHeld'
    BY <1>1, <2>1, <2>2, Names DEF Goto, LinkNow, clientVars, lockVars, EslInv, EslTypes,
         LocksHeld, Holding
  <2>6. Retired'
    BY <1>1, <2>1, <2>2, Names DEF Goto, LinkNow, clientVars, lockVars, EslInv, EslTypes,
         ConnsPlaced, Installed, Retired, Target
  <2>7. RepliesPaired'
    BY <1>1, <2>1, <2>2, Names DEF Goto, LinkNow, clientVars, lockVars, EslInv, EslTypes,
         RepliesPaired, ConnPaired, UsersPaired, LocksHeld, Holding, Quiet, OwedTo, Retired, Installed, ConnsPlaced
  <2>8. ReplyIsOwn'
    BY <1>1, <2>1, <2>2, Names DEF Goto, LinkNow, clientVars, lockVars, EslInv, EslTypes,
         RepliesPaired, ConnPaired, UsersPaired, ReplyIsOwn, OwedTo
  <2>9. EventsFlow'
    BY <1>1, <2>1, <2>2, Names DEF Goto, LinkNow, clientVars, lockVars, EslInv, EslTypes,
         EventsFlow, RepliesPaired, ConnPaired, UsersPaired, OwedTo, LocksHeld, Holding, Sending, Quiet, Retired,
         Installed, ConnsPlaced
  <2>10. ReadyIsSubscribed'
    BY <1>1, <2>1, <2>2, Names DEF Goto, LinkNow, clientVars, lockVars, EslInv, EslTypes,
         EventsFlow, ReadyIsSubscribed, ConnsPlaced, Installed
  <2> QED BY <2>3, <2>4, <2>5, <2>6, <2>7, <2>8, <2>9, <2>10 DEF EslInv
<1>3. CASE /\ conn = NoConn /\ conn' = dialed[x] /\ ready' = FALSE /\ UNCHANGED link
          /\ pc' = [pc EXCEPT ![x] = "restore", ![dialed[x]] = "read"]
  <2>1. EslTypes'
    BY <1>1, <1>3, Names DEF clientVars, lockVars, EslInv, EslTypes, Disconnecting, Sending,
         Holding, Labels
  <2>2. ConnsPlaced'
    BY <1>1, <1>3, Names DEF clientVars, lockVars, EslInv, EslTypes, ConnsPlaced, Installed,
         Holding, Sending
  <2>3. LocksHeld'
    BY <1>1, <1>3, Names DEF clientVars, lockVars, EslInv, EslTypes, LocksHeld, Holding
  <2>4. Retired'
    BY <1>1, <1>3, Names DEF clientVars, lockVars, EslInv, EslTypes, ConnsPlaced, Installed,
         Retired, Target
  <2>5. RepliesPaired'
    BY <1>1, <1>3, Names DEF clientVars, lockVars, EslInv, EslTypes, RepliesPaired, ConnPaired, UsersPaired, LocksHeld,
         Holding, Quiet, OwedTo, Retired, Installed, ConnsPlaced
  <2>6. ReplyIsOwn'
    BY <1>1, <1>3, Names DEF clientVars, lockVars, EslInv, EslTypes, RepliesPaired, ConnPaired, UsersPaired, ReplyIsOwn,
         OwedTo
  <2>7. EventsFlow'
    BY <1>1, <1>3, Names DEF clientVars, lockVars, EslInv, EslTypes, EventsFlow, RepliesPaired, ConnPaired, UsersPaired,
         OwedTo, LocksHeld, Holding, Sending, Quiet, Retired, Installed, ConnsPlaced
  <2>8. ReadyIsSubscribed'
    BY <1>1, <1>3, Names DEF clientVars, lockVars, EslInv, EslTypes, EventsFlow,
         ReadyIsSubscribed, ConnsPlaced, Installed
  <2> QED BY <2>1, <2>2, <2>3, <2>4, <2>5, <2>6, <2>7, <2>8 DEF EslInv
<1> QED BY <1>2, <1>3 DEF installConnection, Failed, Succeeded

LEMMA RestoreSubscriptionsKeeps ==
    ASSUME EslInv, NEW x \in Connectors, restoreSubscriptions(x)
    PROVE  EslInv'
<1>1. EslTypes'
  BY Names DEF restoreSubscriptions, Goto, clientVars, lockVars, EslInv, EslTypes,
       Disconnecting, Sending, Holding, Labels
<1>2. ConnsPlaced'
  BY Names DEF restoreSubscriptions, Goto, clientVars, lockVars, EslInv, EslTypes, ConnsPlaced,
       Installed, Holding, Sending
<1>3. LocksHeld'
  BY Names DEF restoreSubscriptions, Goto, clientVars, lockVars, EslInv, EslTypes, LocksHeld,
       Holding
<1>4. Retired'
  BY Names DEF restoreSubscriptions, Goto, clientVars, lockVars, EslInv, EslTypes, ConnsPlaced,
       Installed, Retired, Target
<1>5. RepliesPaired'
  BY Names DEF restoreSubscriptions, Goto, clientVars, lockVars, EslInv, EslTypes,
       RepliesPaired, ConnPaired, UsersPaired, LocksHeld, Holding, Quiet, OwedTo, Retired, Installed, ConnsPlaced
<1>6. ReplyIsOwn'
  BY Names DEF restoreSubscriptions, Goto, clientVars, lockVars, EslInv, EslTypes,
       RepliesPaired, ConnPaired, UsersPaired, ReplyIsOwn, OwedTo
<1>7. EventsFlow'
  BY Names DEF restoreSubscriptions, Goto, clientVars, lockVars, EslInv, EslTypes, EventsFlow,
       RepliesPaired, ConnPaired, UsersPaired, OwedTo, LocksHeld, Holding, Sending, Quiet, Retired, Installed,
       ConnsPlaced
<1>8. ReadyIsSubscribed'
  BY Names DEF restoreSubscriptions, Goto, clientVars, lockVars, EslInv, EslTypes, EventsFlow,
       ReadyIsSubscribed, ConnsPlaced, Installed
<1> QED BY <1>1, <1>2, <1>3, <1>4, <1>5, <1>6, <1>7, <1>8 DEF EslInv

LEMMA RestoreEndsKeeps ==
    ASSUME EslInv, NEW x \in Connectors, RestoreEnds(x)
    PROVE  EslInv'
<1>1. pc[x] \in {"ok", "err"} /\ dialed[x] \in Conns /\ pc[dialed[x]] # "idle"
  BY DEF RestoreEnds, EslInv, ConnsPlaced, Installed, Sending
<1>2. CASE CloseLink(dialed[x]) /\ Failed(x) /\ pc[x] = "err"
  <2>1. LinkNow(dialed[x], "closed", <<>>, link[dialed[x]].events)
    BY <1>2, <1>1, LinkCloses DEF EslInv, EslTypes
  <2>2. EslTypes'
    BY <1>2, <1>1, <2>1, Names DEF RestoreEnds, Failed, Goto, LinkNow, clientVars, lockVars,
         EslInv, EslTypes, Disconnecting, Sending, Holding, Labels
  <2>3. ConnsPlaced'
    BY <1>2, <1>1, <2>1, Names DEF RestoreEnds, Failed, Goto, LinkNow, clientVars, lockVars,
         EslInv, EslTypes, ConnsPlaced, Installed, Holding, Sending
  <2>4. LocksHeld'
    BY <1>2, <1>1, <2>1, Names DEF RestoreEnds, Failed, Goto, LinkNow, clientVars, lockVars,
         EslInv, EslTypes, LocksHeld, Holding
  <2>5. Retired'
    BY <1>2, <1>1, <2>1, Names DEF RestoreEnds, Failed, Goto, LinkNow, clientVars, lockVars,
         EslInv, EslTypes, ConnsPlaced, Installed, Retired, Target
  <2>6. RepliesPaired'
    BY <1>2, <1>1, <2>1, Names DEF RestoreEnds, Failed, Goto, LinkNow, clientVars, lockVars,
         EslInv, EslTypes, RepliesPaired, ConnPaired, UsersPaired, LocksHeld, Holding, Quiet, OwedTo, Retired, Installed,
         ConnsPlaced
  <2>7. ReplyIsOwn'
    BY <1>2, <1>1, <2>1, Names DEF RestoreEnds, Failed, Goto, LinkNow, clientVars, lockVars,
         EslInv, EslTypes, RepliesPaired, ConnPaired, UsersPaired, ReplyIsOwn, OwedTo
  <2>8. EventsFlow'
    BY <1>2, <1>1, <2>1, Names DEF RestoreEnds, Failed, Goto, LinkNow, clientVars, lockVars,
         EslInv, EslTypes, EventsFlow, RepliesPaired, ConnPaired, UsersPaired, OwedTo, LocksHeld, Holding, Sending,
         Quiet, Retired, Installed, ConnsPlaced
  <2>9. ReadyIsSubscribed'
    BY <1>2, <1>1, <2>1, Names DEF RestoreEnds, Failed, Goto, LinkNow, clientVars, lockVars,
         EslInv, EslTypes, EventsFlow, ReadyIsSubscribed, ConnsPlaced, Installed
  <2> QED BY <2>2, <2>3, <2>4, <2>5, <2>6, <2>7, <2>8, <2>9 DEF EslInv
<1>3. CASE UNCHANGED link /\ pc[x] = "ok" /\ Goto(x, "restored")
  <2>1. EslTypes'
    BY <1>3, <1>1, Names DEF RestoreEnds, Goto, clientVars, lockVars, EslInv, EslTypes,
         Disconnecting, Sending, Holding, Labels
  <2>2. ConnsPlaced'
    BY <1>3, <1>1, Names DEF RestoreEnds, Goto, clientVars, lockVars, EslInv, EslTypes,
         ConnsPlaced, Installed, Holding, Sending
  <2>3. LocksHeld'
    BY <1>3, <1>1, Names DEF RestoreEnds, Goto, clientVars, lockVars, EslInv, EslTypes,
         LocksHeld, Holding
  <2>4. Retired'
    BY <1>3, <1>1, Names DEF RestoreEnds, Goto, clientVars, lockVars, EslInv, EslTypes,
         ConnsPlaced, Installed, Retired, Target
  <2>5. RepliesPaired'
    BY <1>3, <1>1, Names DEF RestoreEnds, Goto, clientVars, lockVars, EslInv, EslTypes,
         RepliesPaired, ConnPaired, UsersPaired, LocksHeld, Holding, Quiet, OwedTo, Retired, Installed, ConnsPlaced
  <2>6. ReplyIsOwn'
    BY <1>3, <1>1, Names DEF RestoreEnds, Goto, clientVars, lockVars, EslInv, EslTypes,
         RepliesPaired, ConnPaired, UsersPaired, ReplyIsOwn, OwedTo
  <2>7. EventsFlow'
    BY <1>3, <1>1, Names DEF RestoreEnds, Goto, clientVars, lockVars, EslInv, EslTypes,
         EventsFlow, RepliesPaired, ConnPaired, UsersPaired, OwedTo, LocksHeld, Holding, Sending, Quiet, Retired,
         Installed, ConnsPlaced
  <2>8. ReadyIsSubscribed'
    BY <1>3, <1>1, Names DEF RestoreEnds, Goto, clientVars, lockVars, EslInv, EslTypes,
         EventsFlow, ReadyIsSubscribed, ConnsPlaced, Installed
  <2> QED BY <2>1, <2>2, <2>3, <2>4, <2>5, <2>6, <2>7, <2>8 DEF EslInv
<1> QED BY <1>2, <1>3 DEF RestoreEnds

LEMMA BecomeReadyKeeps ==
    ASSUME EslInv, NEW x \in Connectors, BecomeReady(x)
    PROVE  EslInv'
<1>1. EslTypes'
  BY Names DEF BecomeReady, Succeeded, Goto, clientVars, lockVars, EslInv, EslTypes,
       Disconnecting, Sending, Holding, Labels
<1>2. ConnsPlaced'
  BY Names DEF BecomeReady, Succeeded, Goto, clientVars, lockVars, EslInv, EslTypes,
       ConnsPlaced, Installed, Holding, Sending
<1>3. LocksHeld'
  BY Names DEF BecomeReady, Succeeded, Goto, clientVars, lockVars, EslInv, EslTypes, LocksHeld,
       Holding
<1>4. Retired'
  BY Names DEF BecomeReady, Succeeded, Goto, clientVars, lockVars, EslInv, EslTypes,
       ConnsPlaced, Installed, Retired, Target
<1>5. RepliesPaired'
  BY Names DEF BecomeReady, Succeeded, Goto, clientVars, lockVars, EslInv, EslTypes,
       RepliesPaired, ConnPaired, UsersPaired, LocksHeld, Holding, Quiet, OwedTo, Retired, Installed, ConnsPlaced
<1>6. ReplyIsOwn'
  BY Names DEF BecomeReady, Succeeded, Goto, clientVars, lockVars, EslInv, EslTypes,
       RepliesPaired, ConnPaired, UsersPaired, ReplyIsOwn, OwedTo
<1>7. EventsFlow'
  BY Names DEF BecomeReady, Succeeded, Goto, clientVars, lockVars, EslInv, EslTypes, EventsFlow,
       RepliesPaired, ConnPaired, UsersPaired, OwedTo, LocksHeld, Holding, Sending, Quiet, Retired, Installed,
       ConnsPlaced
<1>8. ReadyIsSubscribed'
  BY Names DEF BecomeReady, Succeeded, Goto, clientVars, lockVars, EslInv, EslTypes, EventsFlow,
       ReadyIsSubscribed, ConnsPlaced, Installed
<1> QED BY <1>1, <1>2, <1>3, <1>4, <1>5, <1>6, <1>7, <1>8 DEF EslInv

LEMMA BackoffKeeps ==
    ASSUME EslInv, Backoff
    PROVE  EslInv'
<1>1. EslTypes'
  BY Names DEF Backoff, Goto, clientVars, lockVars, EslInv, EslTypes, Disconnecting, Sending,
       Holding, Labels
<1>2. ConnsPlaced'
  BY Names DEF Backoff, Goto, clientVars, lockVars, EslInv, EslTypes, ConnsPlaced, Installed,
       Holding, Sending
<1>3. LocksHeld'
  BY Names DEF Backoff, Goto, clientVars, lockVars, EslInv, EslTypes, LocksHeld, Holding
<1>4. Retired'
  BY Names DEF Backoff, Goto, clientVars, lockVars, EslInv, EslTypes, ConnsPlaced, Installed,
       Retired, Target
<1>5. RepliesPaired'
  BY Names DEF Backoff, Goto, clientVars, lockVars, EslInv, EslTypes, RepliesPaired, ConnPaired, UsersPaired, LocksHeld,
       Holding, Quiet, OwedTo, Retired, Installed, ConnsPlaced
<1>6. ReplyIsOwn'
  BY Names DEF Backoff, Goto, clientVars, lockVars, EslInv, EslTypes, RepliesPaired, ConnPaired, UsersPaired, ReplyIsOwn,
       OwedTo
<1>7. EventsFlow'
  BY Names DEF Backoff, Goto, clientVars, lockVars, EslInv, EslTypes, EventsFlow, RepliesPaired, ConnPaired, UsersPaired,
       OwedTo, LocksHeld, Holding, Sending, Quiet, Retired, Installed, ConnsPlaced
<1>8. ReadyIsSubscribed'
  BY Names DEF Backoff, Goto, clientVars, lockVars, EslInv, EslTypes, EventsFlow,
       ReadyIsSubscribed, ConnsPlaced, Installed
<1> QED BY <1>1, <1>2, <1>3, <1>4, <1>5, <1>6, <1>7, <1>8 DEF EslInv

LEMMA GivesUpKeeps ==
    ASSUME EslInv, GivesUp
    PROVE  EslInv'
<1>1. EslTypes'
  BY Names DEF GivesUp, Goto, clientVars, lockVars, EslInv, EslTypes, Disconnecting, Sending,
       Holding, Labels
<1>2. ConnsPlaced'
  BY Names DEF GivesUp, Goto, clientVars, lockVars, EslInv, EslTypes, ConnsPlaced, Installed,
       Holding, Sending
<1>3. LocksHeld'
  BY Names DEF GivesUp, Goto, clientVars, lockVars, EslInv, EslTypes, LocksHeld, Holding
<1>4. Retired'
  BY Names DEF GivesUp, Goto, clientVars, lockVars, EslInv, EslTypes, ConnsPlaced, Installed,
       Retired, Target
<1>5. RepliesPaired'
  BY Names DEF GivesUp, Goto, clientVars, lockVars, EslInv, EslTypes, RepliesPaired, ConnPaired, UsersPaired, LocksHeld,
       Holding, Quiet, OwedTo, Retired, Installed, ConnsPlaced
<1>6. ReplyIsOwn'
  BY Names DEF GivesUp, Goto, clientVars, lockVars, EslInv, EslTypes, RepliesPaired, ConnPaired, UsersPaired, ReplyIsOwn,
       OwedTo
<1>7. EventsFlow'
  BY Names DEF GivesUp, Goto, clientVars, lockVars, EslInv, EslTypes, EventsFlow, RepliesPaired, ConnPaired, UsersPaired,
       OwedTo, LocksHeld, Holding, Sending, Quiet, Retired, Installed, ConnsPlaced
<1>8. ReadyIsSubscribed'
  BY Names DEF GivesUp, Goto, clientVars, lockVars, EslInv, EslTypes, EventsFlow,
       ReadyIsSubscribed, ConnsPlaced, Installed
<1> QED BY <1>1, <1>2, <1>3, <1>4, <1>5, <1>6, <1>7, <1>8 DEF EslInv

LEMMA ReconnectLoopReturnsKeeps ==
    ASSUME EslInv, reconnectLoopReturns
    PROVE  EslInv'
<1>1. EslTypes'
  BY ZenonT(60), Names DEF reconnectLoopReturns, Goto, clientVars, lockVars, EslInv, EslTypes,
       Disconnecting, Sending, Holding, Labels
<1>2. ConnsPlaced'
  BY Names DEF reconnectLoopReturns, Goto, clientVars, lockVars, EslInv, EslTypes, ConnsPlaced,
       Installed, Holding, Sending
<1>3. LocksHeld'
  BY Names DEF reconnectLoopReturns, Goto, clientVars, lockVars, EslInv, EslTypes, LocksHeld,
       Holding
<1>4. Retired'
  BY Names DEF reconnectLoopReturns, Goto, clientVars, lockVars, EslInv, EslTypes, ConnsPlaced,
       Installed, Retired, Target
<1>5. RepliesPaired'
  BY Names DEF reconnectLoopReturns, Goto, clientVars, lockVars, EslInv, EslTypes,
       RepliesPaired, ConnPaired, UsersPaired, LocksHeld, Holding, Quiet, OwedTo, Retired, Installed, ConnsPlaced
<1>6. ReplyIsOwn'
  BY Names DEF reconnectLoopReturns, Goto, clientVars, lockVars, EslInv, EslTypes,
       RepliesPaired, ConnPaired, UsersPaired, ReplyIsOwn, OwedTo
<1>7. EventsFlow'
  BY Names DEF reconnectLoopReturns, Goto, clientVars, lockVars, EslInv, EslTypes, EventsFlow,
       RepliesPaired, ConnPaired, UsersPaired, OwedTo, LocksHeld, Holding, Sending, Quiet, Retired, Installed,
       ConnsPlaced
<1>8. ReadyIsSubscribed'
  BY Names DEF reconnectLoopReturns, Goto, clientVars, lockVars, EslInv, EslTypes, EventsFlow,
       ReadyIsSubscribed, ConnsPlaced, Installed
<1> QED BY <1>1, <1>2, <1>3, <1>4, <1>5, <1>6, <1>7, <1>8 DEF EslInv

LEMMA CommandKeeps ==
    ASSUME EslInv, NEW p \in Callers, Command(p)
    PROVE  EslInv'
<1>1. EslTypes'
  BY Names DEF Command, Goto, clientVars, lockVars, EslInv, EslTypes, Disconnecting, Sending,
       Holding, Labels
<1>2. ConnsPlaced'
  BY Names DEF Command, Goto, clientVars, lockVars, EslInv, EslTypes, ConnsPlaced, Installed,
       Holding, Sending
<1>3. LocksHeld'
  BY Names DEF Command, Goto, clientVars, lockVars, EslInv, EslTypes, LocksHeld, Holding
<1>4. Retired'
  BY Names DEF Command, Goto, clientVars, lockVars, EslInv, EslTypes, ConnsPlaced, Installed,
       Retired, Target
<1>5. RepliesPaired'
  BY Names DEF Command, Goto, clientVars, lockVars, EslInv, EslTypes, RepliesPaired, ConnPaired, UsersPaired, LocksHeld,
       Holding, Quiet, OwedTo, Retired, Installed, ConnsPlaced
<1>6. ReplyIsOwn'
  BY Names DEF Command, Goto, clientVars, lockVars, EslInv, EslTypes, RepliesPaired, ConnPaired, UsersPaired, ReplyIsOwn,
       OwedTo
<1>7. EventsFlow'
  BY Names DEF Command, Goto, clientVars, lockVars, EslInv, EslTypes, EventsFlow, RepliesPaired, ConnPaired, UsersPaired,
       OwedTo, LocksHeld, Holding, Sending, Quiet, Retired, Installed, ConnsPlaced
<1>8. ReadyIsSubscribed'
  BY Names DEF Command, Goto, clientVars, lockVars, EslInv, EslTypes, EventsFlow,
       ReadyIsSubscribed, ConnsPlaced, Installed
<1> QED BY <1>1, <1>2, <1>3, <1>4, <1>5, <1>6, <1>7, <1>8 DEF EslInv

LEMMA SubscribeKeeps ==
    ASSUME EslInv, Subscribe
    PROVE  EslInv'
<1>1. EslTypes'
  BY Names DEF Subscribe, Goto, clientVars, lockVars, EslInv, EslTypes, Disconnecting, Sending,
       Holding, Labels
<1>2. ConnsPlaced'
  BY Names DEF Subscribe, Goto, clientVars, lockVars, EslInv, EslTypes, ConnsPlaced, Installed,
       Holding, Sending
<1>3. LocksHeld'
  BY Names DEF Subscribe, Goto, clientVars, lockVars, EslInv, EslTypes, LocksHeld, Holding
<1>4. Retired'
  BY Names DEF Subscribe, Goto, clientVars, lockVars, EslInv, EslTypes, ConnsPlaced, Installed,
       Retired, Target
<1>5. RepliesPaired'
  BY Names DEF Subscribe, Goto, clientVars, lockVars, EslInv, EslTypes, RepliesPaired, ConnPaired, UsersPaired,
       LocksHeld, Holding, Quiet, OwedTo, Retired, Installed, ConnsPlaced
<1>6. ReplyIsOwn'
  BY Names DEF Subscribe, Goto, clientVars, lockVars, EslInv, EslTypes, RepliesPaired, ConnPaired, UsersPaired,
       ReplyIsOwn, OwedTo
<1>7. EventsFlow'
  BY Names DEF Subscribe, Goto, clientVars, lockVars, EslInv, EslTypes, EventsFlow,
       RepliesPaired, ConnPaired, UsersPaired, OwedTo, LocksHeld, Holding, Sending, Quiet, Retired, Installed,
       ConnsPlaced
<1>8. ReadyIsSubscribed'
  BY Names DEF Subscribe, Goto, clientVars, lockVars, EslInv, EslTypes, EventsFlow,
       ReadyIsSubscribed, ConnsPlaced, Installed
<1> QED BY <1>1, <1>2, <1>3, <1>4, <1>5, <1>6, <1>7, <1>8 DEF EslInv

LEMMA SubscribeEndsKeeps ==
    ASSUME EslInv, SubscribeEnds
    PROVE  EslInv'
<1>1. EslTypes'
  BY Names DEF SubscribeEnds, Goto, clientVars, lockVars, EslInv, EslTypes, Disconnecting,
       Sending, Holding, Labels
<1>2. ConnsPlaced'
  BY Names DEF SubscribeEnds, Goto, clientVars, lockVars, EslInv, EslTypes, ConnsPlaced,
       Installed, Holding, Sending
<1>3. LocksHeld'
  BY Names DEF SubscribeEnds, Goto, clientVars, lockVars, EslInv, EslTypes, LocksHeld, Holding
<1>4. Retired'
  BY Names DEF SubscribeEnds, Goto, clientVars, lockVars, EslInv, EslTypes, ConnsPlaced,
       Installed, Retired, Target
<1>5. RepliesPaired'
  BY Names DEF SubscribeEnds, Goto, clientVars, lockVars, EslInv, EslTypes, RepliesPaired, ConnPaired, UsersPaired,
       LocksHeld, Holding, Quiet, OwedTo, Retired, Installed, ConnsPlaced
<1>6. ReplyIsOwn'
  BY Names DEF SubscribeEnds, Goto, clientVars, lockVars, EslInv, EslTypes, RepliesPaired, ConnPaired, UsersPaired,
       ReplyIsOwn, OwedTo
<1>7. EventsFlow'
  BY Names DEF SubscribeEnds, Goto, clientVars, lockVars, EslInv, EslTypes, EventsFlow,
       RepliesPaired, ConnPaired, UsersPaired, OwedTo, LocksHeld, Holding, Sending, Quiet, Retired, Installed,
       ConnsPlaced
<1>8. ReadyIsSubscribed'
  BY Names DEF SubscribeEnds, Goto, clientVars, lockVars, EslInv, EslTypes, EventsFlow,
       ReadyIsSubscribed, ConnsPlaced, Installed
<1> QED BY <1>1, <1>2, <1>3, <1>4, <1>5, <1>6, <1>7, <1>8 DEF EslInv

LEMMA CloseKeeps ==
    ASSUME EslInv, Close
    PROVE  EslInv'
<1>1. EslTypes'
  BY Names DEF Close, clientVars, lockVars, EslInv, EslTypes, Disconnecting, Sending, Holding,
       Labels
<1>2. ConnsPlaced'
  BY Names DEF Close, clientVars, lockVars, EslInv, EslTypes, ConnsPlaced, Installed, Holding,
       Sending
<1>3. LocksHeld'
  BY Names DEF Close, clientVars, lockVars, EslInv, EslTypes, LocksHeld, Holding
<1>4. Retired'
  BY Names DEF Close, clientVars, lockVars, EslInv, EslTypes, ConnsPlaced, Installed, Retired,
       Target
<1>5. RepliesPaired'
  BY Names DEF Close, clientVars, lockVars, EslInv, EslTypes, RepliesPaired, ConnPaired, UsersPaired, LocksHeld, Holding,
       Quiet, OwedTo, Retired, Installed, ConnsPlaced
<1>6. ReplyIsOwn'
  BY Names DEF Close, clientVars, lockVars, EslInv, EslTypes, RepliesPaired, ConnPaired, UsersPaired, ReplyIsOwn, OwedTo
<1>7. EventsFlow'
  BY Names DEF Close, clientVars, lockVars, EslInv, EslTypes, EventsFlow, RepliesPaired, ConnPaired, UsersPaired, OwedTo,
       LocksHeld, Holding, Sending, Quiet, Retired, Installed, ConnsPlaced
<1>8. ReadyIsSubscribed'
  BY Names DEF Close, clientVars, lockVars, EslInv, EslTypes, EventsFlow, ReadyIsSubscribed,
       ConnsPlaced, Installed
<1> QED BY <1>1, <1>2, <1>3, <1>4, <1>5, <1>6, <1>7, <1>8 DEF EslInv

LEMMA CloseCancelsKeeps ==
    ASSUME EslInv, CloseCancels
    PROVE  EslInv'
<1>1. closer.k \in Conns \cup {NoConn} /\ (closer.k # NoConn => pc[closer.k] # "idle")
  BY DEF EslInv, ConnsPlaced, Installed, EslTypes
<1>2. CASE closer.k # NoConn
  <2>1. LinkNow(closer.k, "closed", <<>>, link[closer.k].events)
    BY <1>2, <1>1, LinkCloses DEF CloseCancels, EslInv, EslTypes
  <2>2. EslTypes'
    BY <1>2, <1>1, <2>1, Names DEF CloseCancels, LinkNow, clientVars, lockVars, EslInv,
         EslTypes, Disconnecting, Sending, Holding, Labels
  <2>3. ConnsPlaced'
    BY <1>2, <1>1, <2>1, Names DEF CloseCancels, LinkNow, clientVars, lockVars, EslInv,
         EslTypes, ConnsPlaced, Installed, Holding, Sending
  <2>4. LocksHeld'
    BY <1>2, <1>1, <2>1, Names DEF CloseCancels, LinkNow, clientVars, lockVars, EslInv,
         EslTypes, LocksHeld, Holding
  <2>5. Retired'
    BY <1>2, <1>1, <2>1, Names DEF CloseCancels, LinkNow, clientVars, lockVars, EslInv,
         EslTypes, ConnsPlaced, Installed, Retired, Target
  <2>6. RepliesPaired'
    BY <1>2, <1>1, <2>1, Names DEF CloseCancels, LinkNow, clientVars, lockVars, EslInv,
         EslTypes, RepliesPaired, ConnPaired, UsersPaired, LocksHeld, Holding, Quiet, OwedTo, Retired, Installed,
         ConnsPlaced
  <2>7. ReplyIsOwn'
    BY <1>2, <1>1, <2>1, Names DEF CloseCancels, LinkNow, clientVars, lockVars, EslInv,
         EslTypes, RepliesPaired, ConnPaired, UsersPaired, ReplyIsOwn, OwedTo
  <2>8. EventsFlow'
    BY <1>2, <1>1, <2>1, Names DEF CloseCancels, LinkNow, clientVars, lockVars, EslInv,
         EslTypes, EventsFlow, RepliesPaired, ConnPaired, UsersPaired, OwedTo, LocksHeld, Holding, Sending, Quiet,
         Retired, Installed, ConnsPlaced
  <2>9. ReadyIsSubscribed'
    BY <1>2, <1>1, <2>1, Names DEF CloseCancels, LinkNow, clientVars, lockVars, EslInv,
         EslTypes, EventsFlow, ReadyIsSubscribed, ConnsPlaced, Installed
  <2> QED BY <2>2, <2>3, <2>4, <2>5, <2>6, <2>7, <2>8, <2>9 DEF EslInv
<1>3. CASE closer.k = NoConn
  <2>1. EslTypes'
    BY <1>3, <1>1, Names DEF CloseCancels, clientVars, lockVars, EslInv, EslTypes,
         Disconnecting, Sending, Holding, Labels
  <2>2. ConnsPlaced'
    BY <1>3, <1>1, Names DEF CloseCancels, clientVars, lockVars, EslInv, EslTypes, ConnsPlaced,
         Installed, Holding, Sending
  <2>3. LocksHeld'
    BY <1>3, <1>1, Names DEF CloseCancels, clientVars, lockVars, EslInv, EslTypes, LocksHeld,
         Holding
  <2>4. Retired'
    BY <1>3, <1>1, Names DEF CloseCancels, clientVars, lockVars, EslInv, EslTypes, ConnsPlaced,
         Installed, Retired, Target
  <2>5. RepliesPaired'
    BY <1>3, <1>1, Names DEF CloseCancels, clientVars, lockVars, EslInv, EslTypes,
         RepliesPaired, ConnPaired, UsersPaired, LocksHeld, Holding, Quiet, OwedTo, Retired, Installed, ConnsPlaced
  <2>6. ReplyIsOwn'
    BY <1>3, <1>1, Names DEF CloseCancels, clientVars, lockVars, EslInv, EslTypes,
         RepliesPaired, ConnPaired, UsersPaired, ReplyIsOwn, OwedTo
  <2>7. EventsFlow'
    BY <1>3, <1>1, Names DEF CloseCancels, clientVars, lockVars, EslInv, EslTypes, EventsFlow,
         RepliesPaired, ConnPaired, UsersPaired, OwedTo, LocksHeld, Holding, Sending, Quiet, Retired, Installed,
         ConnsPlaced
  <2>8. ReadyIsSubscribed'
    BY <1>3, <1>1, Names DEF CloseCancels, clientVars, lockVars, EslInv, EslTypes, EventsFlow,
         ReadyIsSubscribed, ConnsPlaced, Installed
  <2> QED BY <2>1, <2>2, <2>3, <2>4, <2>5, <2>6, <2>7, <2>8 DEF EslInv
<1> QED BY <1>2, <1>3

LEMMA CloseReturnsKeeps ==
    ASSUME EslInv, CloseReturns
    PROVE  EslInv'
<1>1. EslTypes'
  BY Names DEF CloseReturns, clientVars, lockVars, EslInv, EslTypes, Disconnecting, Sending,
       Holding, Labels
<1>2. ConnsPlaced'
  BY Names DEF CloseReturns, clientVars, lockVars, EslInv, EslTypes, ConnsPlaced, Installed,
       Holding, Sending
<1>3. LocksHeld'
  BY Names DEF CloseReturns, clientVars, lockVars, EslInv, EslTypes, LocksHeld, Holding
<1>4. Retired'
  BY Names DEF CloseReturns, clientVars, lockVars, EslInv, EslTypes, ConnsPlaced, Installed,
       Retired, Target
<1>5. RepliesPaired'
  BY Names DEF CloseReturns, clientVars, lockVars, EslInv, EslTypes, RepliesPaired, ConnPaired, UsersPaired, LocksHeld,
       Holding, Quiet, OwedTo, Retired, Installed, ConnsPlaced
<1>6. ReplyIsOwn'
  BY Names DEF CloseReturns, clientVars, lockVars, EslInv, EslTypes, RepliesPaired, ConnPaired, UsersPaired, ReplyIsOwn,
       OwedTo
<1>7. EventsFlow'
  BY Names DEF CloseReturns, clientVars, lockVars, EslInv, EslTypes, EventsFlow, RepliesPaired, ConnPaired, UsersPaired,
       OwedTo, LocksHeld, Holding, Sending, Quiet, Retired, Installed, ConnsPlaced
<1>8. ReadyIsSubscribed'
  BY Names DEF CloseReturns, clientVars, lockVars, EslInv, EslTypes, EventsFlow,
       ReadyIsSubscribed, ConnsPlaced, Installed
<1> QED BY <1>1, <1>2, <1>3, <1>4, <1>5, <1>6, <1>7, <1>8 DEF EslInv

\* Every step keeps the invariant.
LEMMA EslStep ==
    ASSUME EslInv, [Next]_vars
    PROVE  EslInv'
<1>1. CASE \E p \in Users : CommandStep(p)
  BY <1>1, LockKeeps, WriteKeeps, ReplyKeeps, GiveUpKeeps DEF CommandStep
<1>2. CASE \E g \in Goroutines : DisconnectStep(g)
  BY <1>2, RetireKeeps, ShutKeeps, StartReconnectKeeps DEF DisconnectStep
<1>3. CASE \E k \in Conns : ReadStep(k) \/ LinkLost(k)
  BY <1>3, ReadFrameKeeps, ReadFailsKeeps, ReplyDroppedKeeps, LinkLostKeeps DEF ReadStep
<1>4. CASE \E x \in Connectors : ConnectStep(x)
  BY <1>4, DialKeeps, InstallConnectionKeeps, RestoreSubscriptionsKeeps, RestoreEndsKeeps,
     BecomeReadyKeeps DEF ConnectStep
<1>5. CASE Backoff \/ GivesUp \/ reconnectLoopReturns
  BY <1>5, BackoffKeeps, GivesUpKeeps, ReconnectLoopReturnsKeeps
<1>6. CASE \/ \E p \in Callers : Command(p)
           \/ Subscribe \/ SubscribeEnds \/ Close \/ CloseStep
  BY <1>6, CommandKeeps, SubscribeKeeps, SubscribeEndsKeeps, CloseKeeps, CloseCancelsKeeps,
     CloseReturnsKeeps DEF CloseStep
<1>7. CASE UNCHANGED vars
  <2>1. UNCHANGED <<conn, ready, reconnecting, commandMu, subscriptionsMu, subscribed, link, done, pc,
                    at, got, dialed, closer>>
    BY <1>7 DEF vars, clientVars, lockVars
  <2>2. EslTypes' /\ ConnsPlaced' /\ LocksHeld'
    BY <2>1 DEF EslInv, EslTypes, ConnsPlaced, LocksHeld, Installed
  <2>3. Retired' /\ RepliesPaired' /\ ReplyIsOwn'
    BY <2>1 DEF EslInv, Retired, RepliesPaired, ConnPaired, UsersPaired, ReplyIsOwn, Quiet, OwedTo, Target
  <2>4. EventsFlow' /\ ReadyIsSubscribed'
    BY <2>1 DEF EslInv, EventsFlow, ReadyIsSubscribed, Quiet
  <2> QED BY <2>2, <2>3, <2>4 DEF EslInv
<1> QED BY <1>1, <1>2, <1>3, <1>4, <1>5, <1>6, <1>7 DEF Next

LEMMA EslStart == Init => EslInv
<1> SUFFICES ASSUME Init PROVE EslInv
  OBVIOUS
<1>1. link \in [Conns -> Links] /\ \A k \in Conns : link[k].frames = <<>>
  <2>1. NoLink \in Links /\ NoLink.frames = <<>>
    BY DEF NoLink, Links
  <2> QED BY <2>1 DEF Init
<1>2. /\ pc \in [Goroutines -> Labels] /\ pc["main"] = "dial" /\ pc["loop"] = "idle" /\ pc["sub"] = "idle"
      /\ \A g \in Goroutines : pc[g] = "idle" \/ (g = "main" /\ pc[g] = "dial")
  BY Names DEF Init, Labels
<1>3. \A k \in Conns : pc[k] = "idle"
  BY <1>2, Names
<1>4. closer \in [pc : {"idle", "cancel", "wait", "returned"}, k : Conns \cup {NoConn}] /\ closer.k = NoConn
  BY DEF Init
<1>5. EslTypes
  BY <1>1, <1>2, <1>3, <1>4, Names DEF Init, EslTypes
<1>6. ConnsPlaced /\ LocksHeld
  BY <1>1, <1>2, <1>3, <1>4, Names DEF Init, ConnsPlaced, LocksHeld, Installed, Holding, Sending
<1>7. Retired /\ ReplyIsOwn
  BY <1>2, Names DEF Init, Retired, ReplyIsOwn
<1>8. RepliesPaired
  BY <1>2, Names DEF Init, RepliesPaired, ConnPaired, UsersPaired
<1>9. EventsFlow /\ ReadyIsSubscribed
  BY <1>2, Names DEF Init, EventsFlow, ReadyIsSubscribed, Holding
<1> QED BY <1>5, <1>6, <1>7, <1>8, <1>9 DEF EslInv

\* Replies carry no id and are paired with commands by order alone.  Whoever
\* times out, whichever goroutine finds the connection broken first and however
\* many replacements follow, no command gets the reply to another (command,
\* disconnect, readLoop).
THEOREM RepliesAreOwn == Spec => []ReplyIsOwn
<1>1. EslInv => ReplyIsOwn
  BY DEF EslInv
<1> QED BY <1>1, EslStart, EslStep, PTL DEF Spec

\* A client that is ready and has a subscription has sent it on the connection
\* it has, although Subscribe, Connect and the reconnect loop may each see the
\* connection change under them (Subscribe, restoreSubscriptions).
THEOREM ReadyMeansSubscribed == Spec => []ReadyIsSubscribed
<1>1. EslInv => ReadyIsSubscribed
  BY DEF EslInv
<1> QED BY <1>1, EslStart, EslStep, PTL DEF Spec
=============================================================================
