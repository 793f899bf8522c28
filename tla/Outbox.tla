------------------------------- MODULE Outbox -------------------------------
(***************************************************************************)
(* The transactional outbox and its publisher jobs.                        *)
(*                                                                         *)
(* Every worker runs a PublisherJob: it claims a batch of due rows by      *)
(* locking them, publishes them one after the other and marks each one.    *)
(* A lock is a column, not a transaction: it outlives a crash and is taken *)
(* away from a slow worker once it is LockTimeout old.  It names nobody:   *)
(* every worker uses the id "worker-outbox", and neither MarkPublished nor *)
(* MarkFailed looks at it.  A job that meets a database error ends its     *)
(* worker process, which is then restarted.                                *)
(*                                                                         *)
(* Clocks are nondeterministic: a lock grows stale, and a retry falls due, *)
(* at any moment after it was written.                                     *)
(***************************************************************************)
EXTENDS Naturals, FiniteSets

CONSTANTS
    Events,      \* outbox event ids
    Workers,     \* worker processes
    BatchSize,   \* PublisherJobConfig.BatchSize
    MaxFaults    \* bound: crashes, failed publications and database errors

ASSUME OutboxAssumption ==
    BatchSize \in Nat \ {0} /\ MaxFaults \in Nat

VARIABLES
    outbox,      \* outbox_events
    publisher,   \* the PublisherJob of each worker: pc and the rest of its batch
    stream,      \* events JetStream has stored
    faults       \* faults so far

outboxVars == <<outbox, publisher, stream, faults>>

OutboxRows == [st : {"none", "pending", "published"}, locked : BOOLEAN,
               stale : BOOLEAN, due : BOOLEAN]
NoEventRow == [st |-> "none", locked |-> FALSE, stale |-> FALSE, due |-> TRUE]

PublisherPCs == {"down", "start", "poll", "publish", "mark", "fail"}
Publishers == [pc : PublisherPCs, batch : SUBSET Events, cur : SUBSET Events]
Down == [pc |-> "down", batch |-> {}, cur |-> {}]

OutboxInit ==
    /\ outbox = [e \in Events |-> NoEventRow]
    /\ publisher = [w \in Workers |-> [Down EXCEPT !.pc = "start"]]
    /\ stream = {}
    /\ faults = 0

\* One of the finitely many faults of a behaviour happens.
Fault == faults < MaxFaults /\ faults' = faults + 1

\* Unlocked rows as an UPDATE leaves them.
UnlockedRow(r) == [r EXCEPT !.locked = FALSE, !.stale = FALSE]

\* InsertOutboxEvent, in the transaction of a domain change.
InsertEvent(e) ==
    /\ outbox[e].st = "none"
    /\ outbox' = [outbox EXCEPT ![e].st = "pending"]
    /\ UNCHANGED <<publisher, stream, faults>>

\* LockTimeout has passed since the row was claimed.
LockGrowsStale(e) ==
    /\ outbox[e].locked /\ ~outbox[e].stale
    /\ outbox' = [outbox EXCEPT ![e].stale = TRUE]
    /\ UNCHANGED <<publisher, stream, faults>>

\* available_at has come.
FallsDue(e) ==
    /\ ~outbox[e].due
    /\ outbox' = [outbox EXCEPT ![e].due = TRUE]
    /\ UNCHANGED <<publisher, stream, faults>>

-----------------------------------------------------------------------------
JobFails(w) == Fault /\ publisher' = [publisher EXCEPT ![w] = Down]

\* ReleaseStaleLocks, when Run starts and on the stale ticker.
StaleReleased ==
    [e \in Events |-> IF outbox[e].st = "pending" /\ outbox[e].stale
                      THEN UnlockedRow(outbox[e]) ELSE outbox[e]]

ReleaseStaleLocks(w) ==
    /\ publisher[w].pc \in {"start", "poll"}
    /\ \/ /\ outbox' = StaleReleased
          /\ publisher' = [publisher EXCEPT ![w].pc = "poll"]
          /\ UNCHANGED faults
       \/ JobFails(w) /\ UNCHANGED outbox
    /\ UNCHANGED stream

Claimable == {e \in Events : /\ outbox[e].st = "pending"
                             /\ ~outbox[e].locked
                             /\ outbox[e].due}

\* ClaimPendingEvents: as many due rows as the batch holds.
ClaimPending(w) ==
    /\ publisher[w].pc = "poll" /\ Claimable # {}
    /\ \E batch \in SUBSET Claimable :
          /\ \/ Cardinality(batch) = BatchSize
             \/ Cardinality(batch) < BatchSize /\ batch = Claimable
          /\ outbox' = [e \in Events |-> IF e \in batch
                           THEN [outbox[e] EXCEPT !.locked = TRUE] ELSE outbox[e]]
          /\ \/ publisher' = [publisher EXCEPT ![w] =
                                 [pc |-> "publish", batch |-> batch, cur |-> {}]]
                /\ UNCHANGED faults
             \/ JobFails(w)
    /\ UNCHANGED stream

\* Mutant: the row is marked although the publication failed.
PublishThenMark(w) ==
    /\ publisher[w].pc = "publish"
    /\ \E e \in publisher[w].batch :
          /\ stream' \in {stream, stream \cup {e}}
          /\ publisher' = [publisher EXCEPT ![w] =
                [pc |-> "mark", batch |-> publisher[w].batch \ {e}, cur |-> {e}]]
    /\ UNCHANGED <<outbox, faults>>

\* publisher.Publish: JetStream acknowledges, or the call fails and the message
\* may be stored all the same.
Publish(w) ==
    /\ publisher[w].pc = "publish"
    /\ \E e \in publisher[w].batch :
          LET Next(pc) == publisher' = [publisher EXCEPT ![w] =
                [pc |-> pc, batch |-> publisher[w].batch \ {e}, cur |-> {e}]]
          IN  \/ stream' = stream \cup {e} /\ Next("mark") /\ UNCHANGED faults
              \/ stream' \in {stream, stream \cup {e}} /\ Next("fail") /\ Fault
    /\ UNCHANGED outbox

\* The loop goes on with the batch, or waits for the next tick.
NextInBatch(w) ==
    publisher' = [publisher EXCEPT ![w].cur = {},
                     ![w].pc = IF publisher[w].batch = {} THEN "poll" ELSE "publish"]

\* A row's UPDATE, and the error that ends the job whether or not it committed.
Update(w, rows) ==
    /\ \/ outbox' = rows /\ NextInBatch(w) /\ UNCHANGED faults
       \/ outbox' \in {outbox, rows} /\ JobFails(w)
    /\ UNCHANGED stream

\* MarkEventPublished and MarkEventFailed: any worker, unless published.
MarkPublished(w) ==
    /\ publisher[w].pc = "mark"
    /\ \E e \in publisher[w].cur :
          Update(w, IF outbox[e].st = "pending"
                    THEN [outbox EXCEPT ![e] = [UnlockedRow(@) EXCEPT !.st = "published"]]
                    ELSE outbox)

MarkFailed(w) ==
    /\ publisher[w].pc = "fail"
    /\ \E e \in publisher[w].cur :
          Update(w, IF outbox[e].st = "pending"
                    THEN [outbox EXCEPT ![e] = [UnlockedRow(@) EXCEPT !.due = FALSE]]
                    ELSE outbox)

\* The worker process dies, and is started again.
Crash(w) ==
    /\ publisher[w].pc # "down"
    /\ JobFails(w)
    /\ UNCHANGED <<outbox, stream>>

Restart(w) ==
    /\ publisher[w].pc = "down"
    /\ publisher' = [publisher EXCEPT ![w].pc = "start"]
    /\ UNCHANGED <<outbox, stream, faults>>

\* The other jobs of the processes: one may meet a fault, and one that returns an
\* error ends the publisher of its process.
OtherJobs ==
    /\ publisher' \in {publisher} \cup {[publisher EXCEPT ![w] = Down] : w \in Workers}
    /\ (UNCHANGED faults) \/ Fault
    /\ UNCHANGED <<outbox, stream>>

PublishBatch(w) == ClaimPending(w) \/ Publish(w) \/ MarkPublished(w) \/ MarkFailed(w)

OutboxNext ==
    \/ \E e \in Events : InsertEvent(e) \/ LockGrowsStale(e) \/ FallsDue(e)
    \/ \E w \in Workers : \/ ReleaseStaleLocks(w) \/ PublishBatch(w)
                          \/ Crash(w) \/ Restart(w)
    \/ OtherJobs

OutboxSpec == OutboxInit /\ [][OutboxNext]_outboxVars
-----------------------------------------------------------------------------
OutboxTypeOK ==
    /\ outbox \in [Events -> OutboxRows]
    /\ publisher \in [Workers -> Publishers]
    /\ stream \subseteq Events
    /\ faults \in 0..MaxFaults

\* A row marked published really is in the stream: no interleaving of stale
\* workers, lost acknowledgements and crashes drops a domain event.
PublishedIsStored == \A e \in Events : outbox[e].st = "published" => e \in stream
=============================================================================
