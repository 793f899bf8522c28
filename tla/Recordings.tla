---------------------------- MODULE Recordings ----------------------------
(***************************************************************************)
(* telephony/recordings: from FreeSWITCH's RECORD_START and RECORD_STOP to  *)
(* the object in the bucket and to its deletion.  FreeSWITCH writes a file  *)
(* into the staging volume; the consumers of every worker observe its       *)
(* events (late, twice, out of order, or never) and keep a row; the         *)
(* ingestion job of every worker claims due rows under a lease, pins a      *)
(* destination, copies the file there, completes the row and removes the    *)
(* file; the reconciliation job readies rows whose stop event was lost;     *)
(* deletion removes the object and then marks the row.  Every statement is  *)
(* a step, an upload lease may run out while its holder still uploads, and  *)
(* a worker may crash between any two steps.                                *)
(***************************************************************************)
EXTENDS StorageIntegrations

CONSTANTS Paths,             \* staged files; a row is found by (call, source_path)
          NoPath,            \* the id of sqlc.Recording{}: uuid.Nil
          Workers,           \* ingestion jobs
          Handles,           \* goroutines handling ESL events, and each one's event
          Deleters,          \* DELETE requests and retention passes in flight
          MaxAttempts,       \* IngestionConfig.MaxAttempts
          MaxFaults          \* bound: failed calls and crashes in one behaviour

ASSUME RecordingsAssumption == /\ MaxAttempts \in Nat \ {0}
                               /\ MaxFaults \in Nat
                               /\ NoPath \notin Paths /\ IsFiniteSet(Paths)
                               /\ \A h \in DOMAIN Handles :
                                     Handles[h] \in {"RECORD_START", "RECORD_STOP"}
                               /\ NoDest \notin Integrations \cup {Managed}

VARIABLES row,               \* the recordings table, by path
          media,             \* the staged file: none, writing, staged, removed
          ended,             \* the call's row is terminal
          object,            \* the (path, destination) pairs present in some bucket
          upload,            \* each worker's pass: step, rows claimed, row at hand
          handler, deleter,  \* the goroutines' steps
          published,         \* outbox events of each recording, in order
          asked,             \* recordings whose deletion somebody asked for
          faults

Handlers == DOMAIN Handles
Stops(h) == Handles[h] = "RECORD_STOP"

recVars == <<row, media, ended, object, upload, handler, deleter, published, asked, faults>>

Dests == Integrations \cup {Managed}
Recording == [status : {"none", "recording", "uploading", "completed", "failed", "deleted"},
              dest : Dests \cup {NoDest}, attempts : Nat, due : BOOLEAN]
NoRow == [status |-> "none", dest |-> NoDest, attempts |-> 0, due |-> FALSE]
Claimed(p) == [id |-> p, dest |-> row[p].dest, attempts |-> row[p].attempts]
ZeroRecording == [id |-> NoPath, dest |-> NoDest, attempts |-> 0]

IdleUpload == [pc |-> "idle", queue |-> <<>>, item |-> ZeroRecording]
IdleHandler == [pc |-> "idle", path |-> NoPath]
IdleDeleter == [pc |-> "idle", path |-> NoPath, dest |-> NoDest]

RecInit ==
    /\ IntegrationInit
    /\ row = [p \in Paths |-> NoRow]
    /\ media = [p \in Paths |-> "none"]
    /\ ended = [p \in Paths |-> FALSE]
    /\ object = {}
    /\ upload = [w \in Workers |-> IdleUpload]
    /\ handler = [h \in Handlers |-> IdleHandler]
    /\ deleter = [d \in Deleters |-> IdleDeleter]
    /\ published = [p \in Paths |-> <<>>]
    /\ asked = {}
    /\ faults = 0

Fault == faults < MaxFaults /\ faults' = faults + 1
NoFault == UNCHANGED faults

-----------------------------------------------------------------------------
\* The statements of recordings.sql, on the row they address.

CreateRecording(r) ==          \* uq_recordings_call_source_path: one row per path
    Returning(r.status = "none", [NoRow EXCEPT !.status = "recording"])

MarkRecordingReadyForUpload(r) ==
    Returning(r.status = "recording", [r EXCEPT !.status = "uploading", !.due = TRUE])

ListRecordingsForUpload(r) ==  \* the claim: next_upload_at moves to the lease's end
    Returning(r.status = "uploading" /\ r.due, [r EXCEPT !.due = FALSE])

RetryRecordingUpload(r) ==
    Returning(r.status = "uploading", [r EXCEPT !.attempts = @ + 1, !.due = FALSE])

PinRecordingUpload(r, dest) ==
    Returning(r.status = "uploading" /\ r.dest = NoDest, [r EXCEPT !.dest = dest])

CompleteRecording(r, dest) ==  \* the storage columns are COALESCEd
    Returning(r.status \in {"recording", "uploading"},
              [r EXCEPT !.status = "completed", !.due = FALSE,
                        !.dest = IF dest = Managed THEN Coalesce(r.dest, Managed, NoDest)
                                 ELSE dest])

FailRecording(r) ==
    Returning(r.status \in {"recording", "uploading"}, [r EXCEPT !.status = "failed"])

\* Mutant: without status <> 'deleted'.
DeleteRecordingAgain(r) == Returning(TRUE, [r EXCEPT !.status = "deleted"])

DeleteRecording(r) == Returning(r.status # "deleted", [r EXCEPT !.status = "deleted"])

GetRecordingByCallStorageKey(p) == Returning(row[p].status # "none", row[p])
GetRecordingIncludingDeleted(p) == Returning(row[p].status # "none", row[p])

\* Mutant: looks for rows the stop event has already moved on.
ListRecordingsReadied == {p \in Paths : row[p].status = "uploading" /\ ended[p]}

ListRecordingsForReconciliation ==
    {p \in Paths : row[p].status = "recording" /\ ended[p]}

-----------------------------------------------------------------------------
\* The repository: a mutation and its outbox event commit together.

Write(p, r) == row' = [row EXCEPT ![p] = r] /\ UNCHANGED published
mutate(p, r, event) == /\ row' = [row EXCEPT ![p] = r]
                       /\ published' = [published EXCEPT ![p] = Append(@, event)]

Start(p) == \E r \in CreateRecording(row[p]) : mutate(p, r, "started")
CompleteUpload(p, dest) ==
    \E r \in CompleteRecording(row[p], dest) : mutate(p, r, "completed")
Fail(p) == \E r \in FailRecording(row[p]) : mutate(p, r, "failed")
DeleteRow(p) == \E r \in DeleteRecording(row[p]) : mutate(p, r, "deleted")
MarkReadyForUpload(p) ==
    \E r \in MarkRecordingReadyForUpload(row[p]) : Write(p, r)

-----------------------------------------------------------------------------
\* FreeSWITCH (external) and the calls' side: the channel of a call records
\* one file, the recording stops with the channel, and the call's row becomes
\* terminal only after its channel is gone.

MediaStep(p) ==
    /\ \/ media[p] = "none" /\ ~ended[p] /\ media' = [media EXCEPT ![p] = "writing"]
          /\ UNCHANGED ended
       \/ media[p] = "writing" /\ media' = [media EXCEPT ![p] = "staged"] /\ UNCHANGED ended
       \/ media[p] \in {"staged", "removed"} /\ ~ended[p] /\ ended' = [ended EXCEPT ![p] = TRUE]
          /\ UNCHANGED media
    /\ UNCHANGED <<row, object, upload, handler, deleter, published, asked, faults>>

-----------------------------------------------------------------------------
\* consumer.go: an event is handled in a goroutine of its own; the same event
\* reaches every worker, and one that is never handled is a lost event.

HandlerTo(h, pc) == handler' = [handler EXCEPT ![h] =
    IF pc = "idle" THEN IdleHandler ELSE [@ EXCEPT !.pc = pc]]

\* ObserveStarted and ObserveStopped begin by reading the row by path.
Observed(p, stop) ==
    IF NoRows(GetRecordingByCallStorageKey(p)) THEN "start"
    ELSE IF stop /\ row[p].status = "recording" THEN "mark" ELSE "idle"

HandleFreeSWITCHEvent(h, p) ==
    /\ handler[h].pc = "idle"
    /\ IF Stops(h) THEN media[p] \in {"staged", "removed"} ELSE media[p] # "none"
    /\ Observed(p, Stops(h)) # "idle"
    /\ handler' = [handler EXCEPT ![h] = [pc |-> Observed(p, Stops(h)), path |-> p]]
    /\ UNCHANGED <<row, media, ended, object, upload, deleter, published, asked, faults>>

\* A stop event that found no row ran ObserveStarted itself and reads again.
ObserveGet(h) ==
    /\ handler[h].pc = "get"
    /\ HandlerTo(h, Observed(handler[h].path, TRUE))
    /\ UNCHANGED <<row, media, ended, object, upload, deleter, published, asked, faults>>

\* Start: the insert, or the unique index's refusal, after which the row that
\* is there answers for it.
ObserveStarted(h) ==
    LET p == handler[h].path  IN
    /\ handler[h].pc = "start"
    /\ \/ Start(p) /\ NoFault /\ HandlerTo(h, IF Stops(h) THEN "get" ELSE "idle")
       \/ /\ NoRows(CreateRecording(row[p]))
          /\ HandlerTo(h, IF Stops(h) THEN "get" ELSE "idle")
          /\ UNCHANGED <<row, published, faults>>
       \/ Fault /\ HandlerTo(h, "idle") /\ UNCHANGED <<row, published>>
    /\ UNCHANGED <<media, ended, object, upload, deleter, asked>>

ObserveStopped(h) ==
    LET p == handler[h].path  IN
    /\ handler[h].pc = "mark"
    /\ \/ MarkReadyForUpload(p) /\ NoFault
       \/ NoRows(MarkRecordingReadyForUpload(row[p])) /\ UNCHANGED <<row, published, faults>>
       \/ Fault /\ UNCHANGED <<row, published>>
    /\ HandlerTo(h, "idle")
    /\ UNCHANGED <<media, ended, object, upload, deleter, asked>>

\* jobs.go: the list is read and every row on it marked; a row that has moved
\* on in between matches nothing and is skipped.
Reconcile(p) ==
    /\ p \in ListRecordingsForReconciliation
    /\ MarkReadyForUpload(p)
    /\ UNCHANGED <<media, ended, object, upload, handler, deleter, asked, faults>>

-----------------------------------------------------------------------------
\* ingestion.go: one pass of one worker.

UploadTo(w, pc, item) ==
    upload' = [upload EXCEPT ![w] = [@ EXCEPT !.pc = pc, !.item = item]]

\* The loop of Ingest: the next claimed row, or the end of the pass.
NextItem(w) ==
    upload' = [upload EXCEPT ![w] =
        IF @.queue = <<>> THEN IdleUpload
        ELSE [pc |-> "open", queue |-> Tail(@.queue), item |-> Head(@.queue)]]
EndPass(w) == upload' = [upload EXCEPT ![w] = IdleUpload]

\* ListForUpload: one statement claims every due row it can lock, in some order.
Ingest(w) ==
    LET due == {p \in Paths : ~NoRows(ListRecordingsForUpload(row[p]))}  IN
    /\ upload[w].pc = "idle"
    /\ due # {}
    /\ row' = [p \in Paths |-> IF p \in due THEN CHOOSE r \in ListRecordingsForUpload(row[p]) : TRUE
                               ELSE row[p]]
    /\ \E order \in [1 .. Cardinality(due) -> due] :
          /\ \A p \in due : \E k \in DOMAIN order : order[k] = p
          /\ upload' = [upload EXCEPT ![w] =
                [pc |-> "open", item |-> Claimed(order[1]),
                 queue |-> [k \in 1 .. (Cardinality(due) - 1) |-> Claimed(order[k + 1])]]]
    /\ UNCHANGED <<media, ended, object, handler, deleter, published, asked, faults>>

\* clientForRecording for an upload that is not pinned yet.
ClientForUpload == IF ResolveRecording = {} THEN {Managed} ELSE ResolveRecording

\* clientForRecording for a pinned recording: the pinned row, whatever is active now.
ClientFor(dest) == IF dest = Managed THEN {Managed} ELSE ResolveByID(dest)

\* safeSourcePath, Open and Stat: the file is there, whole and not empty, or the
\* row is retried.  The open file outlives its name.  A row that is not pinned
\* goes on to ResolveUpload, which reads the organization's destination.
OpenStaged(w) ==
    LET item == upload[w].item  IN
    /\ upload[w].pc = "open"
    /\ \/ /\ media[item.id] = "staged" /\ NoFault
          /\ IF item.dest # NoDest THEN UploadTo(w, "put", item)
             ELSE \E d \in ClientForUpload :
                     UploadTo(w, "pin", [item EXCEPT !.dest = d])
       \/ media[item.id] # "staged" /\ NoFault /\ UploadTo(w, "retry", item)
       \/ Fault /\ UploadTo(w, "retry", item)
    /\ UNCHANGED <<row, media, ended, object, handler, deleter, published, asked>>

\* A failed pin leaves the variable holding sqlc.Recording{}: the retry that
\* follows addresses uuid.Nil.
PinUpload(w) ==
    LET item == upload[w].item  IN
    /\ upload[w].pc = "pin"
    /\ \/ /\ \E r \in PinRecordingUpload(row[item.id], item.dest) : Write(item.id, r)
          /\ NoFault /\ UploadTo(w, "put", item)
       \/ /\ NoRows(PinRecordingUpload(row[item.id], item.dest)) /\ NoFault
          /\ UploadTo(w, "retry", ZeroRecording) /\ UNCHANGED <<row, published>>
       \/ Fault /\ UploadTo(w, "retry", ZeroRecording) /\ UNCHANGED <<row, published>>
    /\ UNCHANGED <<media, ended, object, handler, deleter, asked>>

\* Mutant: the upload's error is dropped.
PutUnchecked(w) ==
    LET item == upload[w].item  IN
    /\ upload[w].pc = "put"
    /\ \/ /\ NoFault
          /\ \E d \in ClientFor(item.dest) : object' = object \cup {<<item.id, d>>}
       \/ Fault /\ UNCHANGED object
    /\ UploadTo(w, "complete", item)
    /\ UNCHANGED <<row, media, ended, handler, deleter, published, asked>>

Put(w) ==
    LET item == upload[w].item  IN
    /\ upload[w].pc = "put"
    /\ \/ /\ NoFault
          /\ \E d \in ClientFor(item.dest) : object' = object \cup {<<item.id, d>>}
          /\ UploadTo(w, "complete", item)
       \/ Fault /\ UploadTo(w, "retry", item) /\ UNCHANGED object
    /\ UNCHANGED <<row, media, ended, handler, deleter, published, asked>>

\* CompleteUpload: a row that is no longer uploading is not an error.
CompleteStep(w) ==
    LET item == upload[w].item  IN
    /\ upload[w].pc = "complete"
    /\ \/ CompleteUpload(item.id, item.dest) /\ NoFault /\ UploadTo(w, "remove", item)
       \/ /\ NoRows(CompleteRecording(row[item.id], item.dest)) /\ NoFault
          /\ UploadTo(w, "remove", item) /\ UNCHANGED <<row, published>>
       \/ Fault /\ EndPass(w) /\ UNCHANGED <<row, published>>
    /\ UNCHANGED <<media, ended, object, handler, deleter, asked>>

RemoveStaged(w) ==
    /\ upload[w].pc = "remove"
    /\ media' = [media EXCEPT ![upload[w].item.id] = "removed"]
    /\ NextItem(w)
    /\ UNCHANGED <<row, ended, object, handler, deleter, published, asked, faults>>

\* retryOrFail, with the attempts the claim read.  A retry that matches no row
\* is an error and ends the pass with the rows still queued under their leases.
retryOrFail(w) ==
    LET item == upload[w].item
        last == item.attempts + 1 >= MaxAttempts
        target == IF item.id = NoPath THEN NoRow ELSE row[item.id]  IN
    /\ upload[w].pc = "retry"
    /\ \/ last /\ item.id # NoPath /\ Fail(item.id) /\ NoFault /\ NextItem(w)
       \/ /\ last /\ NoRows(FailRecording(target)) /\ NoFault
          /\ NextItem(w) /\ UNCHANGED <<row, published>>
       \/ /\ ~last /\ NoFault /\ NextItem(w)
          /\ \E r \in RetryRecordingUpload(target) : Write(item.id, r)
       \/ /\ ~last /\ NoRows(RetryRecordingUpload(target)) /\ NoFault
          /\ EndPass(w) /\ UNCHANGED <<row, published>>
       \/ Fault /\ EndPass(w) /\ UNCHANGED <<row, published>>
    /\ UNCHANGED <<media, ended, object, handler, deleter, asked>>

\* A lease or a retry delay runs out: next_upload_at is in the past again.
UploadFallsDue(p) ==
    /\ row[p].status = "uploading" /\ ~row[p].due
    /\ row' = [row EXCEPT ![p].due = TRUE]
    /\ UNCHANGED <<media, ended, object, upload, handler, deleter, published, asked, faults>>

CrashUpload(w) ==
    /\ upload[w].pc # "idle" /\ Fault /\ EndPass(w)
    /\ UNCHANGED <<row, media, ended, object, handler, deleter, published, asked>>

-----------------------------------------------------------------------------
\* Service.Delete, for a DELETE request or for the retention job.

DeleterTo(d, pc) == deleter' = [deleter EXCEPT ![d] =
    IF pc = "idle" THEN IdleDeleter ELSE [@ EXCEPT !.pc = pc]]

\* Delete reads the row; it answers at once for a row that is missing, deleted
\* already, or not uploaded yet.
DeleteGet(d, p) ==
    /\ deleter[d].pc = "idle"
    /\ \E r \in GetRecordingIncludingDeleted(p) :
          /\ r.status \notin {"deleted", "recording", "uploading"}
          /\ deleter' = [deleter EXCEPT ![d] = [pc |-> "object", path |-> p, dest |-> r.dest]]
    /\ asked' = asked \cup {p}
    /\ UNCHANGED <<row, media, ended, object, upload, handler, published, faults>>

\* ObjectStorage.Delete: a recording without a storage key is an error.
DeleteObject(d) ==
    LET p == deleter[d].path  IN
    /\ deleter[d].pc = "object"
    /\ \/ /\ deleter[d].dest # NoDest /\ NoFault
          /\ \E c \in ClientFor(deleter[d].dest) : object' = object \ {<<p, c>>}
          /\ DeleterTo(d, "row")
       \/ /\ deleter[d].dest = NoDest
          /\ DeleterTo(d, "idle") /\ UNCHANGED <<object, faults>>
       \/ Fault /\ DeleterTo(d, "idle") /\ UNCHANGED object
    /\ UNCHANGED <<row, media, ended, upload, handler, published, asked>>

DeleteMark(d) ==
    LET p == deleter[d].path  IN
    /\ deleter[d].pc = "row"
    /\ \/ DeleteRow(p) /\ NoFault
       \/ NoRows(DeleteRecording(row[p])) /\ UNCHANGED <<row, published, faults>>
       \/ Fault /\ UNCHANGED <<row, published>>
    /\ DeleterTo(d, "idle")
    /\ UNCHANGED <<media, ended, object, upload, handler, asked>>

UploadStep(w) == \/ Ingest(w) \/ OpenStaged(w) \/ PinUpload(w) \/ Put(w)
                 \/ CompleteStep(w) \/ RemoveStaged(w) \/ retryOrFail(w)
HandlerStep(h) == ObserveGet(h) \/ ObserveStarted(h) \/ ObserveStopped(h)
DeleteStep(d) == DeleteObject(d) \/ DeleteMark(d)
=============================================================================
