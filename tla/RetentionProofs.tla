-------------------------- MODULE RetentionProofs ---------------------------
(***************************************************************************)
(* Recordings, for any number of files, workers, event handlers, deletions *)
(* and storage integrations, and any number of faults: the audio is in the *)
(* bucket the row names before the staged file goes, and the outbox tells  *)
(* a row's life once.                                                      *)
(***************************************************************************)
EXTENDS Retention, FiniteSetTheorems, SequenceTheorems, TLAPS

Claims == [id : Paths \cup {NoPath}, dest : Dests \cup {NoDest}, attempts : Nat]
Passes == [pc : {"idle", "open", "pin", "put", "complete", "remove", "retry"},
           queue : Seq(Claims), item : Claims]
Deletions == [pc : {"idle", "object", "row"}, path : Paths \cup {NoPath}, dest : Dests \cup {NoDest}]
Observations == [pc : {"idle", "start", "get", "mark"}, path : Paths \cup {NoPath}]
Events == {"started", "completed", "failed", "deleted"}
Settled == {"completed", "failed", "deleted"}

RecordingsTyped ==
    /\ row \in [Paths -> Recording]
    /\ media \in [Paths -> {"none", "writing", "staged", "removed"}]
    /\ object \in SUBSET (Paths \X Dests)
    /\ upload \in [Workers -> Passes]
    /\ handler \in [Handlers -> Observations]
    /\ deleter \in [Deleters -> Deletions]
    /\ published \in [Paths -> Seq(Events)]
    /\ asked \in SUBSET Paths

\* A row that is not there names no destination.
RowsPlain == \A p \in Paths : row[p].status = "none" => row[p].dest = NoDest

\* A claim that read a destination read the row's, which never changes again.
ClaimFits(c) == c \in Claims /\ c.id \in Paths /\ (c.dest # NoDest => row[c.id].dest = c.dest)
Uploaded(c) == <<c.id, c.dest>> \in object \/ c.id \in asked

\* An upload goes where the row is pinned to, and is over before the row is
\* completed and the staged file removed.
UploadFits(w) ==
    /\ \A i \in 1 .. Len(upload[w].queue) : ClaimFits(upload[w].queue[i])
    /\ upload[w].pc = "open" => ClaimFits(upload[w].item)
    /\ upload[w].pc = "pin" => upload[w].item.id \in Paths /\ upload[w].item.dest # NoDest
    /\ upload[w].pc \in {"put", "complete", "remove"} =>
          ClaimFits(upload[w].item) /\ upload[w].item.dest # NoDest
    /\ upload[w].pc \in {"complete", "remove"} => Uploaded(upload[w].item)
UploadsFit == \A w \in Workers : UploadFits(w)

HandlersFit == \A h \in Handlers : handler[h].pc # "idle" => handler[h].path \in Paths
DeletersFit == \A d \in Deleters : deleter[d].pc # "idle" =>
                  deleter[d].path \in asked /\ row[deleter[d].path].status \in Settled

\* What a pass has listed.
TodoTyped == todo \in [Cleaners -> SUBSET Paths]

RecInv == /\ RecordingsTyped /\ RowsPlain /\ UploadsFit /\ HandlersFit /\ DeletersFit
          /\ AudioIsKept /\ EventsTellTheRow
-----------------------------------------------------------------------------
\* Each statement of recordings.sql, on a row of the table.

\* The row goes on: it stays a row, a destination once named stays, and so does
\* a state an upload ends in.
GoesTo(r, s) ==
    /\ s \in Recording
    /\ r.dest # NoDest => s.dest = r.dest
    /\ r.status \in Settled => s.status \in Settled
    /\ s.status = "none" => s.dest = NoDest

LEMMA Created ==
    ASSUME NEW r \in Recording, r.status = "none" => r.dest = NoDest, NEW s \in CreateRecording(r)
    PROVE  GoesTo(r, s) /\ r.status = "none" /\ s.status = "recording"
<1>1. NoRow \in Recording /\ NoRow.dest = NoDest
  BY DEF NoRow, Recording
<1>2. r.status = "none" /\ s = [NoRow EXCEPT !.status = "recording"]
  BY DEF CreateRecording, Returning
<1> QED BY <1>1, <1>2 DEF GoesTo, Recording, Settled

LEMMA Readied ==
    ASSUME NEW r \in Recording, NEW s \in MarkRecordingReadyForUpload(r)
    PROVE  GoesTo(r, s) /\ r.status = "recording" /\ s.status = "uploading"
  BY DEF MarkRecordingReadyForUpload, Returning, GoesTo, Recording, Settled

LEMMA Leased ==
    ASSUME NEW r \in Recording, NEW s \in ListRecordingsForUpload(r)
    PROVE  GoesTo(r, s) /\ r.status = "uploading" /\ s.status = "uploading" /\ s.dest = r.dest
  BY DEF ListRecordingsForUpload, Returning, GoesTo, Recording, Settled

LEMMA Retried ==
    ASSUME NEW r \in Recording, NEW s \in RetryRecordingUpload(r)
    PROVE  GoesTo(r, s) /\ r.status = "uploading" /\ s.status = "uploading"
<1>1. r.attempts + 1 \in Nat
  BY DEF Recording
<1>2. r.status = "uploading" /\ s = [r EXCEPT !.attempts = r.attempts + 1, !.due = FALSE]
  BY DEF RetryRecordingUpload, Returning
<1> QED BY <1>1, <1>2 DEF GoesTo, Recording, Settled

LEMMA Pinned ==
    ASSUME NEW r \in Recording, NEW d \in Dests, NEW s \in PinRecordingUpload(r, d)
    PROVE  GoesTo(r, s) /\ r.status = "uploading" /\ s.status = "uploading" /\ s.dest = d
  BY DEF PinRecordingUpload, Returning, GoesTo, Recording, Settled

LEMMA Completed ==
    ASSUME NEW r \in Recording, r.dest \in Dests, NEW s \in CompleteRecording(r, r.dest)
    PROVE  /\ GoesTo(r, s) /\ s.status = "completed" /\ s.dest = r.dest
           /\ r.status \in {"recording", "uploading"}
<1>1. NoDest \notin Dests
  BY RecordingsAssumption DEF Dests
<1>2. r.status \in {"recording", "uploading"}
      /\ s = [r EXCEPT !.status = "completed", !.due = FALSE,
                       !.dest = IF r.dest = Managed THEN Coalesce(r.dest, Managed, NoDest) ELSE r.dest]
  BY DEF CompleteRecording, Returning
<1>3. (IF r.dest = Managed THEN Coalesce(r.dest, Managed, NoDest) ELSE r.dest) = r.dest
  BY <1>1 DEF Coalesce
<1> QED BY <1>2, <1>3 DEF GoesTo, Recording, Settled

LEMMA FailedOnce ==
    ASSUME NEW r \in Recording, NEW s \in FailRecording(r)
    PROVE  GoesTo(r, s) /\ s.status = "failed" /\ r.status \in {"recording", "uploading"}
  BY DEF FailRecording, Returning, GoesTo, Recording, Settled

LEMMA DeletedOnce ==
    ASSUME NEW r \in Recording, r.status \in Settled, NEW s \in DeleteRecording(r)
    PROVE  GoesTo(r, s) /\ s.status = "deleted" /\ r.status \in {"completed", "failed"}
  BY DEF DeleteRecording, Returning, GoesTo, Recording, Settled

-----------------------------------------------------------------------------
\* What a step may do to the rows and the objects without disturbing an upload.

RowsGo == row' \in [Paths -> Recording] /\ \A p \in Paths : GoesTo(row[p], row'[p])
ObjectsKept == /\ asked \subseteq asked'
               /\ \A p \in Paths, d \in Dests : <<p, d>> \in object /\ p \notin asked' => <<p, d>> \in object'

LEMMA OneRowGoes ==
    ASSUME RecordingsTyped, RowsPlain, NEW p \in Paths, NEW s, GoesTo(row[p], s), row' = [row EXCEPT ![p] = s]
    PROVE  RowsGo /\ row'[p] = s /\ \A q \in Paths \ {p} : row'[q] = row[q]
  BY DEF RecordingsTyped, RowsPlain, RowsGo, GoesTo

LEMMA RowsSame ==
    ASSUME RecordingsTyped, RowsPlain, row' = row
    PROVE  RowsGo
  BY DEF RecordingsTyped, RowsPlain, RowsGo, GoesTo

LEMMA PlainKept ==
    ASSUME RowsGo
    PROVE  RowsPlain'
  BY DEF RowsGo, RowsPlain, GoesTo

LEMMA ClaimStays ==
    ASSUME RowsGo, NEW c, ClaimFits(c)
    PROVE  ClaimFits(c)'
  BY DEF RowsGo, GoesTo, ClaimFits

LEMMA UploadedStays ==
    ASSUME ObjectsKept, NEW c, c.id \in Paths, c.dest \in Dests, Uploaded(c)
    PROVE  Uploaded(c)'
  BY DEF ObjectsKept, Uploaded

LEMMA PassStays ==
    ASSUME RowsGo, ObjectsKept, NEW w \in Workers, UploadFits(w), upload'[w] = upload[w]
    PROVE  UploadFits(w)'
<1>1. \A i \in 1 .. Len(upload[w].queue) : ClaimFits(upload[w].queue[i])'
  BY ClaimStays DEF UploadFits
<1>2. ClaimFits(upload[w].item) => ClaimFits(upload[w].item)'
  BY ClaimStays
<1>3. ClaimFits(upload[w].item) /\ upload[w].item.dest # NoDest /\ Uploaded(upload[w].item) => Uploaded(upload[w].item)'
  BY UploadedStays DEF ClaimFits, Claims
<1> QED BY <1>1, <1>2, <1>3 DEF UploadFits, ClaimFits, Uploaded
\* The loop of Ingest goes on to the next claim, ends, or moves on the one at hand.
LEMMA PassMovesOn ==
    ASSUME RecordingsTyped, NEW w \in Workers, UploadFits(w), RowsGo, ObjectsKept, NextItem(w)
    PROVE  /\ upload' \in [Workers -> Passes] /\ UploadFits(w)'
           /\ \A v \in Workers \ {w} : upload'[v] = upload[v]
<1> DEFINE q == upload[w].queue
<1>1. q \in Seq(Claims) /\ upload[w] \in Passes
  BY DEF RecordingsTyped, Passes
<1>2. CASE q = <<>>
  <2>1. IdleUpload \in Passes /\ IdleUpload.pc = "idle" /\ IdleUpload.queue = <<>>
    BY DEF IdleUpload, Passes, ZeroRecording, Claims
  <2>2. upload' = [upload EXCEPT ![w] = IdleUpload]
    BY <1>2 DEF NextItem
  <2> QED BY <2>1, <2>2 DEF RecordingsTyped, UploadFits
<1>3. CASE q # <<>>
  <2> DEFINE u == [pc |-> "open", queue |-> Tail(q), item |-> Head(q)]
  <2>1. /\ Head(q) = q[1] /\ Head(q) \in Claims /\ Tail(q) \in Seq(Claims) /\ Len(q) \in Nat /\ Len(q) >= 1
        /\ Len(Tail(q)) = Len(q) - 1 /\ \A i \in 1 .. Len(Tail(q)) : Tail(q)[i] = q[i + 1]
    BY <1>1, <1>3
  <2>2. u \in Passes /\ u.pc = "open" /\ u.queue = Tail(q) /\ u.item = Head(q)
    BY <2>1 DEF Passes
  <2>3. upload' = [upload EXCEPT ![w] = u]
    BY <1>3 DEF NextItem
  <2>4. \A c : ClaimFits(c) => c \in Claims /\ c.id \in Paths /\ (c.dest # NoDest => row'[c.id].dest = c.dest)
    BY DEF ClaimFits, RowsGo, GoesTo
  <2>5. \A i \in 1 .. Len(q) : ClaimFits(q[i])
    BY DEF UploadFits
  <2> HIDE DEF u, q
  <2>6. upload' \in [Workers -> Passes] /\ upload'[w] = u /\ \A v \in Workers \ {w} : upload'[v] = upload[v]
    BY <2>2, <2>3 DEF RecordingsTyped
  <2>7. /\ ClaimFits(Head(q))
        /\ \A i \in 1 .. Len(Tail(q)) : ClaimFits(Tail(q)[i])
    BY <2>1, <2>5
  <2>8. UploadFits(w)'
    BY <2>2, <2>4, <2>6, <2>7 DEF UploadFits, ClaimFits
  <2> QED BY <2>6, <2>8
<1> QED BY <1>2, <1>3

LEMMA PassIsOver ==
    ASSUME RecordingsTyped, NEW w, EndPass(w)
    PROVE  /\ upload' \in [Workers -> Passes] /\ (w \in Workers => UploadFits(w)')
           /\ \A v \in Workers \ {w} : upload'[v] = upload[v]
<1>1. IdleUpload \in Passes /\ IdleUpload.pc = "idle" /\ IdleUpload.queue = <<>>
  BY DEF IdleUpload, Passes, ZeroRecording, Claims
<1>2. /\ upload' \in [Workers -> Passes] /\ (w \in Workers => upload'[w] = IdleUpload)
      /\ \A v \in Workers \ {w} : upload'[v] = upload[v]
  BY <1>1 DEF EndPass, RecordingsTyped
<1>3. 1 .. Len(<<>>) = {}
  OBVIOUS
<1> QED BY <1>1, <1>2, <1>3 DEF UploadFits

LEMMA PassSteps ==
    ASSUME RecordingsTyped, NEW w \in Workers, NEW l \in {"pin", "put", "complete", "remove", "retry"},
           NEW c \in Claims, UploadTo(w, l, c)
    PROVE  /\ upload' \in [Workers -> Passes]
           /\ upload'[w].pc = l /\ upload'[w].item = c /\ upload'[w].queue = upload[w].queue
           /\ \A v \in Workers \ {w} : upload'[v] = upload[v]
<1>1. [upload[w] EXCEPT !.pc = l, !.item = c] \in Passes
  BY DEF RecordingsTyped, Passes
<1> QED BY <1>1 DEF UploadTo, RecordingsTyped, Passes

\* The claims still queued fit after any such step.
LEMMA QueueStays ==
    ASSUME RowsGo, NEW w \in Workers, UploadFits(w), upload'[w].queue = upload[w].queue
    PROVE  (\A i \in 1 .. Len(upload[w].queue) : ClaimFits(upload[w].queue[i]))'
  BY ClaimStays DEF UploadFits

-----------------------------------------------------------------------------
\* The two properties, for the steps that do not write what they are about.

LEMMA AudioStays ==
    ASSUME RecordingsTyped, AudioIsKept, RowsGo, UNCHANGED <<object, media>>, asked \subseteq asked',
           \A p \in Paths : row'[p].status = "completed" => row[p].status = "completed"
    PROVE  AudioIsKept'
<1>1. \A p \in Paths, d \in Dests : <<p, d>> \in object => row[p].dest = d /\ row'[p].dest = d
  BY RecordingsAssumption DEF AudioIsKept, RowsGo, GoesTo, Dests
<1>2. \A p \in Paths : <<p, row[p].dest>> \in object => row'[p].dest = row[p].dest
  BY <1>1 DEF RecordingsTyped
<1> QED BY <1>1, <1>2 DEF AudioIsKept

SameLife(r, s) == r.status = s.status \/ {r.status, s.status} \subseteq {"recording", "uploading"}
\* The event that goes with a change of state.
Tells(r, s, e) == \/ r.status = "none" /\ s.status = "recording" /\ e = "started"
                  \/ r.status \in {"recording", "uploading"} /\ s.status = "completed" /\ e = "completed"
                  \/ r.status \in {"recording", "uploading"} /\ s.status = "failed" /\ e = "failed"
                  \/ r.status \in {"completed", "failed"} /\ s.status = "deleted" /\ e = "deleted"

\* The rows go on and the outbox tells it.
RowsTold == RowsGo /\ published' \in [Paths -> Seq(Events)] /\ EventsTellTheRow'

LEMMA AppendSecond ==
    ASSUME NEW S, NEW a \in S, NEW b \in S
    PROVE  Append(<<a>>, b) = <<a, b>>
<1>1. <<a>> \in Seq(S) /\ <<a, b>> \in Seq(S)
  OBVIOUS
<1>2. Append(<<a>>, b) \in Seq(S) /\ Len(Append(<<a>>, b)) = 2 /\ Len(<<a, b>>) = 2
  BY <1>1
<1>3. Append(<<a>>, b)[1] = a /\ Append(<<a>>, b)[2] = b
  BY <1>1
<1>4. \A i \in 1 .. 2 : Append(<<a>>, b)[i] = <<a, b>>[i]
  BY <1>3
<1> QED BY <1>1, <1>2, <1>4, SeqEqual

LEMMA AppendThird ==
    ASSUME NEW S, NEW a \in S, NEW b \in S, NEW c \in S
    PROVE  Append(<<a, b>>, c) = <<a, b, c>>
<1>1. <<a, b>> \in Seq(S) /\ <<a, b, c>> \in Seq(S)
  OBVIOUS
<1>2. Append(<<a, b>>, c) \in Seq(S) /\ Len(Append(<<a, b>>, c)) = 3 /\ Len(<<a, b, c>>) = 3
  BY <1>1
<1>3. Append(<<a, b>>, c)[1] = a /\ Append(<<a, b>>, c)[2] = b /\ Append(<<a, b>>, c)[3] = c
  BY <1>1
<1>4. \A i \in 1 .. 3 : Append(<<a, b>>, c)[i] = <<a, b, c>>[i]
  BY <1>3
<1> QED BY <1>1, <1>2, <1>4, SeqEqual

LEMMA EventAppended ==
    ASSUME NEW x, NEW y, NEW e, NEW a \in Story(x.status), Tells(x, y, e)
    PROVE  Append(a, e) \in Story(y.status)
<1>1. CASE x.status = "none" /\ y.status = "recording" /\ e = "started"
  <2>1. Append(<<>>, "started") = <<"started">>
    OBVIOUS
  <2> QED BY <1>1, <2>1 DEF Story
<1>2. CASE x.status \in {"recording", "uploading"} /\ y.status = "completed" /\ e = "completed"
  <2>1. Append(<<"started">>, "completed") = <<"started", "completed">>
    BY AppendSecond, "started" \in Events, "completed" \in Events, "failed" \in Events DEF Events
  <2> QED BY <1>2, <2>1 DEF Story
<1>3. CASE x.status \in {"recording", "uploading"} /\ y.status = "failed" /\ e = "failed"
  <2>1. Append(<<"started">>, "failed") = <<"started", "failed">>
    BY AppendSecond, "started" \in Events, "completed" \in Events, "failed" \in Events DEF Events
  <2> QED BY <1>3, <2>1 DEF Story
<1>4. CASE x.status = "completed" /\ y.status = "deleted" /\ e = "deleted"
  <2>1. Append(<<"started", "completed">>, "deleted") = <<"started", "completed", "deleted">>
    BY AppendThird, "started" \in Events, "completed" \in Events, "failed" \in Events,
       "deleted" \in Events DEF Events
  <2> QED BY <1>4, <2>1 DEF Story
<1>5. CASE x.status = "failed" /\ y.status = "deleted" /\ e = "deleted"
  <2>1. Append(<<"started", "failed">>, "deleted") = <<"started", "failed", "deleted">>
    BY AppendThird, "started" \in Events, "completed" \in Events, "failed" \in Events,
       "deleted" \in Events DEF Events
  <2> QED BY <1>5, <2>1 DEF Story
<1> QED BY <1>1, <1>2, <1>3, <1>4, <1>5 DEF Tells

LEMMA NothingTold ==
    ASSUME RecInv, UNCHANGED <<row, published>>
    PROVE  RowsTold
<1>1. RowsGo
  BY RowsSame DEF RecInv
<1>2. EventsTellTheRow'
  BY DEF RecInv, EventsTellTheRow
<1> QED BY <1>1, <1>2 DEF RecInv, RecordingsTyped, RowsTold

LEMMA RowWritten ==
    ASSUME RecInv, NEW p \in Paths, NEW s, GoesTo(row[p], s), SameLife(row[p], s), Write(p, s)
    PROVE  RowsTold /\ row'[p] = s /\ \A q \in Paths \ {p} : row'[q] = row[q]
<1>1. RowsGo /\ row'[p] = s /\ \A q \in Paths \ {p} : row'[q] = row[q]
  BY OneRowGoes DEF RecInv, Write
<1>2. EventsTellTheRow'
  BY <1>1 DEF RecInv, EventsTellTheRow, Story, SameLife, Write
<1> QED BY <1>1, <1>2 DEF RecInv, RecordingsTyped, RowsTold, Write

LEMMA RowMutated ==
    ASSUME RecInv, NEW p \in Paths, NEW s, NEW e \in Events, GoesTo(row[p], s), Tells(row[p], s, e),
           mutate(p, s, e)
    PROVE  RowsTold /\ row'[p] = s /\ \A q \in Paths \ {p} : row'[q] = row[q]
<1>1. RowsGo /\ row'[p] = s /\ \A q \in Paths \ {p} : row'[q] = row[q]
  BY OneRowGoes DEF RecInv, mutate
<1>2. /\ published' \in [Paths -> Seq(Events)] /\ published'[p] = Append(published[p], e)
      /\ \A q \in Paths \ {p} : published'[q] = published[q]
  <2>1. published[p] \in Seq(Events) /\ Append(published[p], e) \in Seq(Events)
    BY DEF RecInv, RecordingsTyped
  <2> QED BY <2>1 DEF RecInv, RecordingsTyped, mutate
<1>3. EventsTellTheRow'
  <2> SUFFICES ASSUME NEW q \in Paths PROVE published'[q] \in Story(row'[q].status)
    BY DEF EventsTellTheRow, Story
  <2>1. CASE q = p
    <3>1. published[p] \in Story(row[p].status)
      BY DEF RecInv, EventsTellTheRow
    <3>2. Append(published[p], e) \in Story(s.status)
      BY <3>1, EventAppended
    <3> QED BY <1>1, <1>2, <2>1, <3>2
  <2>2. CASE q # p
    BY <1>1, <1>2, <2>2 DEF RecInv, EventsTellTheRow
  <2> QED BY <2>1, <2>2
<1> QED BY <1>1, <1>2, <1>3 DEF RowsTold
-----------------------------------------------------------------------------
\* The parts of the invariant that a step leaves to the others.

LEMMA PassesStay ==
    ASSUME RecInv, RowsTold, ObjectsKept, UNCHANGED upload
    PROVE  upload' \in [Workers -> Passes] /\ UploadsFit'
<1>1. ASSUME NEW w \in Workers PROVE UploadFits(w)'
  BY PassStays DEF RecInv, UploadsFit, RowsTold
<1> QED BY <1>1 DEF RecInv, RecordingsTyped, UploadsFit

\* One worker's pass moves.
LEMMA PassesFit ==
    ASSUME RecInv, RowsTold, ObjectsKept, NEW w \in Workers, UploadFits(w)',
           \A v \in Workers \ {w} : upload'[v] = upload[v]
    PROVE  UploadsFit'
<1>1. ASSUME NEW v \in Workers PROVE UploadFits(v)'
  BY PassStays DEF RecInv, UploadsFit, RowsTold
<1> QED BY <1>1 DEF UploadsFit

LEMMA DeletersStay ==
    ASSUME RecInv, RowsTold, asked \subseteq asked', UNCHANGED deleter
    PROVE  DeletersFit'
  BY DEF RecInv, RecordingsTyped, RowsTold, RowsGo, GoesTo, DeletersFit

\* A step that writes neither objects nor staged files and completes nothing.
LEMMA RecInvKept ==
    ASSUME RecInv, RowsTold, UNCHANGED <<object, media, asked>>,
           \A p \in Paths : row'[p].status = "completed" => row[p].status = "completed",
           upload' \in [Workers -> Passes], UploadsFit',
           handler' \in [Handlers -> Observations], HandlersFit',
           deleter' \in [Deleters -> Deletions], DeletersFit'
    PROVE  RecInv'
<1>1. AudioIsKept'
  BY AudioStays DEF RecInv, RowsTold
<1>2. RowsPlain' /\ EventsTellTheRow'
  BY PlainKept DEF RowsTold
<1>3. RecordingsTyped'
  BY DEF RecInv, RecordingsTyped, RowsTold, RowsGo
<1> QED BY <1>1, <1>2, <1>3 DEF RecInv

LEMMA SameObjects ==
    ASSUME UNCHANGED <<object, asked>>
    PROVE  ObjectsKept
  BY DEF ObjectsKept

\* One event handler moves.
LEMMA HandlerMoves ==
    ASSUME RecInv, NEW h \in Handlers, NEW l \in {"idle", "start", "get", "mark"}, HandlerTo(h, l),
           handler[h].path \in Paths
    PROVE  handler' \in [Handlers -> Observations] /\ HandlersFit'
<1>1. IdleHandler \in Observations /\ IdleHandler.pc = "idle"
  BY DEF IdleHandler, Observations
<1>2. /\ [handler[h] EXCEPT !.pc = l] \in Observations
      /\ [handler[h] EXCEPT !.pc = l].path \in Paths
  BY DEF RecInv, RecordingsTyped, Observations
<1> QED BY <1>1, <1>2 DEF RecInv, RecordingsTyped, HandlerTo, HandlersFit

\* One deletion moves.
LEMMA DeleterMoves ==
    ASSUME RecInv, NEW d, NEW l \in {"idle", "row"}, DeleterTo(d, l), RowsTold, UNCHANGED asked,
           deleter[d].pc # "idle"
    PROVE  deleter' \in [Deleters -> Deletions] /\ DeletersFit'
<1>1. IdleDeleter \in Deletions /\ IdleDeleter.pc = "idle"
  BY DEF IdleDeleter, Deletions
<1>2. d \in Deleters => /\ [deleter[d] EXCEPT !.pc = l] \in Deletions
                        /\ [deleter[d] EXCEPT !.pc = l].path = deleter[d].path
  BY DEF RecInv, RecordingsTyped, Deletions
<1>3. \A p \in Paths : row[p].status \in Settled => row'[p].status \in Settled
  BY DEF RowsTold, RowsGo, GoesTo
<1>4. deleter' \in [Deleters -> Deletions]
  BY <1>1, <1>2 DEF RecInv, RecordingsTyped, DeleterTo
<1>5. \A e \in Deleters : deleter'[e].pc # "idle" => deleter[e].pc # "idle" /\ deleter'[e].path = deleter[e].path
  BY <1>1, <1>2 DEF RecInv, RecordingsTyped, DeleterTo
<1> QED BY <1>3, <1>4, <1>5 DEF RecInv, RecordingsTyped, DeletersFit
-----------------------------------------------------------------------------
\* FreeSWITCH, its events and the reconciliation job.

LEMMA MediaStepKeeps ==
    ASSUME RecInv, NEW p \in Paths, MediaStep(p)
    PROVE  RecInv'
<1>1. UNCHANGED <<row, object, upload, handler, deleter, published, asked>>
  BY DEF MediaStep
<1>2. /\ media' \in [Paths -> {"none", "writing", "staged", "removed"}]
      /\ \A q \in Paths : media'[q] = "removed" => media[q] = "removed"
  BY DEF RecInv, RecordingsTyped, MediaStep
<1>3. RecordingsTyped' /\ RowsPlain' /\ HandlersFit' /\ DeletersFit'
  BY <1>1, <1>2 DEF RecInv, RecordingsTyped, RowsPlain, HandlersFit, DeletersFit
<1>4. UploadsFit'
  BY <1>1, NothingTold, SameObjects, PassesStay
<1>5. AudioIsKept' /\ EventsTellTheRow'
  BY <1>1, <1>2 DEF RecInv, AudioIsKept, EventsTellTheRow
<1> QED BY <1>3, <1>4, <1>5 DEF RecInv

LEMMA MarkedTold ==
    ASSUME RecInv, NEW p \in Paths, MarkReadyForUpload(p)
    PROVE  RowsTold /\ \A q \in Paths : row'[q].status = "completed" => row[q].status = "completed"
<1>1. PICK s \in MarkRecordingReadyForUpload(row[p]) : Write(p, s)
  BY DEF MarkReadyForUpload
<1>2. row[p] \in Recording
  BY DEF RecInv, RecordingsTyped
<1>3. GoesTo(row[p], s) /\ SameLife(row[p], s) /\ s.status = "uploading"
  BY <1>2, Readied DEF SameLife
<1> QED BY <1>1, <1>3, RowWritten

LEMMA ReconcileKeeps ==
    ASSUME RecInv, NEW p \in Paths, Reconcile(p)
    PROVE  RecInv'
<1>1. UNCHANGED <<media, object, upload, handler, deleter, asked>>
  BY DEF Reconcile
<1>2. RowsTold /\ \A q \in Paths : row'[q].status = "completed" => row[q].status = "completed"
  BY MarkedTold DEF Reconcile
<1>3. upload' \in [Workers -> Passes] /\ UploadsFit' /\ DeletersFit'
  BY <1>1, <1>2, SameObjects, PassesStay, DeletersStay
<1>4. handler' \in [Handlers -> Observations] /\ deleter' \in [Deleters -> Deletions] /\ HandlersFit'
  BY <1>1 DEF RecInv, RecordingsTyped, HandlersFit
<1> QED BY <1>1, <1>2, <1>3, <1>4, RecInvKept

LEMMA UploadFallsDueKeeps ==
    ASSUME RecInv, NEW p \in Paths, UploadFallsDue(p)
    PROVE  RecInv'
<1>1. UNCHANGED <<media, object, upload, handler, deleter, asked, published>>
  BY DEF UploadFallsDue
<1> DEFINE s == [row[p] EXCEPT !.due = TRUE]
<1>2. row[p] \in Recording /\ row' = [row EXCEPT ![p] = s]
  BY DEF RecInv, RecordingsTyped, UploadFallsDue
<1>3. GoesTo(row[p], s) /\ s.status = row[p].status
  BY <1>2 DEF RecInv, RowsPlain, GoesTo, Recording
<1> HIDE DEF s
<1>4. RowsTold /\ row'[p] = s /\ \A q \in Paths \ {p} : row'[q] = row[q]
  BY <1>1, <1>2, <1>3, RowWritten DEF SameLife, Write
<1>5. upload' \in [Workers -> Passes] /\ UploadsFit' /\ DeletersFit'
  BY <1>1, <1>4, SameObjects, PassesStay, DeletersStay
<1>6. handler' \in [Handlers -> Observations] /\ deleter' \in [Deleters -> Deletions] /\ HandlersFit'
  BY <1>1 DEF RecInv, RecordingsTyped, HandlersFit
<1>7. \A q \in Paths : row'[q].status = "completed" => row[q].status = "completed"
  BY <1>3, <1>4
<1> QED BY <1>1, <1>4, <1>5, <1>6, <1>7, RecInvKept

\* An event's handler, whatever it does to the row.
LEMMA HandlerKeeps ==
    ASSUME RecInv, RowsTold, \A q \in Paths : row'[q].status = "completed" => row[q].status = "completed",
           UNCHANGED <<media, object, upload, deleter, asked>>,
           handler' \in [Handlers -> Observations], HandlersFit'
    PROVE  RecInv'
<1>1. upload' \in [Workers -> Passes] /\ UploadsFit' /\ DeletersFit'
  BY SameObjects, PassesStay, DeletersStay
<1>2. deleter' \in [Deleters -> Deletions]
  BY DEF RecInv, RecordingsTyped
<1> QED BY <1>1, <1>2, RecInvKept

LEMMA HandleFreeSWITCHEventKeeps ==
    ASSUME RecInv, NEW h \in Handlers, NEW p \in Paths, HandleFreeSWITCHEvent(h, p)
    PROVE  RecInv'
<1>1. RowsTold /\ UNCHANGED <<row, media, object, upload, deleter, asked>>
  BY NothingTold DEF HandleFreeSWITCHEvent
<1> DEFINE o == [pc |-> Observed(p, Stops(h)), path |-> p]
<1>2. o \in Observations /\ o.path = p
  BY DEF Observations, Observed
<1>3. handler' = [handler EXCEPT ![h] = o]
  BY DEF HandleFreeSWITCHEvent
<1> HIDE DEF o
<1>4. handler' \in [Handlers -> Observations] /\ HandlersFit'
  BY <1>2, <1>3 DEF RecInv, RecordingsTyped, HandlersFit
<1> QED BY <1>1, <1>4, HandlerKeeps

LEMMA ObserveGetKeeps ==
    ASSUME RecInv, NEW h \in Handlers, ObserveGet(h)
    PROVE  RecInv'
<1>1. RowsTold /\ UNCHANGED <<row, media, object, upload, deleter, asked>>
  BY NothingTold DEF ObserveGet
<1>2. Observed(handler[h].path, TRUE) \in {"idle", "start", "get", "mark"} /\ handler[h].path \in Paths
  BY DEF RecInv, HandlersFit, ObserveGet, Observed
<1>3. handler' \in [Handlers -> Observations] /\ HandlersFit'
  BY <1>2, HandlerMoves DEF ObserveGet
<1> QED BY <1>1, <1>3, HandlerKeeps

LEMMA ObserveStartedKeeps ==
    ASSUME RecInv, NEW h \in Handlers, ObserveStarted(h)
    PROVE  RecInv'
<1> DEFINE p == handler[h].path
<1>1. p \in Paths /\ row[p] \in Recording /\ (row[p].status = "none" => row[p].dest = NoDest)
  BY DEF RecInv, RecordingsTyped, RowsPlain, HandlersFit, ObserveStarted
<1>2. RowsTold /\ \A q \in Paths : row'[q].status = "completed" => row[q].status = "completed"
  <2>1. CASE Start(p)
    <3>1. PICK s \in CreateRecording(row[p]) : mutate(p, s, "started")
      BY <2>1 DEF Start
    <3>2. GoesTo(row[p], s) /\ Tells(row[p], s, "started") /\ s.status = "recording" /\ "started" \in Events
      BY <1>1, Created DEF Tells, Events
    <3> QED BY <1>1, <3>1, <3>2, RowMutated
  <2>2. CASE UNCHANGED <<row, published>>
    BY <2>2, NothingTold
  <2> QED BY <2>1, <2>2 DEF ObserveStarted
<1>3. handler' \in [Handlers -> Observations] /\ HandlersFit'
  BY <1>1, HandlerMoves DEF ObserveStarted
<1> QED BY <1>2, <1>3, HandlerKeeps DEF ObserveStarted

LEMMA ObserveStoppedKeeps ==
    ASSUME RecInv, NEW h \in Handlers, ObserveStopped(h)
    PROVE  RecInv'
<1> DEFINE p == handler[h].path
<1>1. p \in Paths
  BY DEF RecInv, HandlersFit, ObserveStopped
<1>2. RowsTold /\ \A q \in Paths : row'[q].status = "completed" => row[q].status = "completed"
  <2>1. CASE MarkReadyForUpload(p)
    BY <1>1, <2>1, MarkedTold
  <2>2. CASE UNCHANGED <<row, published>>
    BY <2>2, NothingTold
  <2> QED BY <2>1, <2>2 DEF ObserveStopped
<1>3. handler' \in [Handlers -> Observations] /\ HandlersFit'
  BY <1>1, HandlerMoves DEF ObserveStopped
<1> QED BY <1>2, <1>3, HandlerKeeps DEF ObserveStopped
-----------------------------------------------------------------------------
\* The ingestion job.

\* A step of one pass that leaves the objects, the files and the deletions alone.
LEMMA UploadKeeps ==
    ASSUME RecInv, RowsTold, \A q \in Paths : row'[q].status = "completed" => row[q].status = "completed",
           UNCHANGED <<media, object, handler, deleter, asked>>,
           NEW w \in Workers, upload' \in [Workers -> Passes], UploadFits(w)',
           \A v \in Workers \ {w} : upload'[v] = upload[v]
    PROVE  RecInv'
<1>1. UploadsFit' /\ DeletersFit'
  BY SameObjects, PassesFit, DeletersStay
<1>2. handler' \in [Handlers -> Observations] /\ deleter' \in [Deleters -> Deletions] /\ HandlersFit'
  BY DEF RecInv, RecordingsTyped, HandlersFit
<1> QED BY <1>1, <1>2, RecInvKept

LEMMA ClaimedFits ==
    ASSUME RecInv, NEW q \in Paths
    PROVE  /\ Claimed(q) \in Claims /\ Claimed(q).id = q
           /\ Claimed(q).dest # NoDest => row[q].dest = Claimed(q).dest
<1>1. row[q] \in Recording
  BY DEF RecInv, RecordingsTyped
<1> QED BY <1>1 DEF Claimed, Claims, Recording

LEMMA IngestKeeps ==
    ASSUME RecInv, NEW w \in Workers, Ingest(w)
    PROVE  RecInv'
<1> DEFINE due == {p \in Paths : ~NoRows(ListRecordingsForUpload(row[p]))}
           n == Cardinality(due)
<1>1. n \in Nat /\ n > 0
  <2>1. IsFiniteSet(due) /\ due # {}
    BY FS_Subset, RecordingsAssumption DEF Ingest
  <2> QED BY <2>1, FS_CardinalityType, FS_EmptySet
<1>2. /\ row' = [p \in Paths |-> IF p \in due THEN CHOOSE r \in ListRecordingsForUpload(row[p]) : TRUE
                                 ELSE row[p]]
      /\ UNCHANGED <<media, object, handler, deleter, published, asked>>
  BY DEF Ingest
<1>3. \A p \in Paths : GoesTo(row[p], row'[p]) /\ row'[p].status = row[p].status
  <2> SUFFICES ASSUME NEW p \in Paths PROVE GoesTo(row[p], row'[p]) /\ row'[p].status = row[p].status
    OBVIOUS
  <2>1. row[p] \in Recording
    BY DEF RecInv, RecordingsTyped
  <2>2. CASE p \in due
    <3>1. row'[p] \in ListRecordingsForUpload(row[p])
      BY <1>2, <2>2 DEF NoRows
    <3> QED BY <2>1, <3>1, Leased
  <2>3. CASE p \notin due
    BY <1>2, <2>1, <2>3 DEF GoesTo, RecInv, RowsPlain
  <2> QED BY <2>2, <2>3
<1>4. RowsTold
  <2>1. RowsGo
    BY <1>2, <1>3 DEF RowsGo, GoesTo
  <2>2. EventsTellTheRow'
    BY <1>2, <1>3 DEF RecInv, EventsTellTheRow
  <2> QED BY <1>2, <2>1, <2>2 DEF RowsTold, RecInv, RecordingsTyped
<1>5. PICK order \in [1 .. n -> due] :
         upload' = [upload EXCEPT ![w] =
            [pc |-> "open", item |-> Claimed(order[1]),
             queue |-> [k \in 1 .. (n - 1) |-> Claimed(order[k + 1])]]]
  BY DEF Ingest
<1> DEFINE q == [k \in 1 .. (n - 1) |-> Claimed(order[k + 1])]
           u == [pc |-> "open", item |-> Claimed(order[1]), queue |-> q]
<1> HIDE DEF due, n
<1>6. \A k \in 1 .. n : order[k] \in Paths
  BY <1>5 DEF due
<1>7. \A k \in 1 .. n : /\ Claimed(order[k]) \in Claims /\ Claimed(order[k]).id \in Paths
                        /\ Claimed(order[k]).dest # NoDest
                              => row'[Claimed(order[k]).id].dest = Claimed(order[k]).dest
  BY <1>3, <1>6, ClaimedFits DEF GoesTo
<1>8. q \in Seq(Claims) /\ Len(q) = n - 1 /\ \A k \in 1 .. (n - 1) : q[k] = Claimed(order[k + 1])
  <2>1. \A k \in 1 .. (n - 1) : k + 1 \in 1 .. n
    BY <1>1
  <2>2. q \in [1 .. (n - 1) -> Claims] /\ n - 1 \in Nat
    BY <1>1, <1>7, <2>1
  <2> QED BY <2>2, IsASeq
<1> HIDE DEF q
<1>9. u \in Passes /\ u.pc = "open" /\ u.queue = q /\ u.item = Claimed(order[1])
  BY <1>1, <1>7, <1>8 DEF Passes
<1>10. upload' = [upload EXCEPT ![w] = u]
  BY <1>5 DEF q
<1> HIDE DEF u
<1>11. upload' \in [Workers -> Passes] /\ upload'[w] = u /\ \A v \in Workers \ {w} : upload'[v] = upload[v]
  BY <1>9, <1>10 DEF RecInv, RecordingsTyped
<1>12. /\ u.item \in Claims /\ u.item.id \in Paths /\ (u.item.dest # NoDest => row'[u.item.id].dest = u.item.dest)
       /\ \A k \in 1 .. Len(u.queue) : /\ u.queue[k] \in Claims /\ u.queue[k].id \in Paths
                                       /\ u.queue[k].dest # NoDest => row'[u.queue[k].id].dest = u.queue[k].dest
  BY <1>1, <1>7, <1>8, <1>9
<1>13. UploadFits(w)'
  BY <1>9, <1>11, <1>12 DEF UploadFits, ClaimFits
<1> QED BY <1>2, <1>3, <1>4, <1>11, <1>13, UploadKeeps

LEMMA OpenStagedKeeps ==
    ASSUME RecInv, NEW w \in Workers, OpenStaged(w)
    PROVE  RecInv'
<1> DEFINE item == upload[w].item
<1>1. RowsTold /\ UNCHANGED <<row, media, object, handler, deleter, asked>>
  BY NothingTold DEF OpenStaged
<1>2. item \in Claims /\ item.id \in Paths /\ UploadFits(w) /\ (item.dest # NoDest => row[item.id].dest = item.dest)
  BY DEF RecInv, UploadsFit, UploadFits, ClaimFits, OpenStaged
<1>3. ASSUME NEW l \in {"pin", "put", "retry"}, NEW c \in Claims, UploadTo(w, l, c),
             l = "pin" => c.id \in Paths /\ c.dest # NoDest,
             l = "put" => c = item /\ c.dest # NoDest
      PROVE  RecInv'
  <2>1. /\ upload' \in [Workers -> Passes]
        /\ upload'[w].pc = l /\ upload'[w].item = c /\ upload'[w].queue = upload[w].queue
        /\ \A v \in Workers \ {w} : upload'[v] = upload[v]
    BY <1>3, PassSteps DEF RecInv
  <2>2. UploadFits(w)'
    BY <1>1, <1>2, <1>3, <2>1 DEF UploadFits, ClaimFits, Uploaded
  <2> QED BY <1>1, <2>1, <2>2, UploadKeeps
<1>4. CASE item.dest # NoDest /\ UploadTo(w, "put", item)
  BY <1>2, <1>3, <1>4
<1>5. CASE \E d \in ClientForUpload : UploadTo(w, "pin", [item EXCEPT !.dest = d])
  <2>1. PICK d \in ClientForUpload : UploadTo(w, "pin", [item EXCEPT !.dest = d])
    BY <1>5
  <2>2. d \in Dests /\ NoDest \notin Dests
    BY RecordingsAssumption DEF ClientForUpload, ResolveRecording, GetActiveRecordingStorageIntegration, Dests
  <2> DEFINE c == [item EXCEPT !.dest = d]
  <2>3. c \in Claims /\ c.id = item.id /\ c.dest = d
    BY <1>2, <2>2 DEF Claims
  <2> HIDE DEF c
  <2>4. UploadTo(w, "pin", c)
    BY <2>1 DEF c
  <2> QED BY <1>2, <1>3, <2>2, <2>3, <2>4
<1>6. CASE UploadTo(w, "retry", item)
  BY <1>2, <1>3, <1>6
<1> QED BY <1>4, <1>5, <1>6 DEF OpenStaged

LEMMA PinUploadKeeps ==
    ASSUME RecInv, NEW w \in Workers, PinUpload(w)
    PROVE  RecInv'
<1> DEFINE item == upload[w].item
<1>1. UNCHANGED <<media, object, handler, deleter, asked>> /\ upload[w].pc = "pin"
  BY DEF PinUpload
<1>2. item \in Claims /\ item.id \in Paths /\ UploadFits(w) /\ item.dest \in Dests /\ row[item.id] \in Recording
  BY <1>1 DEF RecInv, RecordingsTyped, Passes, Claims, UploadsFit, UploadFits
<1>3. CASE \E r \in PinRecordingUpload(row[item.id], item.dest) : Write(item.id, r) /\ UploadTo(w, "put", item)
  <2>1. PICK r \in PinRecordingUpload(row[item.id], item.dest) : Write(item.id, r) /\ UploadTo(w, "put", item)
    BY <1>3
  <2>2. GoesTo(row[item.id], r) /\ SameLife(row[item.id], r) /\ r.dest = item.dest /\ r.status = "uploading"
    BY <1>2, Pinned DEF SameLife
  <2>3. RowsTold /\ row'[item.id] = r /\ \A q \in Paths \ {item.id} : row'[q] = row[q]
    BY <1>2, <2>1, <2>2, RowWritten
  <2>4. /\ upload' \in [Workers -> Passes]
        /\ upload'[w].pc = "put" /\ upload'[w].item = item /\ upload'[w].queue = upload[w].queue
        /\ \A v \in Workers \ {w} : upload'[v] = upload[v]
    BY <1>2, <2>1, PassSteps DEF RecInv
  <2>5. item.dest # NoDest
    BY <1>2, RecordingsAssumption DEF Dests
  <2>6. (\A i \in 1 .. Len(upload[w].queue) : ClaimFits(upload[w].queue[i]))'
    BY <1>2, <2>3, <2>4, QueueStays DEF RowsTold
  <2>7. UploadFits(w)'
    BY <1>2, <2>2, <2>3, <2>4, <2>5, <2>6 DEF UploadFits, ClaimFits
  <2> QED BY <1>1, <2>2, <2>3, <2>4, <2>7, UploadKeeps
<1>4. CASE UploadTo(w, "retry", ZeroRecording) /\ UNCHANGED <<row, published>>
  <2>1. ZeroRecording \in Claims
    BY DEF ZeroRecording, Claims
  <2>2. RowsTold
    BY <1>4, NothingTold
  <2>3. /\ upload' \in [Workers -> Passes]
        /\ upload'[w].pc = "retry" /\ upload'[w].queue = upload[w].queue
        /\ \A v \in Workers \ {w} : upload'[v] = upload[v]
    BY <1>4, <2>1, PassSteps DEF RecInv
  <2>4. UploadFits(w)'
    BY <1>2, <1>4, <2>3 DEF UploadFits, ClaimFits
  <2> QED BY <1>1, <1>4, <2>2, <2>3, <2>4, UploadKeeps
<1> QED BY <1>3, <1>4 DEF PinUpload
\* The destination of an upload is the one its claim names.
LEMMA ClientIsNamed ==
    ASSUME NEW dest, NEW d \in ClientFor(dest)
    PROVE  d = dest
  BY DEF ClientFor, ResolveByID, GetStorageIntegration, Returning

LEMMA PutKeeps ==
    ASSUME RecInv, NEW w \in Workers, Put(w)
    PROVE  RecInv'
<1> DEFINE item == upload[w].item
<1>1. UNCHANGED <<row, media, handler, deleter, published, asked>> /\ RowsTold
  BY NothingTold DEF Put
<1>2. /\ item \in Claims /\ item.id \in Paths /\ UploadFits(w)
      /\ item.dest \in Dests /\ item.dest # NoDest /\ row[item.id].dest = item.dest
  BY DEF RecInv, UploadsFit, UploadFits, ClaimFits, Claims, Put
<1>3. CASE UploadTo(w, "retry", item) /\ UNCHANGED object
  <2>1. /\ upload' \in [Workers -> Passes]
        /\ upload'[w].pc = "retry" /\ upload'[w].queue = upload[w].queue
        /\ \A v \in Workers \ {w} : upload'[v] = upload[v]
    BY <1>2, <1>3, PassSteps DEF RecInv
  <2>2. UploadFits(w)'
    BY <1>1, <1>2, <2>1 DEF UploadFits, ClaimFits
  <2> QED BY <1>1, <1>3, <2>1, <2>2, UploadKeeps
<1>4. CASE /\ \E d \in ClientFor(item.dest) : object' = object \cup {<<item.id, d>>}
           /\ UploadTo(w, "complete", item)
  <2>1. object' = object \cup {<<item.id, item.dest>>}
    BY <1>4, ClientIsNamed
  <2>2. /\ upload' \in [Workers -> Passes]
        /\ upload'[w].pc = "complete" /\ upload'[w].item = item /\ upload'[w].queue = upload[w].queue
        /\ \A v \in Workers \ {w} : upload'[v] = upload[v]
    BY <1>2, <1>4, PassSteps DEF RecInv
  <2>3. UploadFits(w)'
    BY <1>1, <1>2, <2>1, <2>2 DEF UploadFits, ClaimFits, Uploaded
  <2>4. ObjectsKept
    BY <1>1, <2>1 DEF ObjectsKept
  <2>5. UploadsFit'
    BY <1>1, <2>2, <2>3, <2>4, PassesFit
  <2>6. RecordingsTyped' /\ RowsPlain' /\ HandlersFit' /\ DeletersFit' /\ EventsTellTheRow'
    BY <1>1, <1>2, <2>1, <2>2 DEF RecInv, RecordingsTyped, RowsPlain, HandlersFit, DeletersFit, EventsTellTheRow
  <2>7. AudioIsKept'
    BY <1>1, <1>2, <2>1 DEF RecInv, AudioIsKept
  <2> QED BY <2>5, <2>6, <2>7 DEF RecInv
<1> QED BY <1>3, <1>4 DEF Put

LEMMA CompleteStepKeeps ==
    ASSUME RecInv, NEW w \in Workers, CompleteStep(w)
    PROVE  RecInv'
<1> DEFINE item == upload[w].item
           p == item.id
<1>1. UNCHANGED <<media, object, handler, deleter, asked>>
  BY DEF CompleteStep
<1>2. /\ item \in Claims /\ p \in Paths /\ UploadFits(w) /\ row[p] \in Recording
      /\ item.dest \in Dests /\ item.dest # NoDest /\ row[p].dest = item.dest
      /\ <<p, row[p].dest>> \in object \/ p \in asked
  BY DEF RecInv, RecordingsTyped, UploadsFit, UploadFits, ClaimFits, Claims, Uploaded, CompleteStep
<1>3. ASSUME RowsTold, row'[p].dest = row[p].dest, UploadTo(w, "remove", item)
      PROVE  /\ upload' \in [Workers -> Passes] /\ UploadFits(w)'
             /\ \A v \in Workers \ {w} : upload'[v] = upload[v]
  <2>1. /\ upload' \in [Workers -> Passes]
        /\ upload'[w].pc = "remove" /\ upload'[w].item = item /\ upload'[w].queue = upload[w].queue
        /\ \A v \in Workers \ {w} : upload'[v] = upload[v]
    BY <1>2, <1>3, PassSteps DEF RecInv
  <2>2. (\A i \in 1 .. Len(upload[w].queue) : ClaimFits(upload[w].queue[i]))'
    BY <1>2, <1>3, <2>1, QueueStays DEF RowsTold
  <2>3. UploadFits(w)'
    BY <1>1, <1>2, <1>3, <2>1, <2>2 DEF UploadFits, ClaimFits, Uploaded
  <2> QED BY <2>1, <2>3
<1>4. CASE CompleteUpload(p, item.dest) /\ UploadTo(w, "remove", item)
  <2>1. PICK r \in CompleteRecording(row[p], item.dest) : mutate(p, r, "completed")
    BY <1>4 DEF CompleteUpload
  <2>2. GoesTo(row[p], r) /\ Tells(row[p], r, "completed") /\ r.dest = row[p].dest /\ "completed" \in Events
    BY <1>2, Completed DEF Tells, Events
  <2>3. RowsTold /\ row'[p] = r /\ \A q \in Paths \ {p} : row'[q] = row[q]
    BY <1>2, <2>1, <2>2, RowMutated
  <2>4. /\ upload' \in [Workers -> Passes] /\ UploadFits(w)'
        /\ \A v \in Workers \ {w} : upload'[v] = upload[v]
    BY <1>3, <1>4, <2>2, <2>3
  <2>5. UploadsFit' /\ DeletersFit' /\ RowsPlain'
    BY <1>1, <2>3, <2>4, SameObjects, PassesFit, DeletersStay, PlainKept DEF RowsTold
  <2>6. RecordingsTyped' /\ HandlersFit' /\ EventsTellTheRow'
    BY <1>1, <2>3, <2>4 DEF RecInv, RecordingsTyped, RowsTold, RowsGo, HandlersFit
  <2>7. \A q \in Paths : row'[q].dest = row[q].dest
    BY <2>2, <2>3
  <2>8. AudioIsKept'
    BY <1>1, <1>2, <2>3, <2>7 DEF RecInv, AudioIsKept
  <2> QED BY <2>5, <2>6, <2>8 DEF RecInv
<1>5. CASE UploadTo(w, "remove", item) /\ UNCHANGED <<row, published>>
  <2>1. RowsTold
    BY <1>5, NothingTold
  <2> QED BY <1>1, <1>3, <1>5, <2>1, UploadKeeps
<1>6. CASE EndPass(w) /\ UNCHANGED <<row, published>>
  <2>1. RowsTold
    BY <1>6, NothingTold
  <2> QED BY <1>1, <1>6, <2>1, PassIsOver, UploadKeeps DEF RecInv
<1> QED BY <1>4, <1>5, <1>6 DEF CompleteStep

LEMMA RemoveStagedKeeps ==
    ASSUME RecInv, NEW w \in Workers, RemoveStaged(w)
    PROVE  RecInv'
<1> DEFINE p == upload[w].item.id
<1>1. UNCHANGED <<row, object, handler, deleter, published, asked>> /\ RowsTold /\ ObjectsKept
  BY NothingTold, SameObjects DEF RemoveStaged
<1>2. p \in Paths /\ UploadFits(w) /\ (<<p, row[p].dest>> \in object \/ p \in asked)
  BY DEF RecInv, RecordingsTyped, UploadsFit, UploadFits, ClaimFits, Uploaded, RemoveStaged
<1>3. media' = [media EXCEPT ![p] = "removed"]
  BY DEF RemoveStaged
<1>4. /\ upload' \in [Workers -> Passes] /\ UploadFits(w)'
      /\ \A v \in Workers \ {w} : upload'[v] = upload[v]
  BY <1>1, <1>2, PassMovesOn DEF RecInv, RowsTold, RemoveStaged
<1>5. UploadsFit'
  BY <1>1, <1>4, PassesFit
<1>6. RecordingsTyped' /\ RowsPlain' /\ HandlersFit' /\ DeletersFit' /\ EventsTellTheRow'
  BY <1>1, <1>3, <1>4 DEF RecInv, RecordingsTyped, RowsPlain, HandlersFit, DeletersFit, EventsTellTheRow
<1>7. AudioIsKept'
  BY <1>1, <1>2, <1>3 DEF RecInv, RecordingsTyped, AudioIsKept
<1> QED BY <1>5, <1>6, <1>7 DEF RecInv

LEMMA RetryOrFailKeeps ==
    ASSUME RecInv, NEW w \in Workers, retryOrFail(w)
    PROVE  RecInv'
<1> DEFINE item == upload[w].item
           p == item.id
           target == IF p = NoPath THEN NoRow ELSE row[p]
<1>1. UNCHANGED <<media, object, handler, deleter, asked>> /\ ObjectsKept /\ UploadFits(w)
  BY SameObjects DEF retryOrFail, RecInv, UploadsFit
<1>2. (p = NoPath \/ p \in Paths) /\ (p \in Paths => row[p] \in Recording /\ p # NoPath)
  BY RecordingsAssumption DEF RecInv, RecordingsTyped, Passes, Claims
<1>3. ASSUME RowsTold, \A q \in Paths : row'[q].status = "completed" => row[q].status = "completed",
             NextItem(w) \/ EndPass(w)
      PROVE  RecInv'
  <2>1. /\ upload' \in [Workers -> Passes] /\ UploadFits(w)'
        /\ \A v \in Workers \ {w} : upload'[v] = upload[v]
    BY <1>1, <1>3, PassMovesOn, PassIsOver DEF RecInv, RowsTold
  <2> QED BY <1>1, <1>3, <2>1, UploadKeeps
<1>4. CASE p # NoPath /\ Fail(p) /\ NextItem(w)
  <2>1. PICK r \in FailRecording(row[p]) : mutate(p, r, "failed")
    BY <1>4 DEF Fail
  <2>2. GoesTo(row[p], r) /\ Tells(row[p], r, "failed") /\ r.status = "failed" /\ "failed" \in Events /\ p \in Paths
    BY <1>2, <1>4, FailedOnce DEF Tells, Events
  <2>3. RowsTold /\ row'[p] = r /\ \A q \in Paths \ {p} : row'[q] = row[q]
    BY <2>1, <2>2, RowMutated
  <2> QED BY <1>3, <1>4, <2>2, <2>3
<1>5. CASE (\E r \in RetryRecordingUpload(target) : Write(p, r)) /\ NextItem(w)
  <2>1. PICK r \in RetryRecordingUpload(target) : Write(p, r)
    BY <1>5
  <2>2. p # NoPath
    <3>1. NoRow.status = "none"
      BY DEF NoRow
    <3> QED BY <2>1, <3>1 DEF RetryRecordingUpload, Returning
  <2>3. GoesTo(row[p], r) /\ SameLife(row[p], r) /\ r.status = "uploading" /\ p \in Paths
    BY <1>2, <2>1, <2>2, Retried DEF SameLife
  <2>4. RowsTold /\ row'[p] = r /\ \A q \in Paths \ {p} : row'[q] = row[q]
    BY <2>1, <2>3, RowWritten
  <2> QED BY <1>3, <1>5, <2>3, <2>4
<1>6. CASE (NextItem(w) \/ EndPass(w)) /\ UNCHANGED <<row, published>>
  BY <1>3, <1>6, NothingTold
<1> QED BY <1>4, <1>5, <1>6 DEF retryOrFail

LEMMA CrashUploadKeeps ==
    ASSUME RecInv, NEW w \in Workers, CrashUpload(w)
    PROVE  RecInv'
<1>1. RowsTold /\ UNCHANGED <<row, media, object, handler, deleter, asked>> /\ EndPass(w)
  BY NothingTold DEF CrashUpload
<1> QED BY <1>1, PassIsOver, UploadKeeps DEF RecInv

-----------------------------------------------------------------------------
\* Deletions.

LEMMA DeleteGetKeeps ==
    ASSUME RecInv, NEW d, NEW p \in Paths, DeleteGet(d, p)
    PROVE  RecInv'
<1>1. UNCHANGED <<row, media, object, upload, handler, published>> /\ RowsTold /\ asked' = asked \cup {p}
  BY NothingTold DEF DeleteGet
<1>2. /\ row[p] \in Recording /\ row[p].status \in Settled
      /\ deleter' = [deleter EXCEPT ![d] = [pc |-> "object", path |-> p, dest |-> row[p].dest]]
  BY DEF RecInv, RecordingsTyped, Recording, Settled, DeleteGet, GetRecordingIncludingDeleted, Returning
<1> DEFINE e == [pc |-> "object", path |-> p, dest |-> row[p].dest]
<1>3. e \in Deletions /\ e.path = p
  BY <1>2 DEF Deletions, Recording
<1> HIDE DEF e
<1>4. deleter' \in [Deleters -> Deletions] /\ DeletersFit'
  BY <1>1, <1>2, <1>3 DEF RecInv, RecordingsTyped, DeletersFit, e
<1>5. ObjectsKept
  BY <1>1 DEF ObjectsKept
<1>6. UploadsFit'
  BY <1>1, <1>5, PassesStay
<1>7. RecordingsTyped' /\ RowsPlain' /\ HandlersFit' /\ EventsTellTheRow'
  BY <1>1, <1>4 DEF RecInv, RecordingsTyped, RowsPlain, HandlersFit, EventsTellTheRow
<1>8. AudioIsKept'
  BY <1>1 DEF RecInv, AudioIsKept
<1> QED BY <1>4, <1>6, <1>7, <1>8 DEF RecInv

LEMMA DeleteObjectKeeps ==
    ASSUME RecInv, NEW d \in Deleters, DeleteObject(d)
    PROVE  RecInv'
<1> DEFINE p == deleter[d].path
<1>1. UNCHANGED <<row, media, upload, handler, published, asked>> /\ RowsTold
  BY NothingTold DEF DeleteObject
<1>2. p \in asked /\ p \in Paths
  BY DEF RecInv, RecordingsTyped, DeletersFit, DeleteObject
<1>3. deleter' \in [Deleters -> Deletions] /\ DeletersFit'
  BY <1>1, DeleterMoves DEF DeleteObject
<1>4. object' = object \/ \E c : object' = object \ {<<p, c>>}
  BY DEF DeleteObject
<1>5. object' \subseteq object /\ \A q \in Paths, c \in Dests : <<q, c>> \in object /\ q # p => <<q, c>> \in object'
  BY <1>4
<1>6. ObjectsKept
  BY <1>1, <1>2, <1>5 DEF ObjectsKept
<1>7. UploadsFit'
  BY <1>1, <1>6, PassesStay
<1>8. RecordingsTyped' /\ RowsPlain' /\ HandlersFit' /\ EventsTellTheRow'
  BY <1>1, <1>3, <1>5 DEF RecInv, RecordingsTyped, RowsPlain, HandlersFit, EventsTellTheRow
<1>9. AudioIsKept'
  <2>1. \A q \in Paths : q \notin asked /\ <<q, row[q].dest>> \in object => <<q, row[q].dest>> \in object'
    BY <1>2, <1>5 DEF RecInv, RecordingsTyped
  <2> QED BY <1>1, <1>5, <2>1 DEF RecInv, AudioIsKept
<1> QED BY <1>3, <1>7, <1>8, <1>9 DEF RecInv

LEMMA DeleteMarkKeeps ==
    ASSUME RecInv, NEW d \in Deleters, DeleteMark(d)
    PROVE  RecInv'
<1> DEFINE p == deleter[d].path
<1>1. UNCHANGED <<media, object, upload, handler, asked>> /\ deleter[d].pc # "idle"
  BY DEF DeleteMark
<1>2. p \in Paths /\ row[p] \in Recording /\ row[p].status \in Settled
  BY <1>1 DEF RecInv, RecordingsTyped, DeletersFit
<1>3. RowsTold /\ \A q \in Paths : row'[q].status = "completed" => row[q].status = "completed"
  <2>1. CASE DeleteRow(p)
    <3>1. PICK r \in DeleteRecording(row[p]) : mutate(p, r, "deleted")
      BY <2>1 DEF DeleteRow
    <3>2. GoesTo(row[p], r) /\ Tells(row[p], r, "deleted") /\ r.status = "deleted" /\ "deleted" \in Events
      BY <1>2, DeletedOnce DEF Tells, Events
    <3> QED BY <1>2, <3>1, <3>2, RowMutated
  <2>2. CASE UNCHANGED <<row, published>>
    BY <2>2, NothingTold
  <2> QED BY <2>1, <2>2 DEF DeleteMark
<1>4. deleter' \in [Deleters -> Deletions] /\ DeletersFit'
  BY <1>1, <1>3, DeleterMoves DEF DeleteMark
<1>5. upload' \in [Workers -> Passes] /\ UploadsFit'
  BY <1>1, <1>3, SameObjects, PassesStay
<1>6. handler' \in [Handlers -> Observations] /\ HandlersFit'
  BY <1>1 DEF RecInv, RecordingsTyped, HandlersFit
<1> QED BY <1>1, <1>3, <1>4, <1>5, <1>6, RecInvKept
LEMMA RecSame ==
    ASSUME RecInv, UNCHANGED <<row, media, object, upload, handler, deleter, published, asked>>
    PROVE  RecInv'
<1>1. RowsTold
  BY NothingTold
<1>2. upload' \in [Workers -> Passes] /\ UploadsFit' /\ DeletersFit'
  BY <1>1, SameObjects, PassesStay, DeletersStay
<1>3. handler' \in [Handlers -> Observations] /\ deleter' \in [Deleters -> Deletions] /\ HandlersFit'
  BY DEF RecInv, RecordingsTyped, HandlersFit
<1> QED BY <1>1, <1>2, <1>3, RecInvKept

LEMMA CleanupFailsKeeps ==
    ASSUME RecInv, NEW c, CleanupFails(c)
    PROVE  RecInv'
<1>1. UNCHANGED <<row, media, object, handler, published, asked>> /\ RowsTold
  BY NothingTold DEF CleanupFails
<1>2. deleter' \in [Deleters -> Deletions] /\ DeletersFit'
  BY <1>1, DeleterMoves DEF CleanupFails
<1>3. /\ upload' \in [Workers -> Passes] /\ (CleanupOf[c] \in Workers => UploadFits(CleanupOf[c])')
      /\ \A v \in Workers \ {CleanupOf[c]} : upload'[v] = upload[v]
  BY PassIsOver DEF RecInv, CleanupFails
<1>4. UploadsFit'
  <2>1. ASSUME NEW v \in Workers PROVE UploadFits(v)'
    BY <1>1, <1>3, SameObjects, PassStays DEF RecInv, UploadsFit, RowsTold
  <2> QED BY <2>1 DEF UploadsFit
<1>5. handler' \in [Handlers -> Observations] /\ HandlersFit'
  BY <1>1 DEF RecInv, RecordingsTyped, HandlersFit
<1> QED BY <1>1, <1>2, <1>3, <1>4, <1>5, RecInvKept

LEMMA TodoKept ==
    ASSUME TodoTyped, [Next]_vars
    PROVE  TodoTyped'
<1>1. CASE UNCHANGED todo
  BY <1>1 DEF TodoTyped
<1>2. ASSUME NEW c \in Cleaners, runOnce(c) \/ CleanupDelete(c) \/ CleanupFails(c)
      PROVE  TodoTyped'
  <2>1. CASE runOnce(c)
    BY <2>1 DEF TodoTyped, runOnce, ListExpiredRecordingsForRetention
  <2>2. CASE CleanupDelete(c)
    BY <2>2 DEF TodoTyped, CleanupDelete
  <2>3. CASE CleanupFails(c)
    BY <2>3 DEF TodoTyped, CleanupFails
  <2> QED BY <1>2, <2>1, <2>2, <2>3
<1> QED BY <1>1, <1>2 DEF Next, RetentionNext, RecordingsNext, Upsert, DeletePolicy, vars, retVars

LEMMA RetentionStep ==
    ASSUME RecInv, TodoTyped, [Next]_vars
    PROVE  RecInv'
<1>1. CASE \E p \in Paths : MediaStep(p) \/ Reconcile(p) \/ UploadFallsDue(p)
  BY <1>1, MediaStepKeeps, ReconcileKeeps, UploadFallsDueKeeps
<1>2. CASE \/ \E h \in Handlers, p \in Paths : HandleFreeSWITCHEvent(h, p)
           \/ \E h \in Handlers : HandlerStep(h)
  BY <1>2, HandleFreeSWITCHEventKeeps, ObserveGetKeeps, ObserveStartedKeeps, ObserveStoppedKeeps DEF HandlerStep
<1>3. CASE \E w \in Workers : UploadStep(w) \/ CrashUpload(w)
  BY <1>3, IngestKeeps, OpenStagedKeeps, PinUploadKeeps, PutKeeps, CompleteStepKeeps, RemoveStagedKeeps,
     RetryOrFailKeeps, CrashUploadKeeps DEF UploadStep
<1>4. CASE \/ \E d \in Requests, p \in Paths : DeleteGet(d, p)
           \/ \E d \in Deleters : DeleteStep(d)
  BY <1>4, DeleteGetKeeps, DeleteObjectKeeps, DeleteMarkKeeps DEF DeleteStep
<1>5. CASE RetentionNext
  <2>1. CASE UNCHANGED recVars
    BY <2>1, RecSame DEF recVars
  <2>2. ASSUME NEW c \in Cleaners, CleanupDelete(c) PROVE RecInv'
    <3>1. PICK p \in todo[c] : DeleteGet(c, p) \/ UNCHANGED recVars
      BY <2>2 DEF CleanupDelete
    <3>2. p \in Paths
      BY <3>1 DEF TodoTyped
    <3> QED BY <2>1, <3>1, <3>2, DeleteGetKeeps
  <2>3. ASSUME NEW c \in Cleaners, CleanupFails(c) PROVE RecInv'
    BY <2>3, CleanupFailsKeeps
  <2> QED BY <1>5, <2>1, <2>2, <2>3 DEF RetentionNext, Upsert, DeletePolicy, runOnce
<1>6. CASE UNCHANGED recVars
  BY <1>6, RecSame DEF recVars
<1> QED BY <1>1, <1>2, <1>3, <1>4, <1>5, <1>6 DEF Next, RecordingsNext, vars

LEMMA RetentionStart == Init => RecInv /\ TodoTyped
<1> SUFFICES ASSUME Init PROVE RecInv /\ TodoTyped
  OBVIOUS
<1>1. /\ NoRow \in Recording /\ NoRow.status = "none" /\ NoRow.dest = NoDest
      /\ IdleUpload \in Passes /\ IdleUpload.pc = "idle" /\ IdleUpload.queue = <<>> /\ 1 .. Len(<<>>) = {}
      /\ IdleHandler \in Observations /\ IdleHandler.pc = "idle"
      /\ IdleDeleter \in Deletions /\ IdleDeleter.pc = "idle"
  BY DEF NoRow, Recording, IdleUpload, Passes, ZeroRecording, Claims, IdleHandler, Observations, IdleDeleter,
         Deletions
<1>2. RecordingsTyped
  BY <1>1 DEF Init, RecInit, RecordingsTyped
<1>3. RowsPlain /\ UploadsFit /\ HandlersFit /\ DeletersFit
  BY <1>1 DEF Init, RecInit, RowsPlain, UploadsFit, UploadFits, HandlersFit, DeletersFit
<1>4. AudioIsKept
  BY <1>1 DEF Init, RecInit, AudioIsKept
<1>5. EventsTellTheRow
  BY <1>1 DEF Init, RecInit, EventsTellTheRow, Story
<1>6. TodoTyped
  BY DEF Init, TodoTyped
<1> QED BY <1>2, <1>3, <1>4, <1>5, <1>6 DEF RecInv

\* The audio of a call is in the bucket its row names before the staged file is
\* removed, leaves it only when somebody asked, and never lies in a second one:
\* under expired leases, two uploads of one row, swapped integrations and crashes
\* (IngestionJob.ingestOne, PinRecordingUpload, Service.Delete).
THEOREM AudioIsSafe == Spec => []AudioIsKept
<1>1. RecInv => AudioIsKept
  BY DEF RecInv
<1> QED BY <1>1, RetentionStart, RetentionStep, TodoKept, PTL DEF Spec

\* The outbox holds the events of a recording's life, once each and in order,
\* however many workers and requests write its row (Repository.mutate).
THEOREM EventsAreTold == Spec => []EventsTellTheRow
<1>1. RecInv => EventsTellTheRow
  BY DEF RecInv
<1> QED BY <1>1, RetentionStart, RetentionStep, TodoKept, PTL DEF Spec
=============================================================================
