---------------------------- MODULE MediaProofs -----------------------------
(***************************************************************************)
(* The media plane and what runs in it.  MediaNodes: the lease sets of the *)
(* media nodes agree with the owner keys and never exceed a node's         *)
(* capacity, lapsed records apart, for any number of nodes, sessions,      *)
(* placers and faults.  MediaSession: one worker's manager                 *)
(* implements the plane's promise, and what leaves its map is released.    *)
(* TurnTaking: in one session, what is still played after a barge-in, the  *)
(* output queue's account and the order of the model's history.            *)
(***************************************************************************)
EXTENDS MediaNodes, MediaSession, TurnTaking, FiniteSetTheorems, TLAPS

\* A release script is only run for a node that GET returned.
ReleasesKnownNode == \A p \in Placers : placer[p].pc = "releaseFrom" => placer[p].at \in Nodes

LeaseTypeOK ==
    /\ leases \in [Nodes -> SUBSET Sessions]
    /\ owner \in [Sessions -> Nodes \cup {NoNode}]
    /\ parted \in [Nodes -> SUBSET Sessions]
    /\ placer \in [Placers -> PlacerStates]

LeaseInv == LeaseTypeOK /\ ReleasesKnownNode /\ LeasesMatchOwners /\ WithinCapacity

\* What a step must show of the two records, when it leaves the placers' part alone.
RecordsKept ==
    /\ leases' \in [Nodes -> SUBSET Sessions]
    /\ owner' \in [Sessions -> Nodes \cup {NoNode}]
    /\ parted' \in [Nodes -> SUBSET Sessions]
    /\ LeasesMatchOwners'
    /\ WithinCapacity'

\* A set of sessions inside one that is small enough, and one more where there is room.
LEMMA LeaseCount ==
    ASSUME NEW S \in SUBSET Sessions
    PROVE  /\ \A T \in SUBSET Sessions :
                 T \subseteq S /\ Cardinality(S) <= MaxSessions => Cardinality(T) <= MaxSessions
           /\ \A s \in Sessions :
                 Cardinality(S) < MaxSessions => Cardinality(S \cup {s}) <= MaxSessions
<1>1. IsFiniteSet(S) /\ Cardinality(S) \in Nat
  BY FS_Subset, FS_CardinalityType, MediaAssumption
<1>2. ASSUME NEW T \in SUBSET Sessions, T \subseteq S PROVE Cardinality(T) \in Nat /\ Cardinality(T) <= Cardinality(S)
  BY <1>1, <1>2, FS_Subset, FS_CardinalityType
<1>3. ASSUME NEW s \in Sessions
      PROVE  Cardinality(S \cup {s}) = IF s \in S THEN Cardinality(S) ELSE Cardinality(S) + 1
  BY <1>1, FS_AddElement
<1> QED BY <1>1, <1>2, <1>3, MediaAssumption

\* A step after which no node counts a session that it did not count before.
LEMMA FewerCounted ==
    ASSUME LeaseInv, leases' \in [Nodes -> SUBSET Sessions], parted' \in [Nodes -> SUBSET Sessions],
           \A m \in Nodes : leases'[m] \ parted'[m] \subseteq leases[m] \ parted[m]
    PROVE  WithinCapacity'
<1> SUFFICES ASSUME NEW m \in Nodes PROVE Cardinality(leases'[m] \ parted'[m]) <= MaxSessions
  BY DEF WithinCapacity
<1>1. leases[m] \ parted[m] \in SUBSET Sessions /\ leases'[m] \ parted'[m] \in SUBSET Sessions
  BY DEF LeaseInv, LeaseTypeOK
<1>2. Cardinality(leases[m] \ parted[m]) <= MaxSessions
  BY DEF LeaseInv, WithinCapacity
<1> QED BY <1>1, <1>2, LeaseCount

\* The release script: session s off node n, and its owner key when it names n.
LEMMA ReleaseKeeps ==
    ASSUME LeaseInv, NEW n \in Nodes, NEW s \in Sessions,
           leases' = [leases EXCEPT ![n] = @ \ {s}],
           owner' = [owner EXCEPT ![s] = IF @ = n THEN NoNode ELSE @],
           parted' = [parted EXCEPT ![n] = @ \ {s}]
    PROVE  RecordsKept
<1>1. /\ leases' \in [Nodes -> SUBSET Sessions] /\ owner' \in [Sessions -> Nodes \cup {NoNode}]
      /\ parted' \in [Nodes -> SUBSET Sessions]
  BY DEF LeaseInv, LeaseTypeOK
<1>2. LeasesMatchOwners'
  BY MediaAssumption DEF LeaseInv, LeaseTypeOK, LeasesMatchOwners
<1>3. \A m \in Nodes : leases'[m] \ parted'[m] \subseteq leases[m] \ parted[m]
  BY DEF LeaseInv, LeaseTypeOK
<1> QED BY <1>1, <1>2, <1>3, FewerCounted DEF RecordsKept

\* One of the two records lapses.
LEMMA LapseKeeps ==
    ASSUME LeaseInv, NEW s \in Sessions, OwnerLapses(s) \/ \E n \in Nodes : EntryLapses(n, s)
    PROVE  RecordsKept
<1>1. PICK n \in Nodes :
         \/ /\ leases' = [leases EXCEPT ![n] = @ \ {s}] /\ owner' = owner
            /\ parted' = [parted EXCEPT ![n] = IF owner[s] = n THEN @ \cup {s} ELSE @ \ {s}]
         \/ /\ owner[s] = n /\ leases' = leases /\ owner' = [owner EXCEPT ![s] = NoNode]
            /\ parted' = [parted EXCEPT ![n] = IF s \in leases[n] THEN @ \cup {s} ELSE @ \ {s}]
  BY DEF OwnerLapses, EntryLapses, LeaseInv, LeaseTypeOK
<1>2. /\ leases' \in [Nodes -> SUBSET Sessions] /\ owner' \in [Sessions -> Nodes \cup {NoNode}]
      /\ parted' \in [Nodes -> SUBSET Sessions]
  BY <1>1 DEF LeaseInv, LeaseTypeOK
<1>3. LeasesMatchOwners'
  BY <1>1, MediaAssumption DEF LeaseInv, LeaseTypeOK, LeasesMatchOwners
<1>4. \A m \in Nodes : leases'[m] \ parted'[m] \subseteq leases[m] \ parted[m]
  BY <1>1 DEF LeaseInv, LeaseTypeOK
<1> QED BY <1>2, <1>3, <1>4, FewerCounted DEF RecordsKept

\* An owner's entry is put back: by a refresh, or by a placer of the same session.
LEMMA ReturnKeeps ==
    ASSUME LeaseInv, NEW n \in Nodes, NEW s \in Sessions, owner[s] = n,
           leases' = [leases EXCEPT ![n] = @ \cup {s}], owner' = owner, parted' = parted
    PROVE  RecordsKept
<1>1. /\ leases' \in [Nodes -> SUBSET Sessions] /\ owner' \in [Sessions -> Nodes \cup {NoNode}]
      /\ parted' \in [Nodes -> SUBSET Sessions]
  BY DEF LeaseInv, LeaseTypeOK
<1>2. LeasesMatchOwners'
  BY DEF LeaseInv, LeaseTypeOK, LeasesMatchOwners
<1>3. s \in leases[n] \/ s \in parted[n]
  BY DEF LeaseInv, LeasesMatchOwners
<1>4. \A m \in Nodes : leases'[m] \ parted'[m] \subseteq leases[m] \ parted[m]
  BY <1>3 DEF LeaseInv, LeaseTypeOK
<1> QED BY <1>1, <1>2, <1>4, FewerCounted DEF RecordsKept

\* A grant of the acquire script.
LEMMA AcquireKeeps ==
    ASSUME LeaseInv, NEW n \in Nodes, NEW s \in Sessions, Grants(n, s), Acquired(n, s)
    PROVE  RecordsKept
<1>1. CASE owner[s] = n
  <2>1. owner' = owner /\ parted' = parted
    BY <1>1 DEF Acquired, LeaseInv, LeaseTypeOK
  <2> QED BY <1>1, <2>1, ReturnKeeps DEF Acquired
<1>2. CASE owner[s] # n
  <2>1. owner[s] = NoNode /\ Cardinality(leases[n]) < MaxSessions
    BY <1>2 DEF Grants
  <2>2. /\ leases' = [leases EXCEPT ![n] = @ \cup {s}] /\ owner' = [owner EXCEPT ![s] = n]
        /\ parted' = [parted EXCEPT ![n] = @ \ {s}]
    BY <1>2 DEF Acquired
  <2>3. /\ leases' \in [Nodes -> SUBSET Sessions] /\ owner' \in [Sessions -> Nodes \cup {NoNode}]
        /\ parted' \in [Nodes -> SUBSET Sessions]
    BY <2>2 DEF LeaseInv, LeaseTypeOK
  <2>4. LeasesMatchOwners'
    BY <2>1, <2>2, MediaAssumption DEF LeaseInv, LeaseTypeOK, LeasesMatchOwners
  <2>5. WithinCapacity'
    <3>1. Cardinality(leases[n] \cup {s}) <= MaxSessions /\ leases[n] \cup {s} \in SUBSET Sessions
      BY <2>1, LeaseCount DEF LeaseInv, LeaseTypeOK
    <3>2. /\ leases'[n] \ parted'[n] \subseteq leases[n] \cup {s} /\ leases'[n] \ parted'[n] \in SUBSET Sessions
          /\ \A m \in Nodes : m # n => leases'[m] = leases[m] /\ parted'[m] = parted[m]
      BY <2>2, <2>3 DEF LeaseInv, LeaseTypeOK
    <3>3. Cardinality(leases'[n] \ parted'[n]) <= MaxSessions
      BY <3>1, <3>2, LeaseCount
    <3>4. ASSUME NEW m \in Nodes, m # n PROVE Cardinality(leases'[m] \ parted'[m]) <= MaxSessions
      BY <3>2, <3>4 DEF LeaseInv, WithinCapacity
    <3> QED BY <3>3, <3>4 DEF WithinCapacity
  <2> QED BY <2>3, <2>4, <2>5 DEF RecordsKept
<1> QED BY <1>1, <1>2

\* Replacing one placer's state by a typed one.
LEMMA PlacerKeeps ==
    ASSUME LeaseInv, NEW p \in Placers, NEW q \in PlacerStates,
           q.pc = "releaseFrom" => q.at \in Nodes,
           placer' = [placer EXCEPT ![p] = q]
    PROVE  placer' \in [Placers -> PlacerStates] /\ ReleasesKnownNode'
BY DEF LeaseInv, LeaseTypeOK, ReleasesKnownNode

\* A placer whose next control state is not the release script.
LEMMA GoesKeeps ==
    ASSUME LeaseInv, NEW p \in Placers, NEW next \in PlacerPCs, next # "releaseFrom", Goes(p, next)
    PROVE  placer' \in [Placers -> PlacerStates] /\ ReleasesKnownNode'
<1>1. placer[p] \in PlacerStates
  BY DEF LeaseInv, LeaseTypeOK
<1>2. [placer[p] EXCEPT !.pc = next] \in PlacerStates /\ [placer[p] EXCEPT !.pc = next].pc = next
  BY <1>1 DEF PlacerStates
<1>3. placer' = [placer EXCEPT ![p] = [placer[p] EXCEPT !.pc = next]]
  BY DEF Goes
<1> QED BY <1>2, <1>3, PlacerKeeps

\* Every step keeps the invariant.
LEMMA LeaseStep == LeaseInv /\ [MediaNext]_mediaVars => LeaseInv'
<1> SUFFICES ASSUME LeaseInv, [MediaNext]_mediaVars PROVE LeaseInv'
  OBVIOUS
<1>0. ASSUME UNCHANGED leaseVars PROVE RecordsKept
  BY <1>0 DEF leaseVars, RecordsKept, LeaseInv, LeaseTypeOK, LeasesMatchOwners, WithinCapacity
<1>1. ASSUME RecordsKept, UNCHANGED placer PROVE LeaseInv'
  BY <1>1 DEF RecordsKept, LeaseInv, LeaseTypeOK, ReleasesKnownNode
<1>2. ASSUME NEW n \in Nodes, Heartbeat(n) \/ Drain(n) \/ NodeEnds(n) PROVE LeaseInv'
  <2>1. ASSUME NEW s \in Sessions, Refresh(n, s) PROVE LeaseInv'
    <3>1. UNCHANGED <<owner, parted, placer>>
      BY <2>1 DEF Refresh
    <3>2. CASE leases' = leases
      BY <1>0, <1>1, <3>1, <3>2 DEF leaseVars
    <3>3. CASE owner[s] = n /\ leases' = [leases EXCEPT ![n] = @ \cup {s}]
      BY <1>1, <3>1, <3>3, ReturnKeeps
    <3> QED BY <2>1, <3>2, <3>3 DEF Refresh
  <2>2. CASE ~\E s \in Sessions : Refresh(n, s)
    <3>1. UNCHANGED leaseVars /\ UNCHANGED placer
      BY <1>2, <2>2 DEF Heartbeat, BeatLoad, BeatSet, BeatKey, BeatIDs, Drain, BeginDrain, DrainSet, DrainKey,
                        RemoveNode, NodeEnds, NodeCrash, KeysExpire, SessionEnds, registry, leaseVars
    <3> QED BY <1>0, <1>1, <3>1
  <2> QED BY <2>1, <2>2
<1>9. ASSUME NEW s \in Sessions, OwnerLapses(s) \/ \E n \in Nodes : EntryLapses(n, s) PROVE LeaseInv'
  <2>1. UNCHANGED placer
    BY <1>9 DEF OwnerLapses, EntryLapses
  <2> QED BY <1>1, <1>9, <2>1, LapseKeeps
<1>3. ASSUME NEW p \in Placers, List(p) PROVE LeaseInv'
  <2>0. PICK free \in SUBSET Nodes :
          placer' = [placer EXCEPT ![p].seen = free,
                                   ![p].pc = IF free = {} THEN "over" ELSE "try"]
    BY <1>3 DEF List
  <2> DEFINE next == IF free = {} THEN "over" ELSE "try"
             q == [placer[p] EXCEPT !.seen = free, !.pc = next]
  <2>1. placer[p] \in PlacerStates
    BY DEF LeaseInv, LeaseTypeOK
  <2>2. next \in PlacerPCs /\ next # "releaseFrom"
    BY DEF PlacerPCs
  <2>3. placer' = [placer EXCEPT ![p] = q]
    BY <2>0, <2>1 DEF PlacerStates, LeaseInv, LeaseTypeOK
  <2>4. RecordsKept
    BY <1>0, <1>3 DEF List, registry, leaseVars
  <2> HIDE DEF next
  <2>5. q \in PlacerStates /\ q.pc # "releaseFrom"
    BY <2>1, <2>2 DEF PlacerStates
  <2> HIDE DEF q
  <2>6. placer' \in [Placers -> PlacerStates] /\ ReleasesKnownNode'
    BY <2>3, <2>5, PlacerKeeps
  <2> QED BY <2>4, <2>6 DEF LeaseInv, LeaseTypeOK, RecordsKept
<1>4. ASSUME NEW p \in Placers, Acquire(p) PROVE LeaseInv'
  <2>1. placer[p] \in PlacerStates /\ SessionOf[p] \in Sessions
    BY MediaAssumption DEF LeaseInv, LeaseTypeOK
  <2>2. PICK n \in placer[p].seen :
          \/ /\ Grants(n, SessionOf[p]) /\ Acquired(n, SessionOf[p])
             /\ placer' = [placer EXCEPT ![p].pc = "create", ![p].at = n]
          \/ /\ placer' = [placer EXCEPT ![p].seen = @ \ {n},
                   ![p].pc = IF placer[p].seen = {n} THEN "over" ELSE "try"]
             /\ UNCHANGED leaseVars
          \/ /\ Goes(p, "over")
             /\ \/ Grants(n, SessionOf[p]) /\ Acquired(n, SessionOf[p])
                \/ UNCHANGED leaseVars
    BY <1>4 DEF Acquire
  <2>3. n \in Nodes
    BY <2>1 DEF PlacerStates
  <2>4. RecordsKept
    <3>1. CASE Grants(n, SessionOf[p]) /\ Acquired(n, SessionOf[p])
      BY <2>1, <2>3, <3>1, AcquireKeeps
    <3>2. CASE UNCHANGED leaseVars
      BY <1>0, <3>2
    <3> QED BY <2>2, <3>1, <3>2
  <2>5. placer' \in [Placers -> PlacerStates] /\ ReleasesKnownNode'
    <3>1. CASE placer' = [placer EXCEPT ![p].pc = "create", ![p].at = n]
      <4>1. [placer[p] EXCEPT !.pc = "create", !.at = n] \in PlacerStates
        BY <2>1, <2>3 DEF PlacerStates, PlacerPCs
      <4>2. [placer[p] EXCEPT !.pc = "create", !.at = n].pc = "create"
        BY <2>1 DEF PlacerStates
      <4>3. placer' = [placer EXCEPT ![p] = [placer[p] EXCEPT !.pc = "create", !.at = n]]
        BY <3>1, <2>1 DEF PlacerStates, LeaseInv, LeaseTypeOK
      <4> QED BY <4>1, <4>2, <4>3, PlacerKeeps
    <3>2. CASE placer' = [placer EXCEPT ![p].seen = @ \ {n},
                   ![p].pc = IF placer[p].seen = {n} THEN "over" ELSE "try"]
      <4> DEFINE next == IF placer[p].seen = {n} THEN "over" ELSE "try"
                 q == [placer[p] EXCEPT !.seen = placer[p].seen \ {n}, !.pc = next]
      <4>1. next \in PlacerPCs /\ next # "releaseFrom"
        BY DEF PlacerPCs
      <4>2. placer' = [placer EXCEPT ![p] = q]
        BY <3>2, <2>1 DEF PlacerStates, LeaseInv, LeaseTypeOK
      <4> HIDE DEF next
      <4>3. q \in PlacerStates /\ q.pc # "releaseFrom"
        BY <2>1, <4>1 DEF PlacerStates
      <4> HIDE DEF q
      <4> QED BY <4>2, <4>3, PlacerKeeps
    <3>3. CASE Goes(p, "over")
      BY <3>3, GoesKeeps DEF PlacerPCs
    <3> QED BY <2>2, <3>1, <3>2, <3>3
  <2> QED BY <2>4, <2>5 DEF LeaseInv, LeaseTypeOK, RecordsKept
<1>5. ASSUME NEW p \in Placers, CreateSessionAt(p) \/ StopSessionAt(p) PROVE LeaseInv'
  <2>1. RecordsKept
    BY <1>0, <1>5 DEF CreateSessionAt, StopSessionAt, registry, leaseVars
  <2>2. Goes(p, "placed") \/ Goes(p, "release")
    BY <1>5 DEF CreateSessionAt, StopSessionAt
  <2>3. placer' \in [Placers -> PlacerStates] /\ ReleasesKnownNode'
    BY <2>2, GoesKeeps DEF PlacerPCs
  <2> QED BY <2>1, <2>3 DEF LeaseInv, LeaseTypeOK, RecordsKept
<1>6. ASSUME NEW p \in Placers, ReleaseGet(p) PROVE LeaseInv'
  <2> DEFINE n == owner[SessionOf[p]]
             next == IF n = NoNode THEN "over" ELSE "releaseFrom"
             q == [placer[p] EXCEPT !.at = n, !.pc = next]
  <2>1. placer[p] \in PlacerStates /\ n \in Nodes \cup {NoNode}
    BY MediaAssumption DEF LeaseInv, LeaseTypeOK
  <2>2. next \in PlacerPCs /\ (next = "releaseFrom" => n \in Nodes)
    BY <2>1 DEF PlacerPCs
  <2>3. placer' = [placer EXCEPT ![p] = q] \/ Goes(p, "over")
    BY <1>6, <2>1 DEF ReleaseGet, PlacerStates, LeaseInv, LeaseTypeOK
  <2>4. RecordsKept
    BY <1>0, <1>6 DEF ReleaseGet, registry, leaseVars
  <2> HIDE DEF n, next
  <2>5. q \in PlacerStates /\ q.pc = next /\ q.at = n
    BY <2>1, <2>2 DEF PlacerStates
  <2> HIDE DEF q
  <2>6. placer' \in [Placers -> PlacerStates] /\ ReleasesKnownNode'
    <3>1. CASE placer' = [placer EXCEPT ![p] = q]
      BY <3>1, <2>2, <2>5, PlacerKeeps
    <3>2. CASE Goes(p, "over")
      BY <3>2, GoesKeeps DEF PlacerPCs
    <3> QED BY <2>3, <3>1, <3>2
  <2> QED BY <2>4, <2>6 DEF LeaseInv, LeaseTypeOK, RecordsKept
<1>7. ASSUME NEW p \in Placers, ReleaseLease(p) PROVE LeaseInv'
  <2>1. placer[p].at \in Nodes /\ SessionOf[p] \in Sessions
    BY <1>7, MediaAssumption DEF ReleaseLease, LeaseInv, ReleasesKnownNode
  <2>2. placer' \in [Placers -> PlacerStates] /\ ReleasesKnownNode'
    BY <1>7, GoesKeeps DEF PlacerPCs, ReleaseLease
  <2>3. CASE /\ leases' = [leases EXCEPT ![placer[p].at] = @ \ {SessionOf[p]}]
             /\ owner' = [owner EXCEPT ![SessionOf[p]] = IF @ = placer[p].at THEN NoNode ELSE @]
             /\ parted' = [parted EXCEPT ![placer[p].at] = @ \ {SessionOf[p]}]
    BY <2>1, <2>2, <2>3, ReleaseKeeps DEF LeaseInv, LeaseTypeOK, RecordsKept
  <2>4. CASE UNCHANGED leaseVars
    BY <1>0, <2>2, <2>4 DEF LeaseInv, LeaseTypeOK, RecordsKept
  <2> QED BY <1>7, <2>3, <2>4 DEF ReleaseLease
<1>8. CASE UNCHANGED mediaVars
  BY <1>0, <1>1, <1>8 DEF mediaVars, leaseVars
<1> QED BY <1>2, <1>3, <1>4, <1>5, <1>6, <1>7, <1>8, <1>9
        DEF MediaNext, PlacerStep

\* Nothing is placed at the start.
LEMMA LeaseStart == MediaInit => LeaseInv
<1> SUFFICES ASSUME MediaInit PROVE LeaseInv
  OBVIOUS
<1>1. LeaseTypeOK
  BY DEF MediaInit, LeaseTypeOK, PlacerStates, PlacerPCs
<1>2. ReleasesKnownNode
  BY DEF MediaInit, ReleasesKnownNode
<1>3. LeasesMatchOwners
  BY MediaAssumption DEF MediaInit, LeasesMatchOwners
<1>4. WithinCapacity
  BY FS_EmptySet, MediaAssumption DEF MediaInit, WithinCapacity
<1> QED BY <1>1, <1>2, <1>3, <1>4 DEF LeaseInv

\* A session counts on exactly the node that its owner key names.
THEOREM LeasesAgreeWithOwners == MediaSpec => []LeasesMatchOwners
<1>1. LeaseInv => LeasesMatchOwners
  BY DEF LeaseInv
<1> QED BY <1>1, LeaseStart, LeaseStep, PTL DEF MediaSpec

\* No interleaving of placers overbooks a node.
THEOREM NodesWithinCapacity == MediaSpec => []WithinCapacity
<1>1. LeaseInv => WithinCapacity
  BY DEF LeaseInv
<1> QED BY <1>1, LeaseStart, LeaseStep, PTL DEF MediaSpec

-----------------------------------------------------------------------------
\* The manager of one worker's sessions.  The goroutine kinds and where each may be.
Ended == {"mark", "close", "remove"}
LabelsOf(p) ==
    IF p \in Creators THEN {"idle", "starting", "issue", "wait"} \cup Ended
    ELSE IF p \in Stoppers THEN {"idle", "wait"} \cup Ended
    ELSE IF p \in Conns THEN {"idle", "claim", "pump"} \cup Ended
    ELSE IF p \in Timers THEN {"idle", "unattached", "close", "remove"}
    ELSE {"idle", "mark", "close"}
ProcStates == [pc : {"idle", "starting", "issue", "wait", "claim", "pump", "unattached"} \cup Ended,
               k : Instances \cup {None}, id : Ids \cup {"none"}]

SessionTypes ==
    /\ sessions \in [Ids -> Instances \cup {None}]
    /\ draining \in BOOLEAN /\ mu \in Creators \cup {"free"} /\ starts \in 0 .. MaxStarts
    /\ inst \in [Instances -> managedSession]
    /\ proc \in [Procs -> ProcStates]
    /\ \A p \in Procs : proc[p].pc \in LabelsOf(p)
    /\ drain \in [pc : {"no", "wait", "done"}, left : SUBSET Instances]

\* What is in the map, in a goroutine's hand or in Drain's snapshot has been
\* started, and an instance that has not is blank.
Started(k) == k \in Instances /\ inst[k].stream # "none"
Known ==
    /\ \A k \in Instances : inst[k].stream = "none" =>
          ~inst[k].attached /\ ~inst[k].finished /\ ~inst[k].timer /\ ~inst[k].control
    /\ \A k \in Instances : inst[k].stream # "none" => k <= starts /\ inst[k].id \in Ids
    /\ \A i \in Ids : sessions[i] # None => Started(sessions[i]) /\ inst[sessions[i]].id = i
    /\ \A p \in Procs : proc[p].pc \notin {"idle", "starting", "issue"} => Started(proc[p].k)
    /\ \A p \in Procs : proc[p].pc = "issue" => proc[p].id \in Ids
    /\ \A k \in drain.left : Started(k)

\* The Start that holds m.mu still finds what it checked when it took it.
StartsAlone ==
    \A c \in Creators : proc[c].pc = "starting" =>
       /\ mu = c /\ proc[c].k = starts /\ proc[c].k \in Instances
       /\ inst[proc[c].k].stream = "none"
       /\ proc[c].id \in Ids /\ sessions[proc[c].id] = None /\ Ready

\* The flags of a managedSession agree.
FlagsAgree ==
    \A k \in Instances : /\ inst[k].finished <=> inst[k].once # "no"
                         /\ inst[k].once = "done" <=> inst[k].stream = "closed"
                         /\ inst[k].control => ~inst[k].finished

\* One connection attaches, and only to a session that is not finished.
Attaching(c) == proc[c].pc \in {"pump"} \cup Ended
OneAttachment ==
    /\ \A c \in Conns : Attaching(c) => inst[proc[c].k].attached
    /\ \A c, d \in Conns : Attaching(c) /\ Attaching(d) /\ proc[c].k = proc[d].k => c = d
    /\ \A p \in Procs : proc[p].pc = "close" => inst[proc[p].k].finished
    /\ \A p \in Timers : proc[p].pc = "close" => ~inst[proc[p].k].attached

\* complete is announced once the resources are released and the pump is over,
\* and nobody removes a session before.
CompleteIsOver ==
    /\ \A k \in Instances : inst[k].complete =>
          /\ inst[k].once = "done"
          /\ \A c \in Conns : proc[c].pc = "pump" => proc[c].k # k
    /\ \A p \in Procs : proc[p].pc = "remove" => inst[proc[p].k].complete

GoneIsComplete ==
    \A k \in Instances :
       (inst[k].stream # "none" /\ sessions[inst[k].id] # k) => inst[k].complete

SessionInv == /\ SessionTypes /\ Known /\ StartsAlone /\ FlagsAgree
              /\ OneAttachment /\ CompleteIsOver /\ GoneIsComplete

LEMMA Kinds ==
    /\ None \notin Instances /\ \A k \in Instances : k \in Nat /\ 0 < k /\ k <= MaxStarts
    /\ MaxStarts \in Nat /\ \A k \in Nat : 0 < k /\ k <= MaxStarts => k \in Instances
    /\ "free" \notin Creators
    /\ Creators \subseteq Procs /\ Stoppers \subseteq Procs /\ Conns \subseteq Procs
    /\ Timers \subseteq Procs /\ Finishers \subseteq Procs
    /\ \A p \in Procs : p \in Creators \/ p \in Stoppers \/ p \in Conns \/ p \in Timers \/ p \in Finishers
    /\ \A p \in Creators : p \notin Stoppers /\ p \notin Conns /\ p \notin Timers /\ p \notin Finishers
    /\ \A p \in Stoppers : p \notin Conns /\ p \notin Timers /\ p \notin Finishers
    /\ \A p \in Conns : p \notin Timers /\ p \notin Finishers
    /\ \A p \in Timers : p \notin Finishers
    /\ \A k \in Instances : <<"timer", k>> \in Timers
    /\ \A p \in Finishers : p[2] \in Instances
<1>1. /\ None \notin Instances /\ \A k \in Instances : k \in Nat /\ 0 < k /\ k <= MaxStarts
      /\ MaxStarts \in Nat /\ \A k \in Nat : 0 < k /\ k <= MaxStarts => k \in Instances
  BY MediaSessionAssumption DEF Instances, None
<1>2. \A p \in Timers : p \notin Finishers
  BY DEF Timers, Finishers
<1>3. (\A k \in Instances : <<"timer", k>> \in Timers) /\ \A p \in Finishers : p[2] \in Instances
  BY DEF Timers, Finishers
<1> QED BY <1>1, <1>2, <1>3, MediaSessionAssumption DEF Procs

\* A goroutine goes on to r.
Moves(p, r) == /\ proc' \in [Procs -> ProcStates] /\ \A q \in Procs : proc'[q].pc \in LabelsOf(q)
              /\ proc'[p] = r
              /\ \A q \in Procs : q # p => proc'[q] = proc[q]

LEMMA ProcNow ==
    ASSUME SessionTypes, NEW p \in Procs, NEW r \in ProcStates, r.pc \in LabelsOf(p),
           proc' = [proc EXCEPT ![p] = r]
    PROVE  Moves(p, r)
BY DEF SessionTypes, Moves

LEMMA IdleIsPlain == /\ IdleProc \in ProcStates
                     /\ IdleProc.pc = "idle" /\ IdleProc.k = None /\ IdleProc.id = "none"
                     /\ \A p : "idle" \in LabelsOf(p)
BY DEF IdleProc, ProcStates, LabelsOf

LEMMA GotoNow ==
    ASSUME SessionTypes, NEW p \in Procs, NEW l, l \in LabelsOf(p), Goto(p, l)
    PROVE  \E r \in ProcStates : /\ Moves(p, r) /\ r.pc = l
                                 /\ l # "idle" => r.k = proc[p].k /\ r.id = proc[p].id
<1>1. CASE l = "idle"
  BY <1>1, IdleIsPlain, ProcNow DEF Goto
<1>2. CASE l # "idle"
  <2> DEFINE r == [proc[p] EXCEPT !.pc = l]
  <2>1. l \in {"idle", "starting", "issue", "wait", "claim", "pump", "unattached"} \cup Ended
    BY DEF LabelsOf, Ended
  <2>2. r \in ProcStates /\ r.pc = l /\ r.k = proc[p].k /\ r.id = proc[p].id
    BY <2>1 DEF SessionTypes, ProcStates
  <2>3. proc' = [proc EXCEPT ![p] = r]
    BY <1>2 DEF Goto
  <2> HIDE DEF r
  <2>4. Moves(p, r)
    BY <2>2, <2>3, ProcNow
  <2> QED BY <2>2, <2>4
<1> QED BY <1>1, <1>2

\* The managedSession k now, and every other as it was.
Becomes(k, attached, finished, timer, control, stream, once, complete) ==
    /\ inst' \in [Instances -> managedSession]
    /\ \A j \in Instances : j # k => inst'[j] = inst[j]
    /\ inst'[k].attached = attached /\ inst'[k].finished = finished /\ inst'[k].timer = timer
    /\ inst'[k].control = control /\ inst'[k].stream = stream /\ inst'[k].once = once
    /\ inst'[k].complete = complete

LEMMA OpenedNow ==
    ASSUME inst \in [Instances -> managedSession], NEW k \in Instances, NEW i \in Ids,
           inst' = [inst EXCEPT ![k].id = i, ![k].stream = "open", ![k].timer = TRUE]
    PROVE  /\ Becomes(k, inst[k].attached, inst[k].finished, TRUE, inst[k].control, "open",
                      inst[k].once, inst[k].complete)
           /\ inst'[k].id = i
<1> DEFINE r == [inst[k] EXCEPT !.id = i, !.stream = "open", !.timer = TRUE]
<1>1. inst[k] \in managedSession
  OBVIOUS
<1>2. r \in managedSession
  BY <1>1 DEF managedSession
<1>3. inst' = [inst EXCEPT ![k] = r]
  OBVIOUS
<1>4. inst' \in [Instances -> managedSession] /\ inst'[k] = r
      /\ \A j \in Instances : j # k => inst'[j] = inst[j]
  <2> HIDE DEF r
  <2> QED BY <1>2, <1>3
<1> QED BY <1>1, <1>4 DEF managedSession, Becomes

LEMMA ClaimedNow ==
    ASSUME inst \in [Instances -> managedSession], NEW k \in Instances,
           inst' = [inst EXCEPT ![k].attached = TRUE, ![k].timer = FALSE]
    PROVE  /\ Becomes(k, TRUE, inst[k].finished, FALSE, inst[k].control, inst[k].stream,
                      inst[k].once, inst[k].complete)
           /\ inst'[k].id = inst[k].id
<1> DEFINE r == [inst[k] EXCEPT !.attached = TRUE, !.timer = FALSE]
<1>1. inst[k] \in managedSession
  OBVIOUS
<1>2. r \in managedSession
  BY <1>1 DEF managedSession
<1>3. inst' = [inst EXCEPT ![k] = r]
  OBVIOUS
<1>4. inst' \in [Instances -> managedSession] /\ inst'[k] = r
      /\ \A j \in Instances : j # k => inst'[j] = inst[j]
  <2> HIDE DEF r
  <2> QED BY <1>2, <1>3
<1> QED BY <1>1, <1>4 DEF managedSession, Becomes

LEMMA ControlNow ==
    ASSUME inst \in [Instances -> managedSession], NEW k \in Instances, NEW b \in BOOLEAN,
           inst' = [inst EXCEPT ![k].control = b]
    PROVE  /\ Becomes(k, inst[k].attached, inst[k].finished, inst[k].timer, b, inst[k].stream,
                      inst[k].once, inst[k].complete)
           /\ inst'[k].id = inst[k].id
BY DEF managedSession, Becomes

LEMMA FiredNow ==
    ASSUME inst \in [Instances -> managedSession], NEW k \in Instances,
           inst' = [inst EXCEPT ![k].timer = FALSE]
    PROVE  /\ Becomes(k, inst[k].attached, inst[k].finished, FALSE, inst[k].control, inst[k].stream,
                      inst[k].once, inst[k].complete)
           /\ inst'[k].id = inst[k].id
BY DEF managedSession, Becomes

LEMMA FinishedNow ==
    ASSUME inst \in [Instances -> managedSession], NEW k \in Instances,
           inst' = [inst EXCEPT ![k].finished = TRUE, ![k].timer = FALSE,
                                ![k].once = "running", ![k].control = FALSE]
    PROVE  /\ Becomes(k, inst[k].attached, TRUE, FALSE, FALSE, inst[k].stream,
                      "running", inst[k].complete)
           /\ inst'[k].id = inst[k].id
<1> DEFINE r == [inst[k] EXCEPT !.finished = TRUE, !.timer = FALSE, !.once = "running", !.control = FALSE]
<1>1. inst[k] \in managedSession
  OBVIOUS
<1>2. r \in managedSession
  BY <1>1 DEF managedSession
<1>3. inst' = [inst EXCEPT ![k] = r]
  OBVIOUS
<1>4. inst' \in [Instances -> managedSession] /\ inst'[k] = r
      /\ \A j \in Instances : j # k => inst'[j] = inst[j]
  <2> HIDE DEF r
  <2> QED BY ZenonT(60), <1>2, <1>3
<1> QED BY <1>1, <1>4 DEF managedSession, Becomes

LEMMA TimedOutNow ==
    ASSUME inst \in [Instances -> managedSession], NEW k \in Instances,
           inst' = [inst EXCEPT ![k].finished = TRUE, ![k].once = "running", ![k].control = FALSE]
    PROVE  /\ Becomes(k, inst[k].attached, TRUE, inst[k].timer, FALSE, inst[k].stream,
                      "running", inst[k].complete)
           /\ inst'[k].id = inst[k].id
<1> DEFINE r == [inst[k] EXCEPT !.finished = TRUE, !.once = "running", !.control = FALSE]
<1>1. inst[k] \in managedSession
  OBVIOUS
<1>2. r \in managedSession
  BY <1>1 DEF managedSession
<1>3. inst' = [inst EXCEPT ![k] = r]
  OBVIOUS
<1>4. inst' \in [Instances -> managedSession] /\ inst'[k] = r
      /\ \A j \in Instances : j # k => inst'[j] = inst[j]
  <2> HIDE DEF r
  <2> QED BY <1>2, <1>3
<1> QED BY <1>1, <1>4 DEF managedSession, Becomes

LEMMA CompleteNow ==
    ASSUME inst \in [Instances -> managedSession], NEW k \in Instances, NEW b \in BOOLEAN,
           inst' = [inst EXCEPT ![k].complete = @ \/ b]
    PROVE  /\ Becomes(k, inst[k].attached, inst[k].finished, inst[k].timer, inst[k].control,
                      inst[k].stream, inst[k].once, inst[k].complete \/ b)
           /\ inst'[k].id = inst[k].id
BY DEF managedSession, Becomes

LEMMA ReleasedNow ==
    ASSUME inst \in [Instances -> managedSession], NEW k \in Instances, NEW b \in BOOLEAN,
           inst' = [inst EXCEPT ![k].stream = "closed", ![k].once = "done",
                                ![k].complete = @ \/ b]
    PROVE  /\ Becomes(k, inst[k].attached, inst[k].finished, inst[k].timer, inst[k].control,
                      "closed", "done", inst[k].complete \/ b)
           /\ inst'[k].id = inst[k].id
<1> DEFINE r == [inst[k] EXCEPT !.stream = "closed", !.once = "done", !.complete = @ \/ b]
<1>1. inst[k] \in managedSession
  OBVIOUS
<1>2. r \in managedSession
  BY <1>1 DEF managedSession
<1>3. inst' = [inst EXCEPT ![k] = r]
  OBVIOUS
<1>4. inst' \in [Instances -> managedSession] /\ inst'[k] = r
      /\ \A j \in Instances : j # k => inst'[j] = inst[j]
  <2> HIDE DEF r
  <2> QED BY ZenonT(60), <1>2, <1>3
<1> QED BY <1>1, <1>4 DEF managedSession, Becomes

-----------------------------------------------------------------------------
\* A goroutine goes on and leaves the sessions alone.
LEMMA MovesKeep ==
    ASSUME SessionInv, NEW p \in Procs, NEW r \in ProcStates, Moves(p, r),
           UNCHANGED <<sessions, draining, inst, drain, starts>>,
           mu' = mu \/ (proc[p].pc = "starting" /\ p \in Creators /\ mu' = "free"),
           r.pc \notin {"starting", "close"},
           r.pc \notin {"idle", "issue"} => Started(r.k),
           r.pc = "issue" => r.id \in Ids,
           p \in Conns /\ r.pc \in {"pump"} \cup Ended =>
              Attaching(p) /\ r.k = proc[p].k /\ (r.pc = "pump" => proc[p].pc = "pump"),
           r.pc = "remove" => inst[r.k].complete
    PROVE  SessionInv'
<1>1. SessionTypes'
  BY Kinds DEF SessionInv, SessionTypes, Moves
<1>2. Known'
  BY DEF SessionInv, Known, Started, Moves
<1>3. StartsAlone'
  BY ZenonT(60), Kinds DEF SessionInv, StartsAlone, Ready, Active, Moves
<1>4. FlagsAgree'
  BY DEF SessionInv, FlagsAgree
<1>5. OneAttachment'
  BY Kinds DEF SessionInv, OneAttachment, Attaching, Moves, Ended
<1>6. CompleteIsOver'
  BY Kinds DEF SessionInv, CompleteIsOver, Moves
<1>7. GoneIsComplete'
  BY DEF SessionInv, GoneIsComplete
<1> QED BY <1>1, <1>2, <1>3, <1>4, <1>5, <1>6, <1>7 DEF SessionInv

LEMMA StartBeginKeeps ==
    ASSUME SessionInv, NEW c \in Creators, NEW i \in Ids, StartBegin(c, i)
    PROVE  SessionInv'
<1> DEFINE r == [IdleProc EXCEPT !.pc = "starting", !.id = i, !.k = starts + 1]
<1>1. starts + 1 \in Instances /\ starts' = starts + 1 /\ starts \in Nat
  BY Kinds DEF SessionInv, SessionTypes, StartBegin
<1>2. r \in ProcStates /\ r.pc = "starting" /\ r.id = i /\ r.k = starts + 1
  BY <1>1, IdleIsPlain DEF ProcStates
<1>3. proc' = [proc EXCEPT ![c] = r]
  BY DEF StartBegin
<1> HIDE DEF r
<1>4. Moves(c, r)
  BY <1>2, <1>3, Kinds, ProcNow DEF SessionInv, LabelsOf
<1>5. inst[starts + 1].stream = "none"
  BY <1>1, Kinds DEF SessionInv, Known
<1>6. SessionTypes'
  BY <1>1, <1>4, Kinds DEF SessionInv, SessionTypes, StartBegin, Moves
<1>7. Known'
  BY <1>1, <1>2, <1>4, Kinds DEF SessionInv, Known, Started, Moves, StartBegin
<1>8. StartsAlone'
  BY <1>1, <1>2, <1>4, <1>5, Kinds DEF SessionInv, StartsAlone, Moves, StartBegin, Ready, Active
<1>9. FlagsAgree'
  BY DEF SessionInv, FlagsAgree, StartBegin
<1>10. OneAttachment'
  BY <1>2, <1>4, Kinds DEF SessionInv, OneAttachment, Attaching, Moves, Ended, StartBegin
<1>11. CompleteIsOver'
  BY <1>2, <1>4, Kinds DEF SessionInv, CompleteIsOver, Moves, StartBegin
<1>12. GoneIsComplete'
  BY DEF SessionInv, GoneIsComplete, StartBegin
<1> QED BY <1>6, <1>7, <1>8, <1>9, <1>10, <1>11, <1>12 DEF SessionInv

LEMMA StartOkKeeps ==
    ASSUME SessionInv, NEW c \in Creators, StartOk(c)
    PROVE  SessionInv'
<1> DEFINE k == proc[c].k
           i == proc[c].id
<1>1. /\ k \in Instances /\ k = starts /\ inst[k].stream = "none" /\ i \in Ids
      /\ sessions[i] = None /\ mu = c
      /\ ~inst[k].attached /\ ~inst[k].finished /\ ~inst[k].control
  BY DEF SessionInv, StartsAlone, Known, StartOk
<1>2. /\ Becomes(k, inst[k].attached, inst[k].finished, TRUE, inst[k].control, "open",
                 inst[k].once, inst[k].complete)
      /\ inst'[k].id = i
  BY <1>1, OpenedNow DEF SessionInv, SessionTypes, StartOk
<1>3. PICK r \in ProcStates : Moves(c, r) /\ r.pc = "issue" /\ r.k = k /\ r.id = i
  BY Kinds, GotoNow DEF SessionInv, StartOk, LabelsOf
<1>4. sessions' \in [Ids -> Instances \cup {None}] /\ sessions'[i] = k
      /\ \A j \in Ids : j # i => sessions'[j] = sessions[j]
  BY <1>1 DEF SessionInv, SessionTypes, StartOk
<1>5. mu' = "free" /\ UNCHANGED <<draining, drain, starts>>
  BY DEF StartOk
<1>6. \A d \in Creators : d # c => proc[d].pc # "starting"
  BY <1>1 DEF SessionInv, StartsAlone
<1>7. \A p \in Procs : proc[p].pc \notin {"idle", "starting", "issue"} => proc[p].k # k
  BY <1>1 DEF SessionInv, Known, Started
<1>8. \A j \in Ids : sessions[j] # k
  BY <1>1, Kinds DEF SessionInv, Known, Started
<1> HIDE DEF k, i
<1>9. SessionTypes'
  BY <1>2, <1>3, <1>4, <1>5 DEF SessionInv, SessionTypes, Moves, Becomes
<1>10. Known'
  <2>1. \A j \in Instances : inst'[j].stream = "none" =>
           ~inst'[j].attached /\ ~inst'[j].finished /\ ~inst'[j].timer /\ ~inst'[j].control
    BY <1>1, <1>2 DEF SessionInv, Known, Becomes
  <2>2. \A j \in Instances : inst'[j].stream # "none" => j <= starts' /\ inst'[j].id \in Ids
    BY <1>1, <1>2, <1>5, Kinds DEF SessionInv, SessionTypes, Known, Becomes
  <2>3. \A j \in Instances : inst[j].stream # "none" => inst'[j].stream # "none"
    BY <1>1, <1>2 DEF Becomes
  <2>4. \A j \in Ids : sessions'[j] # None =>
           /\ sessions'[j] \in Instances /\ inst'[sessions'[j]].stream # "none"
           /\ inst'[sessions'[j]].id = j
    <3>1. inst'[k].stream # "none" /\ inst'[k].id = i
      BY <1>2 DEF Becomes
    <3> SUFFICES ASSUME NEW j \in Ids, j # i, sessions[j] # None
                 PROVE  /\ sessions[j] \in Instances /\ inst'[sessions[j]].stream # "none"
                        /\ inst'[sessions[j]].id = j
      BY <1>1, <1>4, <3>1
    <3> QED BY <1>2, <1>8 DEF SessionInv, Known, Started, Becomes
  <2>5. \A p \in Procs : proc'[p].pc \notin {"idle", "starting", "issue"} =>
           proc'[p].k \in Instances /\ inst'[proc'[p].k].stream # "none"
    BY <1>3, <2>3 DEF SessionInv, Known, Started, Moves
  <2>6. \A p \in Procs : proc'[p].pc = "issue" => proc'[p].id \in Ids
    BY <1>1, <1>3 DEF SessionInv, Known, Moves
  <2> QED BY <1>5, <2>1, <2>2, <2>3, <2>4, <2>5, <2>6 DEF SessionInv, Known, Started
<1>11. StartsAlone'
  BY <1>3, <1>6, Kinds DEF StartsAlone, Moves
<1>12. FlagsAgree'
  BY <1>1, <1>2 DEF SessionInv, FlagsAgree, Becomes
<1>13. OneAttachment'
  BY SMTT(30), <1>2, <1>3, <1>7, Kinds DEF SessionInv, SessionTypes, OneAttachment, Attaching, Moves, Ended, Known, Started, Becomes
<1>14. CompleteIsOver'
  BY <1>2, <1>3, <1>7, Kinds DEF SessionInv, CompleteIsOver, Moves, Known, Started, Becomes
<1>15. GoneIsComplete'
  BY <1>1, <1>2, <1>4, <1>8, Kinds DEF SessionInv, Known, GoneIsComplete, Becomes
<1> QED BY <1>9, <1>10, <1>11, <1>12, <1>13, <1>14, <1>15 DEF SessionInv

\* A goroutine goes on and changes the managedSession k it has.
Touches(k) ==
    LET old == inst[k]
        new == inst'[k]
    IN  /\ inst' \in [Instances -> managedSession]
        /\ \A j \in Instances : j # k => inst'[j] = inst[j]
        /\ new.id = old.id /\ new.stream # "none"
        /\ new.finished <=> new.once # "no"
        /\ new.once = "done" <=> new.stream = "closed"
        /\ new.control => ~new.finished
        /\ old.attached => new.attached
        /\ new.attached => old.attached \/ ~old.finished
        /\ old.finished => new.finished
        /\ old.complete => new.complete
        /\ new.complete => new.once = "done"

LEMMA TouchKeeps ==
    ASSUME SessionInv, NEW k \in Instances, Started(k), Touches(k),
           UNCHANGED <<sessions, draining, mu, drain, starts>>,
           NEW p \in Procs, NEW r \in ProcStates, Moves(p, r),
           r.pc \notin {"starting", "issue"}, r.pc # "idle" => r.k = k,
           p \in Conns /\ r.pc \in {"pump"} \cup Ended =>
              /\ inst'[k].attached
              /\ (Attaching(p) /\ proc[p].k = k) \/ ~inst[k].attached,
           r.pc = "close" => inst'[k].finished /\ (p \in Timers => ~inst'[k].attached),
           r.pc = "remove" => inst'[k].complete,
           inst'[k].complete => \A q \in Conns : proc'[q].pc = "pump" => proc'[q].k # k
    PROVE  SessionInv'
<1>1. SessionTypes'
  BY DEF SessionInv, SessionTypes, Moves, Touches
<1>2. Known'
  <2>1. \A j \in Instances : inst'[j].stream = "none" =>
           ~inst'[j].attached /\ ~inst'[j].finished /\ ~inst'[j].timer /\ ~inst'[j].control
    BY DEF SessionInv, Known, Touches
  <2>2. \A j \in Instances : inst'[j].stream # "none" => j <= starts /\ inst'[j].id \in Ids
    BY DEF SessionInv, Known, Started, Touches
  <2>3. \A j \in Instances : inst'[j].id = inst[j].id /\ (inst[j].stream # "none" => inst'[j].stream # "none")
    BY DEF Touches
  <2>4. \A q \in Procs : proc'[q].pc \notin {"idle", "starting", "issue"} =>
           proc'[q].k \in Instances /\ inst'[proc'[q].k].stream # "none"
    BY <2>3 DEF SessionInv, Known, Started, Moves
  <2>5. \A q \in Procs : proc'[q].pc = "issue" => proc'[q].id \in Ids
    BY DEF SessionInv, Known, Moves
  <2> QED BY <2>1, <2>2, <2>3, <2>4, <2>5 DEF SessionInv, Known, Started
<1>3. StartsAlone'
  <2>1. \A q \in Creators : proc'[q].pc = "starting" => proc'[q] = proc[q] /\ proc[q].k # k
    BY Kinds DEF SessionInv, StartsAlone, Started, Moves
  <2> QED BY <2>1 DEF SessionInv, StartsAlone, Ready, Active, Touches
<1>4. FlagsAgree'
  BY DEF SessionInv, FlagsAgree, Touches
<1>5. \A j \in Instances :
         /\ inst[j].attached => inst'[j].attached
         /\ inst[j].finished => inst'[j].finished
         /\ inst[j].finished /\ ~inst[j].attached => ~inst'[j].attached
         /\ inst[j].complete => inst'[j].complete
  BY DEF Touches
<1>6. OneAttachment'
  <2>1. \A q \in Conns : proc'[q].pc \in {"pump"} \cup Ended => inst'[proc'[q].k].attached
    BY <1>5, Kinds DEF SessionInv, OneAttachment, Attaching, Moves, Ended, Known, Started, Touches
  <2>2. \A x, y \in Conns :
           (/\ proc'[x].pc \in {"pump"} \cup Ended /\ proc'[y].pc \in {"pump"} \cup Ended
            /\ proc'[x].k = proc'[y].k) => x = y
    <3>1. p \in Conns /\ r.pc \in {"pump"} \cup Ended =>
             r.k = k /\ \A y \in Conns : y # p /\ Attaching(y) => proc[y].k # k
      BY DEF SessionInv, OneAttachment, Ended
    <3> SUFFICES ASSUME NEW x \in Conns, NEW y \in Conns, x # y,
                        proc'[x].pc \in {"pump"} \cup Ended, proc'[y].pc \in {"pump"} \cup Ended,
                        proc'[x].k = proc'[y].k
                 PROVE  FALSE
      OBVIOUS
    <3>2. CASE x # p /\ y # p
      BY <3>2, Kinds DEF SessionInv, OneAttachment, Attaching, Moves
    <3>3. CASE x = p
      BY <3>1, <3>3, Kinds DEF Attaching, Moves
    <3>4. CASE y = p
      BY <3>1, <3>4, Kinds DEF Attaching, Moves
    <3> QED BY <3>2, <3>3, <3>4
  <2>3. \A q \in Procs : proc'[q].pc = "close" => inst'[proc'[q].k].finished
    BY <1>5 DEF SessionInv, OneAttachment, Moves, Known, Started, Touches
  <2>4. \A q \in Timers : proc'[q].pc = "close" => ~inst'[proc'[q].k].attached
    BY <1>5, Kinds DEF SessionInv, OneAttachment, Moves, Known, Started, Touches
  <2> QED BY <2>1, <2>2, <2>3, <2>4 DEF OneAttachment, Attaching
<1>7. CompleteIsOver'
  <2>1. \A j \in Instances : inst'[j].complete =>
           /\ inst'[j].once = "done"
           /\ \A q \in Conns : proc'[q].pc = "pump" => proc'[q].k # j
    BY Kinds DEF SessionInv, CompleteIsOver, Moves, Touches
  <2>2. \A q \in Procs : proc'[q].pc = "remove" => inst'[proc'[q].k].complete
    BY <1>5 DEF SessionInv, CompleteIsOver, Moves, Known, Started, Touches
  <2> QED BY <2>1, <2>2 DEF CompleteIsOver
<1>8. GoneIsComplete'
  BY <1>5 DEF SessionInv, GoneIsComplete, Touches, Started
<1> QED BY <1>1, <1>2, <1>3, <1>4, <1>6, <1>7, <1>8 DEF SessionInv

LEMMA ControlKeeps ==
    ASSUME SessionInv, NEW k \in Instances, NEW b \in BOOLEAN, b => ~inst[k].finished, Started(k),
           inst' = [inst EXCEPT ![k].control = b],
           UNCHANGED <<sessions, draining, mu, proc, drain, starts>>
    PROVE  SessionInv'
<1>1. /\ Becomes(k, inst[k].attached, inst[k].finished, inst[k].timer, b, inst[k].stream,
                 inst[k].once, inst[k].complete)
      /\ inst'[k].id = inst[k].id
  BY ControlNow DEF SessionInv, SessionTypes
<1>2. inst' \in [Instances -> managedSession] /\ \A j \in Instances :
         /\ inst'[j].id = inst[j].id /\ inst'[j].attached = inst[j].attached
         /\ inst'[j].finished = inst[j].finished /\ inst'[j].timer = inst[j].timer
         /\ inst'[j].stream = inst[j].stream /\ inst'[j].once = inst[j].once
         /\ inst'[j].complete = inst[j].complete
         /\ inst'[j].control = IF j = k THEN b ELSE inst[j].control
  BY <1>1 DEF Becomes
<1>3. SessionTypes'
  BY <1>2 DEF SessionInv, SessionTypes
<1>4. Known'
  BY <1>2 DEF SessionInv, Known, Started
<1>5. StartsAlone'
  BY <1>2 DEF SessionInv, StartsAlone, Ready, Active
<1>6. FlagsAgree'
  BY <1>2 DEF SessionInv, FlagsAgree
<1>7. OneAttachment'
  BY <1>2, Kinds DEF SessionInv, OneAttachment, Attaching, Known, Started, Ended
<1>8. CompleteIsOver'
  BY <1>2 DEF SessionInv, CompleteIsOver, Known, Started
<1>9. GoneIsComplete'
  BY <1>2 DEF SessionInv, GoneIsComplete
<1> QED BY <1>3, <1>4, <1>5, <1>6, <1>7, <1>8, <1>9 DEF SessionInv

LEMMA ProcHas ==
    ASSUME SessionInv, NEW p \in Procs, proc[p].pc \notin {"idle", "starting", "issue"}
    PROVE  proc[p].k \in Instances /\ Started(proc[p].k) /\ inst[proc[p].k] \in managedSession
BY DEF SessionInv, SessionTypes, Known, Started

LEMMA AttachClaimKeeps ==
    ASSUME SessionInv, NEW p \in Conns, AttachClaim(p)
    PROVE  SessionInv'
<1> DEFINE k == proc[p].k
<1>1. p \in Procs /\ k \in Instances /\ Started(k) /\ inst[k] \in managedSession
  BY Kinds, ProcHas DEF AttachClaim
<1>2. CASE Goto(p, "idle") /\ UNCHANGED inst
  <2>1. PICK r \in ProcStates : Moves(p, r) /\ r.pc = "idle"
    BY <1>1, <1>2, IdleIsPlain, GotoNow DEF SessionInv
  <2> QED BY <1>1, <1>2, <2>1, MovesKeep DEF AttachClaim, Ended
<1>3. CASE /\ ~inst[k].attached /\ ~inst[k].finished /\ Goto(p, "pump")
           /\ inst' = [inst EXCEPT ![k].attached = TRUE, ![k].timer = FALSE]
  <2>1. PICK r \in ProcStates : Moves(p, r) /\ r.pc = "pump" /\ r.k = k
    BY <1>1, <1>3, Kinds, GotoNow DEF SessionInv, LabelsOf
  <2>2. Becomes(k, TRUE, FALSE, FALSE, inst[k].control, inst[k].stream, inst[k].once, inst[k].complete)
        /\ inst'[k].id = inst[k].id
    BY ZenonT(60), <1>1, <1>3, ClaimedNow DEF SessionInv, SessionTypes, managedSession
  <2>3. inst[k].complete = FALSE /\ inst[k].control \in BOOLEAN
    BY <1>1, <1>3 DEF SessionInv, CompleteIsOver, FlagsAgree, managedSession
  <2>4. Touches(k) /\ inst'[k].attached /\ ~inst'[k].complete
    BY <1>1, <1>3, <2>2, <2>3 DEF Touches, Becomes, SessionInv, FlagsAgree, Started
  <2>5. UNCHANGED <<sessions, draining, mu, drain, starts>>
    BY DEF AttachClaim
  <2>6. p \notin Timers /\ r.pc \notin {"starting", "issue", "close", "remove"}
    BY <2>1, Kinds
  <2> HIDE DEF k
  <2>7. ~inst[k].attached
    BY <1>3
  <2> QED BY <1>1, <2>1, <2>4, <2>5, <2>6, <2>7, TouchKeeps
<1> QED BY <1>2, <1>3 DEF AttachClaim

LEMMA finishKeeps ==
    ASSUME SessionInv, NEW p \in Procs, finish(p)
    PROVE  SessionInv'
<1> DEFINE k == proc[p].k
<1>1. k \in Instances /\ Started(k) /\ inst[k] \in managedSession
  BY ProcHas DEF finish
<1>2. UNCHANGED <<sessions, draining, mu, drain, starts>> /\ proc[p].pc = "mark" /\ p \notin Timers
  BY Kinds DEF finish, SessionInv, SessionTypes, LabelsOf, Ended
<1>3. p \in Conns => Attaching(p) /\ inst[k].attached
  BY <1>2 DEF SessionInv, OneAttachment, Attaching, Ended
<1>4. CASE /\ inst[k].once = "no" /\ Goto(p, "close")
           /\ inst' = [inst EXCEPT ![k].finished = TRUE, ![k].timer = FALSE,
                                   ![k].once = "running", ![k].control = FALSE]
  <2>1. "close" \in LabelsOf(p)
    BY DEF LabelsOf, Ended
  <2>2. PICK r \in ProcStates : Moves(p, r) /\ r.pc = "close" /\ r.k = k
    BY <1>1, <1>4, <2>1, GotoNow DEF SessionInv
  <2>3. Becomes(k, inst[k].attached, TRUE, FALSE, FALSE, inst[k].stream, "running", inst[k].complete)
        /\ inst'[k].id = inst[k].id
    BY <1>1, <1>4, FinishedNow DEF SessionInv, SessionTypes
  <2>4. inst[k].complete = FALSE /\ inst[k].stream = "open" /\ inst[k].attached \in BOOLEAN
        /\ inst[k].finished = FALSE
    BY <1>1, <1>4 DEF SessionInv, CompleteIsOver, FlagsAgree, Started, managedSession
  <2>5. Touches(k) /\ inst'[k].finished /\ ~inst'[k].complete /\ inst'[k].attached = inst[k].attached
    BY <2>3, <2>4 DEF Touches, Becomes
  <2>6. p \in Conns => inst'[k].attached /\ Attaching(p) /\ proc[p].k = k
    BY <1>3, <2>5
  <2>7. r.pc \notin {"starting", "issue", "remove"}
    BY <2>2
  <2> HIDE DEF k
  <2> QED BY <1>1, <1>2, <2>2, <2>5, <2>6, <2>7, TouchKeeps
<1>5. CASE /\ inst[k].once = "done" /\ Goto(p, After(p))
           /\ inst' = [inst EXCEPT ![k].complete = @ \/ Completes(p, k)]
  <2>1. After(p) \in LabelsOf(p) /\ After(p) \in {"idle", "wait", "remove"}
        /\ (After(p) = "remove" => p \in Conns)
    BY <1>2, Kinds DEF After, LabelsOf, Ended
  <2>2. PICK r \in ProcStates : Moves(p, r) /\ r.pc = After(p) /\ (r.pc # "idle" => r.k = k)
    BY <1>5, <2>1, GotoNow DEF SessionInv
  <2> DEFINE b == Completes(p, k)
             d == inst[k].complete \/ b
  <2>3. b \in BOOLEAN /\ d \in BOOLEAN /\ (p \in Conns => b) /\ (b => p \in Conns \/ ~inst[k].attached)
    BY DEF Completes
  <2>4. inst' = [inst EXCEPT ![k].complete = @ \/ b]
    BY <1>5
  <2>5. inst[k].complete => d
    OBVIOUS
  <2> HIDE DEF b, k
  <2>6. Becomes(k, inst[k].attached, inst[k].finished, inst[k].timer, inst[k].control,
                inst[k].stream, inst[k].once, d)
        /\ inst'[k].id = inst[k].id
    BY <1>1, <2>3, <2>4, CompleteNow DEF SessionInv, SessionTypes
  <2>7. Touches(k) /\ inst'[k].complete = d /\ inst'[k].attached = inst[k].attached
    BY <1>1, <1>5, <2>5, <2>6 DEF Touches, Becomes, SessionInv, FlagsAgree, CompleteIsOver, Started
  <2>8. d => \A q \in Conns : proc'[q].pc = "pump" => proc'[q].k # k
    BY <1>1, <1>2, <1>3, <2>1, <2>2, <2>3, Kinds
       DEF k, SessionInv, CompleteIsOver, OneAttachment, Attaching, Moves, Ended
  <2>9. p \in Conns => inst'[k].attached /\ Attaching(p) /\ proc[p].k = k
    BY <1>3, <2>7 DEF k
  <2>10. r.pc = "remove" => d
    BY <2>1, <2>2, <2>3
  <2>11. r.pc \notin {"starting", "issue", "close"}
    BY <2>1, <2>2
  <2> HIDE DEF d
  <2> QED BY <1>1, <1>2, <2>2, <2>7, <2>8, <2>9, <2>10, <2>11, TouchKeeps
<1> QED BY <1>4, <1>5 DEF finish

LEMMA finishResourcesKeeps ==
    ASSUME SessionInv, NEW p \in Procs, finishResources(p)
    PROVE  SessionInv'
<1> DEFINE k == proc[p].k
           b == Completes(p, k)
           d == inst[k].complete \/ b
<1>1. k \in Instances /\ Started(k) /\ inst[k] \in managedSession
  BY ProcHas DEF finishResources
<1>2. UNCHANGED <<sessions, draining, mu, drain, starts>> /\ proc[p].pc = "close"
  BY DEF finishResources
<1>3. p \in Conns => Attaching(p) /\ inst[k].attached
  BY <1>2 DEF SessionInv, OneAttachment, Attaching, Ended
<1>4. p \in Timers => ~inst[k].attached
  BY <1>2 DEF SessionInv, OneAttachment
<1>5. After(p) \in LabelsOf(p) /\ After(p) \in {"idle", "wait", "remove"}
      /\ (After(p) = "remove" => p \in Conns \/ p \in Timers)
  BY Kinds DEF After, LabelsOf, Ended
<1>6. PICK r \in ProcStates : Moves(p, r) /\ r.pc = After(p) /\ (r.pc # "idle" => r.k = k)
  BY <1>5, GotoNow DEF SessionInv, finishResources
<1>7. b \in BOOLEAN /\ d \in BOOLEAN /\ (p \in Conns => b) /\ (~inst[k].attached => b)
      /\ (b => p \in Conns \/ ~inst[k].attached)
  BY DEF Completes
<1>8. inst' = [inst EXCEPT ![k].stream = "closed", ![k].once = "done", ![k].complete = @ \/ b]
  BY DEF finishResources
<1>9. (inst[k].complete => d) /\ inst[k].finished /\ inst[k].control = FALSE
  BY <1>1, <1>2 DEF SessionInv, OneAttachment, FlagsAgree, managedSession
<1> HIDE DEF b, k
<1>10. Becomes(k, inst[k].attached, inst[k].finished, inst[k].timer, inst[k].control,
               "closed", "done", d)
       /\ inst'[k].id = inst[k].id
  BY <1>1, <1>7, <1>8, ReleasedNow DEF SessionInv, SessionTypes
<1>11. inst[k].attached \in BOOLEAN /\ inst[k].finished = TRUE /\ inst[k].timer \in BOOLEAN
  BY <1>1, <1>9 DEF managedSession
<1>12. Touches(k) /\ inst'[k].complete = d /\ inst'[k].attached = inst[k].attached
  BY <1>9, <1>10, <1>11 DEF Touches, Becomes
<1>13. d => \A q \in Conns : proc'[q].pc = "pump" => proc'[q].k # k
  BY <1>1, <1>2, <1>3, <1>5, <1>6, <1>7, Kinds
     DEF k, SessionInv, CompleteIsOver, OneAttachment, Attaching, Moves, Ended
<1>14. p \in Conns => inst'[k].attached /\ Attaching(p) /\ proc[p].k = k
  BY <1>3, <1>12 DEF k
<1>15. r.pc = "remove" => d
  BY <1>4, <1>5, <1>6, <1>7
<1>16. r.pc \notin {"starting", "issue", "close"}
  BY <1>5, <1>6
<1> HIDE DEF d
<1> QED BY <1>1, <1>2, <1>6, <1>12, <1>13, <1>14, <1>15, <1>16, TouchKeeps

LEMMA TimerFiresKeeps ==
    ASSUME SessionInv, NEW k \in Instances, TimerFires(k)
    PROVE  SessionInv'
<1> DEFINE p == <<"timer", k>>
           r == [IdleProc EXCEPT !.pc = "unattached", !.k = k, !.id = inst[k].id]
<1>1. p \in Timers /\ p \in Procs /\ p \notin Conns
  BY Kinds
<1>2. Started(k) /\ inst[k] \in managedSession
  BY DEF TimerFires, SessionInv, SessionTypes, Known, Started
<1>3. r \in ProcStates /\ r.pc = "unattached" /\ r.k = k
  BY <1>2, IdleIsPlain DEF ProcStates, managedSession
<1>4. proc' = [proc EXCEPT ![p] = r] /\ UNCHANGED <<sessions, draining, mu, drain, starts>>
      /\ inst' = [inst EXCEPT ![k].timer = FALSE]
  BY DEF TimerFires
<1>5. "unattached" \in LabelsOf(p)
  BY <1>1, Kinds DEF LabelsOf
<1> HIDE DEF p, r
<1>6. Moves(p, r)
  BY <1>1, <1>3, <1>4, <1>5, ProcNow DEF SessionInv
<1>7. Becomes(k, inst[k].attached, inst[k].finished, FALSE, inst[k].control, inst[k].stream,
              inst[k].once, inst[k].complete)
      /\ inst'[k].id = inst[k].id
  BY <1>4, FiredNow DEF SessionInv, SessionTypes
<1>8. Touches(k) /\ inst'[k].complete = inst[k].complete
  BY <1>2, <1>7 DEF Touches, Becomes, SessionInv, FlagsAgree, CompleteIsOver, Started
<1>9. inst[k].complete => \A q \in Conns : proc'[q].pc = "pump" => proc'[q].k # k
  BY <1>1, <1>6, Kinds DEF SessionInv, CompleteIsOver, Moves
<1>10. r.pc \notin {"starting", "issue", "close", "remove"}
  BY <1>3
<1> QED BY <1>1, <1>2, <1>3, <1>4, <1>6, <1>8, <1>9, <1>10, TouchKeeps

LEMMA finishUnattachedKeeps ==
    ASSUME SessionInv, NEW p \in Procs, finishUnattached(p)
    PROVE  SessionInv'
<1> DEFINE k == proc[p].k
<1>1. k \in Instances /\ Started(k) /\ inst[k] \in managedSession
  BY ProcHas DEF finishUnattached
<1>2. UNCHANGED <<sessions, draining, mu, drain, starts>> /\ p \in Timers /\ p \notin Conns
  BY Kinds DEF finishUnattached, SessionInv, SessionTypes, LabelsOf, Ended
<1>3. CASE Goto(p, "idle") /\ UNCHANGED inst
  <2>1. PICK r \in ProcStates : Moves(p, r) /\ r.pc = "idle"
    BY <1>3, IdleIsPlain, GotoNow DEF SessionInv
  <2> QED BY <1>2, <1>3, <2>1, MovesKeep
<1>4. CASE /\ ~inst[k].attached /\ ~inst[k].finished /\ Goto(p, "close")
           /\ inst' = [inst EXCEPT ![k].finished = TRUE, ![k].once = "running",
                                    ![k].control = FALSE]
  <2>1. "close" \in LabelsOf(p)
    BY DEF LabelsOf, Ended
  <2>2. PICK r \in ProcStates : Moves(p, r) /\ r.pc = "close" /\ r.k = k
    BY <1>1, <1>4, <2>1, GotoNow DEF SessionInv
  <2>3. Becomes(k, inst[k].attached, TRUE, inst[k].timer, FALSE, inst[k].stream, "running",
                inst[k].complete)
        /\ inst'[k].id = inst[k].id
    BY <1>1, <1>4, TimedOutNow DEF SessionInv, SessionTypes
  <2>4. inst[k].complete = FALSE /\ inst[k].stream = "open" /\ inst[k].attached = FALSE
        /\ inst[k].finished = FALSE /\ inst[k].timer \in BOOLEAN
    BY <1>1, <1>4 DEF SessionInv, CompleteIsOver, FlagsAgree, Started, managedSession
  <2>5. Touches(k) /\ inst'[k].finished /\ ~inst'[k].attached /\ ~inst'[k].complete
    BY <2>3, <2>4 DEF Touches, Becomes
  <2> HIDE DEF k
  <2>6. r.pc \notin {"starting", "issue", "remove"}
    BY <2>2
  <2> QED BY <1>1, <1>2, <2>2, <2>5, <2>6, TouchKeeps
<1> QED BY <1>3, <1>4 DEF finishUnattached

\* Manager.remove and Drain take out a session that is complete.
LEMMA TakeOutKeeps ==
    ASSUME SessionInv, mu = "free", NEW i, NEW k \in Instances, inst[k].complete,
           sessions' = TakeOut(i, k), UNCHANGED <<draining, mu, inst, starts>>,
           proc' = proc \/ \E p \in Procs : Goto(p, "idle"),
           drain'.left \subseteq drain.left, drain' \in [pc : {"no", "wait", "done"}, left : SUBSET Instances]
    PROVE  SessionInv'
<1>1. /\ sessions' \in [Ids -> Instances \cup {None}]
      /\ \A j \in Ids : sessions'[j] = sessions[j] \/ (sessions[j] = k /\ sessions'[j] = None)
  BY DEF SessionInv, SessionTypes, TakeOut
<1>2. proc' \in [Procs -> ProcStates] /\ \A q \in Procs : proc'[q].pc \in LabelsOf(q)
      /\ (proc'[q] = proc[q] \/ proc'[q].pc = "idle")
  <2>1. CASE proc' = proc
    BY <2>1 DEF SessionInv, SessionTypes
  <2>2. CASE \E p \in Procs : Goto(p, "idle")
    <3>1. PICK p \in Procs : Goto(p, "idle")
      BY <2>2
    <3>2. PICK r \in ProcStates : Moves(p, r) /\ r.pc = "idle"
      BY <3>1, IdleIsPlain, GotoNow DEF SessionInv
    <3> QED BY <3>2 DEF Moves
  <2> QED BY <2>1, <2>2
<1>3. \A c \in Creators : proc[c].pc # "starting"
  BY Kinds DEF SessionInv, StartsAlone
<1>4. SessionTypes'
  BY <1>1, <1>2 DEF SessionInv, SessionTypes
<1>5. Known'
  BY <1>1, <1>2 DEF SessionInv, Known, Started
<1>6. StartsAlone'
  BY <1>2, <1>3, Kinds DEF StartsAlone
<1>7. FlagsAgree'
  BY DEF SessionInv, FlagsAgree
<1>8. OneAttachment'
  BY <1>2, Kinds DEF SessionInv, OneAttachment, Attaching, Ended
<1>9. CompleteIsOver'
  BY <1>2, Kinds DEF SessionInv, CompleteIsOver
<1>10. GoneIsComplete'
  BY <1>1 DEF SessionInv, Known, GoneIsComplete
<1> QED BY <1>4, <1>5, <1>6, <1>7, <1>8, <1>9, <1>10 DEF SessionInv

LEMMA DrainBeginKeeps ==
    ASSUME SessionInv, DrainBegin
    PROVE  SessionInv'
<1> DEFINE live == {sessions[i] : i \in Active}
           D(q) == [IdleProc EXCEPT !.pc = "mark", !.k = q[2]]
<1>1. /\ drain'.pc = "wait" /\ drain'.left = live /\ mu = "free" /\ draining' = TRUE
      /\ drain' \in [pc : {"no", "wait", "done"}, left : SUBSET Instances]
      /\ UNCHANGED <<sessions, mu, inst, starts>>
  BY ZenonT(60) DEF DrainBegin, SessionInv, SessionTypes, Active
<1>2. \A k \in live : Started(k)
  BY DEF SessionInv, Known, Active
<1>3. \A q \in Finishers : q[2] \in live =>
         D(q) \in ProcStates /\ D(q).pc = "mark" /\ D(q).k = q[2]
  BY <1>2, IdleIsPlain DEF ProcStates, Started, Ended
<1>4. proc' = [q \in Procs |-> IF q \in Finishers /\ q[2] \in live THEN D(q) ELSE proc[q]]
  BY DEF DrainBegin
<1> HIDE DEF live, D
<1>5. /\ proc' \in [Procs -> ProcStates]
      /\ \A q \in Procs : \/ proc'[q] = proc[q]
                          \/ q \in Finishers /\ proc'[q].pc = "mark" /\ Started(proc'[q].k)
  BY <1>2, <1>3, <1>4 DEF SessionInv, SessionTypes
<1>6. \A q \in Procs : proc'[q].pc \in LabelsOf(q)
  BY <1>5, Kinds DEF SessionInv, SessionTypes, LabelsOf
<1>7. \A c \in Creators : proc[c].pc # "starting"
  BY <1>1, Kinds DEF SessionInv, StartsAlone
<1>8. SessionTypes'
  BY <1>1, <1>5, <1>6 DEF SessionInv, SessionTypes
<1>9. Known'
  BY <1>1, <1>2, <1>5 DEF SessionInv, Known, Started
<1>10. StartsAlone'
  BY <1>5, <1>7, Kinds DEF StartsAlone
<1>11. FlagsAgree'
  BY <1>1 DEF SessionInv, FlagsAgree
<1>12. OneAttachment'
  BY <1>1, <1>5, Kinds DEF SessionInv, OneAttachment, Attaching, Ended
<1>13. CompleteIsOver'
  BY <1>1, <1>5, Kinds DEF SessionInv, CompleteIsOver
<1>14. GoneIsComplete'
  BY <1>1 DEF SessionInv, GoneIsComplete
<1> QED BY <1>8, <1>9, <1>10, <1>11, <1>12, <1>13, <1>14 DEF SessionInv

\* A lookup in the map: nothing, or the instance under the id.
LEMMA LookupKeeps ==
    ASSUME SessionInv, NEW p \in Procs, NEW i \in Ids, NEW l, p \in Conns => l = "claim",
           l \in {"mark", "claim"}, l \in LabelsOf(p),
           UNCHANGED <<sessions, draining, mu, inst, drain, starts>>,
           proc' = [proc EXCEPT ![p] = IF sessions[i] = None THEN IdleProc
                                       ELSE [pc |-> l, k |-> sessions[i], id |-> i]]
    PROVE  SessionInv'
<1>1. CASE sessions[i] = None
  BY <1>1, IdleIsPlain, ProcNow, MovesKeep DEF SessionInv, Ended
<1>2. CASE sessions[i] # None
  <2> DEFINE r == [pc |-> l, k |-> sessions[i], id |-> i]
  <2>1. r \in ProcStates /\ r.pc = l /\ Started(r.k)
    BY <1>2 DEF SessionInv, SessionTypes, Known, ProcStates, Ended
  <2>2. proc' = [proc EXCEPT ![p] = r]
    BY <1>2
  <2> HIDE DEF r
  <2>3. Moves(p, r)
    BY <2>1, <2>2, ProcNow DEF SessionInv
  <2> QED BY <2>1, <2>3, MovesKeep DEF Ended
<1> QED BY <1>1, <1>2

LEMMA CreateAgainKeeps ==
    ASSUME SessionInv, NEW c \in Creators, NEW i \in Ids, CreateAgain(c, i)
    PROVE  SessionInv'
<1> DEFINE r == [IdleProc EXCEPT !.pc = "issue", !.id = i]
<1>1. r \in ProcStates /\ r.pc = "issue" /\ r.id = i
  BY IdleIsPlain DEF ProcStates
<1>2. proc' = [proc EXCEPT ![c] = r]
  BY DEF CreateAgain
<1> HIDE DEF r
<1>3. Moves(c, r) /\ c \in Procs /\ c \notin Conns
  BY <1>1, <1>2, Kinds, ProcNow DEF SessionInv, LabelsOf
<1> QED BY <1>1, <1>3, MovesKeep DEF CreateAgain

LEMMA StartFailsKeeps ==
    ASSUME SessionInv, NEW c \in Creators, StartFails(c)
    PROVE  SessionInv'
<1>1. PICK r \in ProcStates : Moves(c, r) /\ r.pc = "idle"
  BY Kinds, IdleIsPlain, GotoNow DEF SessionInv, StartFails
<1> QED BY <1>1, Kinds, MovesKeep DEF StartFails

LEMMA createSessionKeeps ==
    ASSUME SessionInv, NEW c \in Creators, createSession(c)
    PROVE  SessionInv'
<1>1. CASE Goto(c, "idle")
  <2>1. PICK r \in ProcStates : Moves(c, r) /\ r.pc = "idle"
    BY <1>1, Kinds, IdleIsPlain, GotoNow DEF SessionInv
  <2> QED BY <2>1, Kinds, MovesKeep DEF createSession
<1>2. CASE Lookup(c, proc[c].id)
  <2>1. proc[c].id \in Ids /\ "mark" \in LabelsOf(c) /\ c \in Procs /\ c \notin Conns
    BY Kinds DEF SessionInv, Known, createSession, LabelsOf, Ended
  <2> QED BY <1>2, <2>1, LookupKeeps DEF Lookup, createSession
<1> QED BY <1>1, <1>2 DEF createSession

LEMMA ServeHTTPKeeps ==
    ASSUME SessionInv, NEW c \in Conns, NEW i \in Ids, ServeHTTP(c, i)
    PROVE  SessionInv'
<1>1. CASE Attach(c, i)
  <2>1. "claim" \in LabelsOf(c) /\ c \in Procs
    BY Kinds DEF LabelsOf
  <2> QED BY <1>1, <2>1, LookupKeeps DEF Attach, ServeHTTP
<1>2. CASE UNCHANGED proc
  <2>1. proc[c] \in ProcStates /\ Moves(c, proc[c]) /\ proc[c].pc = "idle" /\ c \in Procs
    BY <1>2, Kinds DEF SessionInv, SessionTypes, Moves, ServeHTTP
  <2> QED BY <2>1, MovesKeep DEF ServeHTTP, Ended
<1> QED BY <1>1, <1>2 DEF ServeHTTP

LEMMA AttachEndsKeeps ==
    ASSUME SessionInv, NEW c \in Conns, AttachEnds(c)
    PROVE  SessionInv'
<1>1. proc[c].pc = "pump" /\ c \in Procs /\ Started(proc[c].k) /\ Attaching(c)
  BY Kinds DEF AttachEnds, SessionInv, Known, Attaching
<1>2. PICK r \in ProcStates : Moves(c, r) /\ r.pc = "mark" /\ r.k = proc[c].k
  BY <1>1, Kinds, GotoNow DEF SessionInv, AttachEnds, LabelsOf, Ended
<1> QED BY <1>1, <1>2, MovesKeep DEF AttachEnds

LEMMA StopCallKeeps ==
    ASSUME SessionInv, NEW t \in Stoppers, NEW i \in Ids, StopCall(t, i)
    PROVE  SessionInv'
<1>1. "mark" \in LabelsOf(t) /\ t \in Procs /\ t \notin Conns
  BY Kinds DEF LabelsOf, Ended
<1> QED BY <1>1, LookupKeeps DEF Lookup, StopCall

LEMMA StopWaitKeeps ==
    ASSUME SessionInv, NEW t \in Procs, StopWait(t)
    PROVE  SessionInv'
<1>1. t \in Creators \cup Stoppers /\ t \notin Conns
  BY Kinds DEF SessionInv, SessionTypes, StopWait, LabelsOf, Ended
<1>2. "remove" \in LabelsOf(t) /\ Started(proc[t].k)
  BY <1>1, Kinds DEF LabelsOf, Ended, SessionInv, Known, StopWait
<1>3. PICK r \in ProcStates : Moves(t, r) /\ r.pc = "remove" /\ r.k = proc[t].k
  BY <1>2, GotoNow DEF SessionInv, StopWait
<1> QED BY <1>1, <1>2, <1>3, MovesKeep DEF StopWait

LEMMA StopCancelledKeeps ==
    ASSUME SessionInv, NEW t \in Stoppers, StopCancelled(t)
    PROVE  SessionInv'
<1>1. PICK r \in ProcStates : Moves(t, r) /\ r.pc = "idle"
  BY Kinds, IdleIsPlain, GotoNow DEF SessionInv, StopCancelled
<1> QED BY <1>1, Kinds, MovesKeep DEF StopCancelled

LEMMA SessionStep == SessionInv /\ [Next]_vars => SessionInv'
<1> SUFFICES ASSUME SessionInv, [Next]_vars
             PROVE  SessionInv'
  OBVIOUS
<1>1. ASSUME NEW c \in Creators, NEW i \in Ids, StartBegin(c, i) \/ CreateAgain(c, i)
      PROVE  SessionInv'
  BY <1>1, StartBeginKeeps, CreateAgainKeeps
<1>2. ASSUME NEW c \in Creators, StartOk(c) \/ StartFails(c)
      PROVE  SessionInv'
  BY <1>2, StartOkKeeps, StartFailsKeeps
<1>3. ASSUME NEW c \in Conns, NEW i \in Ids, ServeHTTP(c, i)
      PROVE  SessionInv'
  BY <1>3, ServeHTTPKeeps
<1>4. ASSUME NEW c \in Conns, AttachEnds(c)
      PROVE  SessionInv'
  BY <1>4, AttachEndsKeeps
<1>5. ASSUME NEW k \in Instances, AttachControl(k)
      PROVE  SessionInv'
  <2>1. Started(k)
    BY <1>5, Kinds DEF AttachControl, SessionInv, Known
  <2> QED BY <1>5, <2>1, ControlKeeps DEF AttachControl
<1>6. ASSUME NEW k \in Instances, CloseControl(k)
      PROVE  SessionInv'
  <2>1. Started(k)
    BY <1>6 DEF CloseControl, SessionInv, Known, Started
  <2> QED BY <1>6, <2>1, ControlKeeps DEF CloseControl
<1>7. ASSUME NEW k \in Instances, TimerFires(k)
      PROVE  SessionInv'
  BY <1>7, TimerFiresKeeps
<1>8. ASSUME NEW t \in Stoppers, NEW i \in Ids, StopCall(t, i)
      PROVE  SessionInv'
  BY <1>8, StopCallKeeps
<1>9. ASSUME NEW t \in Stoppers, StopCancelled(t)
      PROVE  SessionInv'
  BY <1>9, StopCancelledKeeps
<1>10. ASSUME NEW p \in Procs, ProcStep(p)
       PROVE  SessionInv'
  <2>1. CASE remove(p)
    <3>1. proc[p].k \in Instances /\ inst[proc[p].k].complete
      BY <2>1, ProcHas DEF remove, SessionInv, CompleteIsOver
    <3>2. drain' \in [pc : {"no", "wait", "done"}, left : SUBSET Instances] /\ drain' = drain
      BY <2>1 DEF remove, SessionInv, SessionTypes
    <3> QED BY <2>1, <3>1, <3>2, TakeOutKeeps DEF remove
  <2> QED BY <1>10, <2>1, finishKeeps, finishResourcesKeeps, StopWaitKeeps, finishUnattachedKeeps,
             AttachClaimKeeps, createSessionKeeps DEF ProcStep
<1>11. ASSUME DrainWait
       PROVE  SessionInv'
  <2>1. PICK k \in drain.left : inst[k].complete /\ sessions' = TakeOut(inst[k].id, k)
                                /\ drain' = [drain EXCEPT !.left = @ \ {k}]
    BY <1>11 DEF DrainWait
  <2>2. k \in Instances /\ drain'.left \subseteq drain.left
        /\ drain' \in [pc : {"no", "wait", "done"}, left : SUBSET Instances]
    BY <2>1 DEF SessionInv, SessionTypes
  <2> QED BY <1>11, <2>1, <2>2, TakeOutKeeps DEF DrainWait
<1>12. ASSUME DrainEmpty \/ UNCHANGED vars
       PROVE  SessionInv'
  <2>1. UNCHANGED <<sessions, draining, mu, inst, proc, starts>> /\ drain'.left = drain.left
        /\ drain' \in [pc : {"no", "wait", "done"}, left : SUBSET Instances]
    BY <1>12 DEF DrainEmpty, vars, SessionInv, SessionTypes
  <2>2. SessionTypes'
    BY <2>1 DEF SessionInv, SessionTypes
  <2>3. Known' /\ StartsAlone' /\ FlagsAgree' /\ OneAttachment' /\ CompleteIsOver' /\ GoneIsComplete'
    BY <2>1 DEF SessionInv, Known, Started, StartsAlone, Ready, Active, FlagsAgree, OneAttachment,
                Attaching, CompleteIsOver, GoneIsComplete
  <2> QED BY <2>2, <2>3 DEF SessionInv
<1> QED BY <1>1, <1>2, <1>3, <1>4, <1>5, <1>6, <1>7, <1>8, <1>9, <1>10, <1>11, <1>12,
           DrainBeginKeeps DEF Next

LEMMA SessionStart == Init => SessionInv
<1> SUFFICES ASSUME Init PROVE SessionInv
  OBVIOUS
<1>1. NoInstance \in managedSession
  BY DEF NoInstance, managedSession
<1>2. inst \in [Instances -> managedSession] /\ \A k \in Instances : inst[k] = NoInstance
  BY <1>1 DEF Init
<1>3. proc \in [Procs -> ProcStates] /\ \A p \in Procs : proc[p].pc = "idle"
  BY IdleIsPlain DEF Init
<1>4. SessionTypes
  <2>1. starts \in 0 .. MaxStarts /\ sessions \in [Ids -> Instances \cup {None}]
    BY MediaSessionAssumption DEF Init
  <2>2. drain \in [pc : {"no", "wait", "done"}, left : SUBSET Instances]
    BY DEF Init
  <2>3. \A p \in Procs : proc[p].pc \in LabelsOf(p)
    BY <1>3, IdleIsPlain
  <2> QED BY <1>2, <1>3, <2>1, <2>2, <2>3 DEF Init, SessionTypes
<1>5. Known
  BY <1>2, <1>3 DEF Init, Known, NoInstance
<1>6. StartsAlone /\ OneAttachment
  BY <1>3, Kinds DEF StartsAlone, OneAttachment, Attaching, Ended
<1>7. FlagsAgree /\ CompleteIsOver /\ GoneIsComplete
  BY <1>2, <1>3 DEF FlagsAgree, CompleteIsOver, GoneIsComplete, NoInstance
<1> QED BY <1>4, <1>5, <1>6, <1>7 DEF SessionInv

LEMMA SessionInvHolds == Spec => []SessionInv
BY SessionStart, SessionStep, PTL DEF Spec

\* GoneIsReleased of every behaviour: a session that has left the manager's map
\* holds no stream, no pump and no control socket, for any capacity and any
\* number of creators, stoppers and connections (Manager.remove, Stop, Drain).
THEOREM GoneAreReleased == Spec => []GoneIsReleased
<1>1. SessionInv => GoneIsReleased
  BY DEF SessionInv, SessionTypes, managedSession, GoneIsComplete, CompleteIsOver, FlagsAgree, GoneIsReleased
<1> QED BY <1>1, SessionInvHolds, PTL

-----------------------------------------------------------------------------
\* The refinement: each step of the manager is a step of the plane's promise, or none.
\* Where the map, the draining flag and what a phase reads of the sessions in
\* the map stay, the plane does not move.
LEMMA PlaneStays ==
    ASSUME SessionInv, UNCHANGED <<sessions, draining>>,
           \A k \in Instances : inst[k].stream # "none" =>
              inst'[k].finished = inst[k].finished /\ inst'[k].attached = inst[k].attached
    PROVE  UNCHANGED Plane!planeVars
<1>1. \A i \in Ids : PhaseOf(i)' = PhaseOf(i)
  BY DEF PhaseOf, SessionInv, Known, Started
<1> QED BY <1>1 DEF Plane!planeVars

\* One session's phase changes to l.
LEMMA PlaneMoves ==
    ASSUME SessionInv, NEW i \in Ids, NEW l, PhaseOf(i)' = l, draining' = draining,
           \A j \in Ids : j # i => PhaseOf(j)' = PhaseOf(j)
    PROVE  Plane!To(i, l)
<1>1. [j \in Ids |-> PhaseOf(j)]' = [[j \in Ids |-> PhaseOf(j)] EXCEPT ![i] = l]
  OBVIOUS
<1> QED BY <1>1 DEF Plane!To

\* A session that is not finished is the one under its id, and under no other.
LEMMA LiveIsInMap ==
    ASSUME SessionInv, NEW k \in Instances, Started(k), ~inst[k].finished
    PROVE  \E i \in Ids : sessions[i] = k /\ \A j \in Ids : j # i => sessions[j] # k
<1>1. inst[k].id \in Ids /\ inst[k].stream # "none"
  BY DEF SessionInv, Known, Started
<1>2. ~inst[k].complete
  BY DEF SessionInv, CompleteIsOver, FlagsAgree
<1>3. sessions[inst[k].id] = k
  BY <1>1, <1>2 DEF SessionInv, GoneIsComplete
<1>4. \A j \in Ids : sessions[j] = k => inst[k].id = j
  BY Kinds DEF SessionInv, Known
<1> QED BY <1>1, <1>3, <1>4

\* Such a session goes on to phase l, and the others stay.
LEMMA LiveMoves ==
    ASSUME SessionInv, NEW k \in Instances, NEW i \in Ids, sessions[i] = k,
           \A j \in Ids : j # i => sessions[j] # k,
           UNCHANGED <<sessions, draining>>,
           \A j \in Instances : j # k => inst'[j] = inst[j],
           NEW l, l = IF inst'[k].finished THEN "closing"
                      ELSE IF inst'[k].attached THEN "attached" ELSE "waiting"
    PROVE  Plane!To(i, l)
<1>1. PhaseOf(i)' = l
  BY Kinds DEF PhaseOf
<1>2. \A j \in Ids : j # i => PhaseOf(j)' = PhaseOf(j)
  BY DEF PhaseOf, SessionInv, SessionTypes
<1> QED BY <1>1, <1>2, PlaneMoves

LEMMA TakeOutLeaves ==
    ASSUME SessionInv, NEW i, NEW k \in Instances, inst[k].complete,
           sessions' = TakeOut(i, k), UNCHANGED <<draining, inst>>
    PROVE  [Plane!PlaneNext]_(Plane!planeVars)
<1>1. CASE i \in Ids /\ sessions[i] = k
  <2>1. sessions'[i] = None /\ \A j \in Ids : j # i => sessions'[j] = sessions[j]
    BY <1>1 DEF TakeOut, SessionInv, SessionTypes
  <2>2. inst[k].finished
    BY DEF SessionInv, CompleteIsOver, FlagsAgree
  <2>3. PhaseOf(i) = "closing" /\ PhaseOf(i)' = "absent"
    BY <1>1, <2>1, <2>2, Kinds DEF PhaseOf
  <2>4. \A j \in Ids : j # i => PhaseOf(j)' = PhaseOf(j)
    BY <2>1 DEF PhaseOf
  <2>5. Plane!To(i, "absent")
    BY <1>1, <2>3, <2>4, PlaneMoves
  <2> QED BY <1>1, <2>3, <2>5 DEF Plane!PlaneNext, Plane!LeaveSession
<1>2. CASE ~(i \in Ids /\ sessions[i] = k)
  <2>1. sessions' = sessions
    BY <1>2 DEF TakeOut, SessionInv, SessionTypes
  <2> QED BY <2>1, PlaneStays
<1> QED BY <1>1, <1>2

LEMMA StartOkCreates ==
    ASSUME SessionInv, NEW c \in Creators, StartOk(c)
    PROVE  Plane!PlaneNext
<1>1. proc[c].k \in Instances /\ proc[c].id \in Ids
  BY DEF SessionInv, StartsAlone, StartOk
<1>2. PICK k \in Instances, i \in Ids : k = proc[c].k /\ i = proc[c].id
  BY <1>1
<1>3. /\ inst[k].stream = "none" /\ sessions[i] = None /\ Ready
      /\ ~inst[k].attached /\ ~inst[k].finished
  BY <1>2 DEF SessionInv, StartsAlone, Known, StartOk
<1>4. Becomes(k, inst[k].attached, inst[k].finished, TRUE, inst[k].control, "open",
              inst[k].once, inst[k].complete)
  BY <1>2, OpenedNow DEF SessionInv, SessionTypes, StartOk
<1>5. sessions'[i] = k /\ (\A j \in Ids : j # i => sessions'[j] = sessions[j]) /\ draining' = draining
  BY <1>2 DEF SessionInv, SessionTypes, StartOk
<1>6. \A j \in Ids : sessions[j] # k
  BY <1>3, Kinds DEF SessionInv, Known, Started
<1>7. PhaseOf(i) = "absent" /\ PhaseOf(i)' = "waiting"
  BY <1>3, <1>4, <1>5, Kinds DEF PhaseOf, Becomes
<1>8. \A j \in Ids : j # i => PhaseOf(j)' = PhaseOf(j)
  BY <1>4, <1>5, <1>6 DEF PhaseOf, Becomes, SessionInv, SessionTypes
<1>9. Plane!To(i, "waiting")
  BY <1>5, <1>7, <1>8, PlaneMoves
<1>10. Plane!Present = Active
  BY DEF Plane!Present, Active, PhaseOf
<1>11. ~draining /\ Plane!Cardinality(Plane!Present) < Capacity
  <2>1. Plane!Cardinality(Active) = Cardinality(Active)
    BY DEF Plane!Cardinality, Cardinality
  <2> QED BY <1>3, <1>10, <2>1 DEF Ready
<1>12. Plane!CreateSession(i)
  BY <1>7, <1>9, <1>11 DEF Plane!CreateSession
<1> QED BY <1>12 DEF Plane!PlaneNext

LEMMA finishCloses ==
    ASSUME SessionInv, NEW p \in Procs, finish(p) \/ finishUnattached(p)
    PROVE  [Plane!PlaneNext]_(Plane!planeVars)
<1> DEFINE k == proc[p].k
<1>1. k \in Instances /\ Started(k) /\ UNCHANGED <<sessions, draining>>
  BY ProcHas DEF finish, finishUnattached
<1>2. CASE /\ ~inst[k].finished /\ inst'[k].finished
           /\ \A j \in Instances : j # k => inst'[j] = inst[j]
  <2>1. PICK i \in Ids : sessions[i] = k /\ \A j \in Ids : j # i => sessions[j] # k
    BY <1>1, <1>2, LiveIsInMap
  <2>2. Plane!To(i, "closing")
    BY <1>1, <1>2, <2>1, LiveMoves
  <2>3. PhaseOf(i) \in {"waiting", "attached"}
    BY <1>1, <1>2, <2>1, Kinds DEF PhaseOf
  <2> QED BY <2>2, <2>3 DEF Plane!PlaneNext, Plane!CloseSession
<1>3. CASE \A j \in Instances : inst'[j].finished = inst[j].finished /\ inst'[j].attached = inst[j].attached
  BY <1>1, <1>3, PlaneStays
<1>4. CASE finish(p)
  <2>1. CASE inst[k].once = "no" /\ inst' = [inst EXCEPT ![k].finished = TRUE, ![k].timer = FALSE,
                                                        ![k].once = "running", ![k].control = FALSE]
    BY <1>1, <1>2, <2>1, FinishedNow DEF Becomes, SessionInv, SessionTypes, FlagsAgree
  <2>2. CASE inst' = [inst EXCEPT ![k].complete = @ \/ Completes(p, k)]
    BY <1>1, <1>3, <2>2 DEF SessionInv, SessionTypes, managedSession
  <2> QED BY <1>4, <2>1, <2>2 DEF finish
<1>5. CASE finishUnattached(p)
  <2>1. CASE ~inst[k].finished /\ inst' = [inst EXCEPT ![k].finished = TRUE, ![k].once = "running",
                                                      ![k].control = FALSE]
    BY <1>1, <1>2, <2>1, TimedOutNow DEF Becomes, SessionInv, SessionTypes
  <2>2. CASE UNCHANGED inst
    BY <1>3, <2>2
  <2> QED BY <1>5, <2>1, <2>2 DEF finishUnattached
<1> QED BY <1>4, <1>5

LEMMA AttachClaimAttaches ==
    ASSUME SessionInv, NEW p \in Conns, AttachClaim(p)
    PROVE  [Plane!PlaneNext]_(Plane!planeVars)
<1> DEFINE k == proc[p].k
<1>1. k \in Instances /\ Started(k) /\ inst[k] \in managedSession /\ UNCHANGED <<sessions, draining>>
  BY Kinds, ProcHas DEF AttachClaim
<1>2. CASE UNCHANGED inst
  BY <1>1, <1>2, PlaneStays
<1>3. CASE /\ ~inst[k].attached /\ ~inst[k].finished
           /\ inst' = [inst EXCEPT ![k].attached = TRUE, ![k].timer = FALSE]
  <2>1. inst'[k].attached /\ ~inst'[k].finished /\ \A j \in Instances : j # k => inst'[j] = inst[j]
    BY <1>1, <1>3, ClaimedNow DEF Becomes, SessionInv, SessionTypes
  <2>2. PICK i \in Ids : sessions[i] = k /\ \A j \in Ids : j # i => sessions[j] # k
    BY <1>1, <1>3, LiveIsInMap
  <2>3. Plane!To(i, "attached")
    BY <1>1, <2>1, <2>2, LiveMoves
  <2>4. PhaseOf(i) = "waiting"
    BY <1>1, <1>3, <2>2, Kinds DEF PhaseOf
  <2> QED BY <2>3, <2>4 DEF Plane!PlaneNext, Plane!AttachSession
<1> QED BY <1>2, <1>3 DEF AttachClaim

LEMMA PlaneStep == SessionInv /\ [Next]_vars => [Plane!PlaneNext]_(Plane!planeVars)
<1> SUFFICES ASSUME SessionInv, [Next]_vars
             PROVE  [Plane!PlaneNext]_(Plane!planeVars)
  OBVIOUS
<1>1. ASSUME NEW c \in Creators, NEW i \in Ids, StartBegin(c, i) \/ CreateAgain(c, i)
      PROVE  UNCHANGED Plane!planeVars
  BY <1>1, PlaneStays DEF StartBegin, CreateAgain
<1>2. ASSUME NEW c \in Creators, StartFails(c)
      PROVE  UNCHANGED Plane!planeVars
  BY <1>2, PlaneStays DEF StartFails
<1>3. ASSUME NEW c \in Conns, NEW i \in Ids, ServeHTTP(c, i)
      PROVE  UNCHANGED Plane!planeVars
  BY <1>3, PlaneStays DEF ServeHTTP
<1>4. ASSUME NEW c \in Conns, AttachEnds(c)
      PROVE  UNCHANGED Plane!planeVars
  BY <1>4, PlaneStays DEF AttachEnds
<1>5. ASSUME NEW k \in Instances, AttachControl(k) \/ CloseControl(k) \/ TimerFires(k)
      PROVE  UNCHANGED Plane!planeVars
  <2>1. \A j \in Instances : inst'[j].finished = inst[j].finished /\ inst'[j].attached = inst[j].attached
    BY <1>5 DEF AttachControl, CloseControl, TimerFires, SessionInv, SessionTypes, managedSession
  <2> QED BY <1>5, <2>1, PlaneStays DEF AttachControl, CloseControl, TimerFires
<1>6. ASSUME NEW t \in Stoppers, NEW i \in Ids, StopCall(t, i)
      PROVE  UNCHANGED Plane!planeVars
  BY <1>6, PlaneStays DEF StopCall
<1>7. ASSUME NEW t \in Stoppers, StopCancelled(t)
      PROVE  UNCHANGED Plane!planeVars
  BY <1>7, PlaneStays DEF StopCancelled
<1>8. ASSUME NEW p \in Procs, ProcStep(p)
      PROVE  [Plane!PlaneNext]_(Plane!planeVars)
  <2>1. CASE remove(p)
    <3>1. proc[p].k \in Instances /\ inst[proc[p].k].complete
      BY <2>1, ProcHas DEF remove, SessionInv, CompleteIsOver
    <3> QED BY <2>1, <3>1, TakeOutLeaves DEF remove
  <2>2. CASE finishResources(p)
    <3> DEFINE k == proc[p].k
               b == Completes(p, k)
    <3>1. k \in Instances /\ b \in BOOLEAN
      BY <2>2, ProcHas DEF finishResources, Completes
    <3>2. inst' = [inst EXCEPT ![k].stream = "closed", ![k].once = "done", ![k].complete = @ \/ b]
      BY <2>2 DEF finishResources
    <3> HIDE DEF k, b
    <3>3. \A j \in Instances : inst'[j].finished = inst[j].finished /\ inst'[j].attached = inst[j].attached
      BY ZenonT(60), <3>1, <3>2, ReleasedNow DEF Becomes, SessionInv, SessionTypes
    <3> QED BY <2>2, <3>3, PlaneStays DEF finishResources
  <2>3. CASE StopWait(p)
    BY <2>3, PlaneStays DEF StopWait
  <2>4. CASE p \in Creators /\ createSession(p)
    BY <2>4, PlaneStays DEF createSession
  <2> QED BY <1>8, <2>1, <2>2, <2>3, <2>4, finishCloses, AttachClaimAttaches DEF ProcStep
<1>9. ASSUME DrainBegin
      PROVE  Plane!PlaneNext
  <2>1. \A i \in Ids : PhaseOf(i)' = PhaseOf(i)
    BY <1>9 DEF PhaseOf, DrainBegin
  <2> QED BY <1>9, <2>1 DEF DrainBegin, Plane!PlaneNext, Plane!DrainPlane
<1>10. ASSUME DrainWait
       PROVE  [Plane!PlaneNext]_(Plane!planeVars)
  <2>1. PICK k \in drain.left : inst[k].complete /\ sessions' = TakeOut(inst[k].id, k)
    BY <1>10 DEF DrainWait
  <2>2. k \in Instances
    BY DEF SessionInv, SessionTypes
  <2> QED BY <1>10, <2>1, <2>2, TakeOutLeaves DEF DrainWait
<1>11. ASSUME DrainEmpty \/ UNCHANGED vars
       PROVE  UNCHANGED Plane!planeVars
  BY <1>11, PlaneStays DEF DrainEmpty, vars
<1> QED BY <1>1, <1>2, <1>3, <1>4, <1>5, <1>6, <1>7, <1>8, <1>9, <1>10, <1>11, StartOkCreates DEF Next

\* The manager implements the plane's promise for every value of the constants:
\* Start below the capacity and not while draining, one attachment, none to a
\* closing session, and no session leaves but through closing.
THEOREM ManagerImplementsPlane == Spec => ImplementsPlane
<1>1. Init => Plane!PlaneInit
  BY DEF Init, Plane!PlaneInit, PhaseOf
<1> QED BY <1>1, SessionInvHolds, PlaneStep, PTL DEF Spec, ImplementsPlane, Plane!PlaneSpec

-----------------------------------------------------------------------------
\* TurnTaking: one conversation, for any number of responses, frames, tool
\* calls, commands and faults, and any capacity of the channel and the queue.

Roles == {"user", "assistant", "calls", "tool"}
TurnLabels == {"none", "idle", "select", "cancel", "start", "launch", "end", "wait", "closed",
               "reserved", "open", "loop", "offer", "tools", "stop", "over", "submit", "interrupt",
               "clear", "gone", "recv", "sweep", "debit", "got", "push", "pop", "check", "mark", "send"}

TurnTypes ==
    /\ pc \in [Goroutines -> TurnLabels]
    /\ launch \in [{"run", "ctl"} -> Responses \cup {Nil}]
    /\ current \in Responses \cup {Nil}
    /\ messages \in Seq(Roles \X Nat)
    /\ queue \in Nat /\ queued \in Nat /\ playback \in Nat

\* While playback is suppressed the frame the playback loop has let through is
\* the last one, whether it has been sent or not.
InHand == IF pc["play"] \in {"mark", "send"} THEN 1 ELSE 0
LastFrame == suppress /\ pc["evt"] = "recv" => playback + InHand <= 1

\* Responses are reserved in their order, the current one is the last of them,
\* and the history speaks of none that is not reserved.
Reserved(r) == pc[r] # "none"
ReservedInOrder ==
    \A x, y \in Responses : Reserved(x) /\ Nth(y) < Nth(x) => Reserved(y)
CurrentIsLast ==
    current # Nil => Reserved(current) /\ \A x \in Responses : Reserved(x) => Nth(x) <= Nth(current)
HistoryIsReserved ==
    \A i \in 1 .. Len(messages) : messages[i][1] # "tool" =>
       \E x \in Responses : Reserved(x) /\ messages[i][2] <= Nth(x)
LaunchIsReserved == \A p \in {"run", "ctl"} : launch[p] # Nil => Reserved(launch[p])

HistoryInv == LaunchIsReserved /\ ReservedInOrder /\ CurrentIsLast /\ HistoryIsReserved /\ HistoryInOrder
TurnInv == TurnTypes /\ LatencyBudget /\ LastFrame /\ HistoryInv

LEMMA GoroutineNames ==
    /\ "run" \in Goroutines /\ "ctl" \in Goroutines /\ "evt" \in Goroutines
    /\ "aud" \in Goroutines /\ "play" \in Goroutines /\ Nil \notin Goroutines
    /\ \A r \in Responses : /\ r \in Goroutines /\ r # Nil
                            /\ r # "run" /\ r # "ctl" /\ r # "evt" /\ r # "aud" /\ r # "play"
BY TurnAssumption DEF Goroutines, Emitters, Responses, Nil

LEMMA ResponsesAreNumbered ==
    /\ \A r \in Responses : Nth(r) \in Nat
    /\ \A r, x \in Responses : Nth(r) = Nth(x) => r = x
<1>1. \A r \in Responses : Nth(r) \in DOMAIN Order /\ Order[Nth(r)] = r
  BY DEF Responses, Nth
<1>2. DOMAIN Order = 1 .. Len(Order) /\ Len(Order) \in Nat
  BY TurnAssumption
<1>3. \A r \in Responses : Nth(r) \in Nat
  BY <1>1, <1>2
<1> QED BY <1>1, <1>3

\* A goroutine goes on, the others stay where they are.
Advances(p, l) ==
    /\ pc' \in [Goroutines -> TurnLabels] /\ pc'[p] = l
    /\ \A q \in Goroutines \ {p} : pc'[q] = pc[q]

LEMMA GoesOnNow ==
    ASSUME TurnTypes, NEW p \in Goroutines, NEW l \in TurnLabels, GoesOn(p, l)
    PROVE  Advances(p, l)
BY DEF TurnTypes, GoesOn, Advances

\* Steps that leave the queue and the playback alone, but that FreeSWITCH may
\* have cleared its playback.
PumpStays ==
    /\ pc'["evt"] = pc["evt"] /\ pc'["play"] = pc["play"]
    /\ UNCHANGED <<queue, queued, suppress>> /\ playback' \in {playback, 0}

\* Steps that reserve no response and write no history.
HistoryStays ==
    /\ messages' = messages /\ current' \in {current, Nil}
    /\ \A p \in {"run", "ctl"} : launch'[p] \in {launch[p], Nil}
    /\ \A r \in Responses : Reserved(r)' <=> Reserved(r)

LEMMA PumpStaysKeeps ==
    ASSUME TurnInv, PumpStays
    PROVE  LatencyBudget' /\ LastFrame' /\ queue' \in Nat /\ queued' \in Nat /\ playback' \in Nat
<1>1. LatencyBudget'
  BY DEF TurnInv, LatencyBudget, PumpStays
<1>2. LastFrame'
  <2>1. playback \in Nat /\ playback' \in Nat /\ playback' <= playback
    BY DEF TurnInv, TurnTypes, PumpStays
  <2>2. PICK n \in Nat : InHand = n /\ InHand' = n
    BY DEF InHand, PumpStays
  <2>3. suppress' /\ pc'["evt"] = "recv" => playback + InHand <= 1
    BY DEF TurnInv, LastFrame, PumpStays
  <2>4. \A a, b \in Nat : b <= a /\ a + n <= 1 => b + n <= 1
    OBVIOUS
  <2>5. playback + n <= 1 => playback' + n <= 1
    BY <2>1, <2>4
  <2> QED BY <2>2, <2>3, <2>5 DEF LastFrame
<1> QED BY <1>1, <1>2 DEF TurnInv, TurnTypes, PumpStays

LEMMA HistoryStaysKeeps ==
    ASSUME TurnInv, HistoryStays
    PROVE  HistoryInv' /\ current' \in Responses \cup {Nil} /\ messages' \in Seq(Roles \X Nat)
<1>1. ReservedInOrder'
  BY DEF TurnInv, HistoryInv, ReservedInOrder, HistoryStays
<1>2. CurrentIsLast'
  BY DEF TurnInv, TurnTypes, HistoryInv, CurrentIsLast, HistoryStays
<1>3. HistoryIsReserved'
  BY DEF TurnInv, HistoryInv, HistoryIsReserved, HistoryStays
<1>4. HistoryInOrder'
  BY DEF TurnInv, HistoryInv, HistoryInOrder, HistoryStays
<1>5. LaunchIsReserved'
  BY DEF TurnInv, TurnTypes, HistoryInv, LaunchIsReserved, HistoryStays
<1> QED BY <1>1, <1>2, <1>3, <1>4, <1>5 DEF TurnInv, TurnTypes, HistoryInv, HistoryStays

\* A step that is neither about the queue nor about the history.
LEMMA CalmKeeps ==
    ASSUME TurnInv, PumpStays, HistoryStays, pc' \in [Goroutines -> TurnLabels],
           launch' \in [{"run", "ctl"} -> Responses \cup {Nil}]
    PROVE  TurnInv'
BY PumpStaysKeeps, HistoryStaysKeeps DEF TurnInv, TurnTypes

\* Goroutine p, which is not of the pump's two loops, goes on, and if it is a
\* response it had been reserved and stays so.
LEMMA AdvanceIsCalm ==
    ASSUME TurnInv, NEW p \in Goroutines, NEW l \in TurnLabels, Advances(p, l), p # "evt", p # "play",
           p \in Responses => Reserved(p) /\ l # "none",
           UNCHANGED <<queue, queued, suppress, messages, launch>>,
           playback' \in {playback, 0}, current' \in {current, Nil}
    PROVE  TurnInv'
<1>1. PumpStays
  BY GoroutineNames DEF Advances, PumpStays
<1>2. HistoryStays
  BY GoroutineNames DEF Advances, HistoryStays, Reserved
<1> QED BY <1>1, <1>2, CalmKeeps DEF Advances, TurnInv, TurnTypes

-----------------------------------------------------------------------------
\* The goroutines of the engine and of the control socket.

LEMMA EmitKeeps == ASSUME TurnInv, NEW p \in Emitters, emit(p) PROVE TurnInv'
<1>1. PumpStays /\ HistoryStays /\ pc' = pc /\ launch' = launch
  BY DEF emit, engineVars, queueVars, pumpVars, PumpStays, HistoryStays, Reserved
<1> QED BY <1>1, CalmKeeps DEF TurnInv, TurnTypes

LEMMA LaunchKeeps == ASSUME TurnInv, NEW p \in {"run", "ctl"}, Launch(p) PROVE TurnInv'
<1> DEFINE l == IF p = "run" THEN "select" ELSE "idle"
<1>1. /\ pc' = [pc EXCEPT ![p] = l, ![launch[p]] = "open"]
      /\ launch' = [launch EXCEPT ![p] = Nil]
      /\ UNCHANGED <<current, messages, queue, queued, suppress, playback>>
  BY DEF Launch, queueVars, pumpVars
<1>2. l \in TurnLabels /\ "open" \in TurnLabels /\ p \in Goroutines /\ launch[p] \in Responses \cup {Nil}
  BY GoroutineNames DEF TurnInv, TurnTypes, TurnLabels
<1> HIDE DEF l
<1>3. pc' \in [Goroutines -> TurnLabels]
      /\ \A q \in Goroutines : q # p /\ q # launch[p] => pc'[q] = pc[q]
  BY <1>1, <1>2 DEF TurnInv, TurnTypes
<1>4. launch[p] \in Responses => pc'[launch[p]] = "open" /\ Reserved(launch[p])
  BY <1>1, <1>2, GoroutineNames DEF TurnInv, TurnTypes, HistoryInv, LaunchIsReserved
<1>5. PumpStays
  BY <1>1, <1>2, <1>3, GoroutineNames DEF PumpStays
<1>6. launch' \in [{"run", "ctl"} -> Responses \cup {Nil}]
      /\ \A q \in {"run", "ctl"} : launch'[q] \in {launch[q], Nil}
  BY <1>1 DEF TurnInv, TurnTypes
<1>7. HistoryStays
  BY <1>1, <1>2, <1>3, <1>4, <1>6, GoroutineNames DEF HistoryStays, Reserved
<1> QED BY <1>3, <1>5, <1>6, <1>7, CalmKeeps

LEMMA CancelKeeps ==
    ASSUME TurnInv, NEW p \in {"run", "ctl"}, NEW l \in TurnLabels, cancelResponse(p, l),
           UNCHANGED <<queue, queued, suppress, playback, messages, launch>>
    PROVE  TurnInv'
<1>1. p \in Goroutines /\ p \notin Responses /\ p # "evt" /\ p # "play"
  BY GoroutineNames
<1>2. Advances(p, l) /\ current' = Nil
  BY <1>1, GoesOnNow DEF cancelResponse, Say, TurnInv
<1> QED BY <1>1, <1>2, AdvanceIsCalm

LEMMA RunKeeps ==
    ASSUME TurnInv, SpeechStarted \/ SpeechStopped \/ BargeIn \/ RunEnds \/ RunCancels \/ RunCloses
    PROVE  TurnInv'
<1>0. "run" \in Goroutines /\ "run" \notin Responses
  BY GoroutineNames
<1>1. CASE BargeIn \/ RunCancels
  BY <1>1, CancelKeeps DEF BargeIn, RunCancels, queueVars, pumpVars, TurnLabels
<1>2. CASE SpeechStarted \/ SpeechStopped \/ RunEnds \/ RunCloses
  <2>1. PICK l \in TurnLabels : GoesOn("run", l)
    BY <1>2 DEF SpeechStarted, SpeechStopped, RunEnds, RunCloses, Say, TurnLabels
  <2>2. UNCHANGED <<current, queue, queued, suppress, playback, messages, launch>>
    BY <1>2 DEF SpeechStarted, SpeechStopped, RunEnds, RunCloses, engineVars, queueVars, pumpVars
  <2>3. Advances("run", l)
    BY <1>0, <2>1, GoesOnNow DEF TurnInv
  <2> QED BY <1>0, <2>2, <2>3, AdvanceIsCalm
<1> QED BY <1>1, <1>2

LEMMA CommandKeeps ==
    ASSUME TurnInv, CommandBegins \/ InterruptCommand \/ InterruptClears
    PROVE  TurnInv'
<1>0. "ctl" \in Goroutines /\ "ctl" \notin Responses
  BY GoroutineNames
<1>1. CASE InterruptCommand
  BY <1>1, CancelKeeps DEF InterruptCommand, queueVars, pumpVars, TurnLabels
<1>2. CASE CommandBegins \/ InterruptClears
  <2>1. PICK l \in TurnLabels : GoesOn("ctl", l)
    BY <1>2 DEF CommandBegins, InterruptClears, TurnLabels
  <2>2. UNCHANGED <<current, queue, queued, suppress, messages, launch>> /\ playback' \in {playback, 0}
    BY <1>2 DEF CommandBegins, InterruptClears, engineVars, queueVars, pumpVars
  <2>3. Advances("ctl", l)
    BY <1>0, <2>1, GoesOnNow DEF TurnInv
  <2> QED BY <1>0, <2>2, <2>3, AdvanceIsCalm
<1> QED BY <1>1, <1>2

\* The steps of a response that write no history.
LEMMA ResponseKeeps ==
    ASSUME TurnInv, NEW r \in Responses, ProviderStep(r) \/ failResponse(r) \/ GenerateEnds(r)
    PROVE  TurnInv'
<1>0. r \in Goroutines /\ r # "evt" /\ r # "play" /\ pc[r] \in TurnLabels
  BY GoroutineNames DEF TurnInv, TurnTypes
<1>1. pc[r] # "none" /\ UNCHANGED <<current, queue, queued, suppress, playback, messages, launch>>
  BY DEF ProviderStep, Opened, TextDelta, ToolCall, Frame, VoiceDone, failResponse, GenerateEnds, At,
         engineVars, queueVars, pumpVars
<1>2. (\E l \in TurnLabels : l # "none" /\ GoesOn(r, l)) \/ pc' = pc
  BY DEF ProviderStep, Opened, TextDelta, ToolCall, Frame, VoiceDone, failResponse, GenerateEnds, Say, TurnLabels
<1>3. CASE pc' = pc
  <2>1. Advances(r, pc[r])
    BY <1>0, <1>3 DEF Advances, TurnInv, TurnTypes
  <2> QED BY <1>0, <1>1, <2>1, AdvanceIsCalm DEF Reserved
<1>4. ASSUME NEW l \in TurnLabels, l # "none", GoesOn(r, l) PROVE TurnInv'
  <2>1. Advances(r, l)
    BY <1>0, <1>4, GoesOnNow DEF TurnInv
  <2> QED BY <1>0, <1>1, <1>4, <2>1, AdvanceIsCalm DEF Reserved
<1> QED BY <1>2, <1>3, <1>4

-----------------------------------------------------------------------------
\* The steps that write the history.

\* What is appended stands after everything a reserved response has said.
LEMMA SaidKeeps ==
    ASSUME TurnInv, NEW role \in Roles, NEW x \in Responses, Reserved(x)',
           messages' = Append(messages, <<role, Nth(x)>>),
           \A r \in Responses : Reserved(r) => Reserved(r)' /\ Nth(r) <= Nth(x)
    PROVE  HistoryIsReserved' /\ HistoryInOrder' /\ messages' \in Seq(Roles \X Nat)
<1>0. Nth(x) \in Nat /\ (\A r \in Responses : Nth(r) \in Nat) /\ messages \in Seq(Roles \X Nat)
  BY ResponsesAreNumbered DEF TurnInv, TurnTypes
<1>1. messages' \in Seq(Roles \X Nat)
  BY <1>0
<1>2. /\ Len(messages) \in Nat /\ Len(messages') = Len(messages) + 1
      /\ \A i \in 1 .. Len(messages) : messages'[i] = messages[i] /\ messages[i] \in Roles \X Nat
      /\ messages'[Len(messages) + 1] = <<role, Nth(x)>>
  BY <1>0
<1>3. \A i \in 1 .. Len(messages) : messages[i][2] \in Nat
  BY <1>2
<1>4. \A i \in 1 .. Len(messages) : messages[i][1] # "tool" =>
         \E r \in Responses : Reserved(r) /\ messages[i][2] <= Nth(r)
  BY <1>2 DEF TurnInv, HistoryInv, HistoryIsReserved
<1>5. \A i \in 1 .. Len(messages) : messages[i][1] # "tool" => messages[i][2] <= Nth(x)
  BY <1>0, <1>3, <1>4
<1>6. HistoryIsReserved'
  <2> SUFFICES ASSUME NEW i \in 1 .. Len(messages'), messages'[i][1] # "tool"
               PROVE  \E r \in Responses : Reserved(r)' /\ messages'[i][2] <= Nth(r)
    BY DEF HistoryIsReserved
  <2>1. CASE i \in 1 .. Len(messages)
    BY <1>2, <1>4, <2>1
  <2>2. CASE i = Len(messages) + 1
    BY <1>0, <1>2, <2>2
  <2> QED BY <1>2, <2>1, <2>2
<1>7. HistoryInOrder'
  <2> SUFFICES ASSUME NEW i \in 1 .. Len(messages'), NEW j \in 1 .. Len(messages'), i < j,
                      messages'[i][1] # "tool", messages'[j][1] # "tool"
               PROVE  messages'[i][2] <= messages'[j][2]
    BY DEF HistoryInOrder
  <2>0. i \in 1 .. Len(messages) /\ messages'[i] = messages[i]
    BY <1>2
  <2>1. CASE j \in 1 .. Len(messages)
    BY <1>2, <2>0, <2>1 DEF TurnInv, HistoryInv, HistoryInOrder
  <2>2. CASE j = Len(messages) + 1
    BY <1>2, <1>5, <2>0, <2>2
  <2>3. j \in 1 .. Len(messages) \/ j = Len(messages) + 1
    BY <1>2
  <2> QED BY <2>1, <2>2, <2>3
<1> QED BY <1>1, <1>6, <1>7

\* A tool result is not about any response.
LEMMA ToolResultKeeps ==
    ASSUME TurnInv, messages' = Append(messages, <<"tool", 0>>),
           \A r \in Responses : Reserved(r) => Reserved(r)'
    PROVE  HistoryIsReserved' /\ HistoryInOrder' /\ messages' \in Seq(Roles \X Nat)
<1>0. messages \in Seq(Roles \X Nat) /\ <<"tool", 0>> \in Roles \X Nat
  BY DEF TurnInv, TurnTypes, Roles
<1>1. messages' \in Seq(Roles \X Nat)
  BY <1>0
<1>2. /\ Len(messages) \in Nat /\ Len(messages') = Len(messages) + 1
      /\ \A i \in 1 .. Len(messages) : messages'[i] = messages[i]
      /\ messages'[Len(messages) + 1] = <<"tool", 0>>
  BY <1>0
<1>3. \A i \in 1 .. Len(messages') : messages'[i][1] # "tool" => i \in 1 .. Len(messages)
  BY <1>2
<1>4. HistoryIsReserved'
  BY <1>2, <1>3 DEF TurnInv, HistoryInv, HistoryIsReserved
<1>5. HistoryInOrder'
  <2> SUFFICES ASSUME NEW i \in 1 .. Len(messages'), NEW j \in 1 .. Len(messages'), i < j,
                      messages'[i][1] # "tool", messages'[j][1] # "tool"
               PROVE  messages'[i][2] <= messages'[j][2]
    BY DEF HistoryInOrder
  <2>1. i \in 1 .. Len(messages) /\ j \in 1 .. Len(messages)
    BY <1>3
  <2> QED BY <1>2, <2>1 DEF TurnInv, HistoryInv, HistoryInOrder
<1> QED BY <1>1, <1>4, <1>5

\* The current response, which is the last one, says what it has to say.
LEMMA StopKeeps ==
    ASSUME TurnInv, NEW r \in Responses, stopResponse(r) \/ awaitToolResults(r)
    PROVE  TurnInv'
<1>0. r \in Goroutines /\ r # "evt" /\ r # "play" /\ r # Nil /\ "over" \in TurnLabels
  BY GoroutineNames DEF TurnLabels
<1>1. /\ Reserved(r) /\ GoesOn(r, "over")
      /\ UNCHANGED <<queue, queued, suppress, playback, launch>>
  BY DEF stopResponse, awaitToolResults, At, Say, Reserved, queueVars, pumpVars
<1>2. Advances(r, "over")
  BY <1>0, <1>1, GoesOnNow DEF TurnInv
<1>3. CASE messages' = messages
  <2>1. current' \in {current, Nil}
    BY DEF stopResponse, awaitToolResults
  <2> QED BY <1>0, <1>1, <1>2, <1>3, <2>1, AdvanceIsCalm
<1>4. CASE messages' # messages
  <2>1. PICK role \in Roles : messages' = Append(messages, <<role, Nth(r)>>)
    BY <1>4 DEF stopResponse, awaitToolResults, Roles
  <2>2. current = r /\ current' = Nil
    BY <1>4 DEF stopResponse, awaitToolResults
  <2>3. \A x \in Responses : Reserved(x)' <=> Reserved(x)
    BY <1>1, <1>2, GoroutineNames DEF Advances, Reserved
  <2>4. \A x \in Responses : Reserved(x) => Nth(x) <= Nth(r)
    BY <1>0, <2>2 DEF TurnInv, HistoryInv, CurrentIsLast
  <2>5. HistoryIsReserved' /\ HistoryInOrder' /\ messages' \in Seq(Roles \X Nat)
    BY <1>1, <2>1, <2>3, <2>4, SaidKeeps
  <2>6. ReservedInOrder' /\ CurrentIsLast' /\ LaunchIsReserved'
    BY <1>1, <2>2, <2>3 DEF TurnInv, TurnTypes, HistoryInv, ReservedInOrder, CurrentIsLast, LaunchIsReserved
  <2>7. PumpStays
    BY <1>0, <1>1, <1>2, GoroutineNames DEF Advances, PumpStays
  <2>8. TurnTypes'
    BY <1>1, <1>2, <2>2, <2>5, <2>7, PumpStaysKeeps DEF Advances, TurnInv, TurnTypes
  <2> QED BY <2>5, <2>6, <2>7, <2>8, PumpStaysKeeps DEF TurnInv, HistoryInv
<1> QED BY <1>3, <1>4

\* The next response in order is after all that are reserved, and becomes current.
LEMMA ReserveIsNext ==
    ASSUME TurnInv, NEW p \in {"run", "ctl"}, NEW r \in Fresh, Reserve(p, r)
    PROVE  /\ r \in Responses
           /\ \A x \in Responses : Reserved(x) => Reserved(x)' /\ Nth(x) <= Nth(r)
           /\ Reserved(r)' /\ ReservedInOrder' /\ CurrentIsLast' /\ LaunchIsReserved'
           /\ launch' \in [{"run", "ctl"} -> Responses \cup {Nil}] /\ current' \in Responses
           /\ pc' \in [Goroutines -> TurnLabels]
           /\ pc'["evt"] = pc["evt"] /\ pc'["play"] = pc["play"]
<1>0. r \in Responses /\ ~Reserved(r) /\ p \in Goroutines /\ p \notin Responses
      /\ \A x \in Responses : Nth(x) < Nth(r) => Reserved(x)
  BY GoroutineNames DEF Fresh, Reserved
<1>1. /\ pc' = [pc EXCEPT ![p] = "launch", ![r] = "reserved"]
      /\ launch' = [launch EXCEPT ![p] = r] /\ current' = r
  BY DEF Reserve
<1>2. /\ pc' \in [Goroutines -> TurnLabels] /\ pc'[r] = "reserved"
      /\ \A q \in Goroutines : q # p /\ q # r => pc'[q] = pc[q]
  BY <1>0, <1>1, GoroutineNames DEF TurnInv, TurnTypes, TurnLabels
<1>3. Reserved(r)' /\ \A x \in Responses : x # r => (Reserved(x)' <=> Reserved(x))
  BY <1>0, <1>2, GoroutineNames DEF Reserved
<1>4. \A x \in Responses : Reserved(x) => Nth(x) < Nth(r)
  <2> SUFFICES ASSUME NEW x \in Responses, Reserved(x), ~(Nth(x) < Nth(r)) PROVE FALSE
    OBVIOUS
  <2>1. Nth(x) \in Nat /\ Nth(r) \in Nat /\ (Nth(x) = Nth(r) => x = r)
    BY <1>0, ResponsesAreNumbered
  <2>2. Nth(r) < Nth(x)
    BY <1>0, <2>1
  <2> QED BY <1>0, <2>2 DEF TurnInv, HistoryInv, ReservedInOrder
<1>5. ReservedInOrder'
  BY <1>0, <1>3 DEF TurnInv, HistoryInv, ReservedInOrder
<1>6. CurrentIsLast'
  BY <1>0, <1>1, <1>3, <1>4, ResponsesAreNumbered DEF CurrentIsLast
<1>7. launch' \in [{"run", "ctl"} -> Responses \cup {Nil}] /\ launch'[p] = r
      /\ \A q \in {"run", "ctl"} : q # p => launch'[q] = launch[q]
  BY <1>0, <1>1 DEF TurnInv, TurnTypes
<1>8. LaunchIsReserved'
  BY <1>0, <1>3, <1>7 DEF TurnInv, TurnTypes, HistoryInv, LaunchIsReserved
<1> QED BY <1>0, <1>1, <1>2, <1>3, <1>4, <1>5, <1>6, <1>7, <1>8, GoroutineNames, ResponsesAreNumbered

LEMMA StartKeeps == ASSUME TurnInv, startResponse PROVE TurnInv'
<1>1. PICK r \in Fresh : Reserve("run", r) /\ messages' = Append(messages, <<"user", Nth(r)>>)
  BY DEF startResponse
<1>2. UNCHANGED <<queue, queued, suppress, playback>>
  BY DEF startResponse, queueVars, pumpVars
<1>3. "user" \in Roles
  BY DEF Roles
<1>4. HistoryIsReserved' /\ HistoryInOrder' /\ messages' \in Seq(Roles \X Nat)
  BY <1>1, <1>3, ReserveIsNext, SaidKeeps
<1>5. PumpStays
  BY <1>1, <1>2, ReserveIsNext DEF PumpStays
<1> QED BY <1>1, <1>4, <1>5, ReserveIsNext, PumpStaysKeeps DEF TurnInv, TurnTypes, HistoryInv

LEMMA SubmitKeeps == ASSUME TurnInv, SubmitToolResult PROVE TurnInv'
<1>0. /\ "ctl" \in Goroutines /\ "ctl" \notin Responses /\ "gone" \in TurnLabels /\ "idle" \in TurnLabels
      /\ UNCHANGED <<queue, queued, suppress, playback>>
  BY GoroutineNames DEF SubmitToolResult, queueVars, pumpVars, TurnLabels
<1>1. CASE call["ctl"] \notin pending
  <2>1. GoesOn("ctl", "gone") /\ UNCHANGED <<current, messages, launch>>
    BY <1>1 DEF SubmitToolResult
  <2> QED BY <1>0, <2>1, GoesOnNow, AdvanceIsCalm DEF TurnInv
<1>2. CASE call["ctl"] \in pending
  <2>1. messages' = Append(messages, <<"tool", 0>>)
    BY <1>2 DEF SubmitToolResult
  <2>2. CASE \E r \in Fresh : Reserve("ctl", r)
    <3>1. HistoryIsReserved' /\ HistoryInOrder' /\ messages' \in Seq(Roles \X Nat)
      BY <2>1, <2>2, ReserveIsNext, ToolResultKeeps
    <3>2. PumpStays
      BY <1>0, <2>2, ReserveIsNext DEF PumpStays
    <3> QED BY <2>2, <3>1, <3>2, ReserveIsNext, PumpStaysKeeps DEF TurnInv, TurnTypes, HistoryInv
  <2>3. CASE GoesOn("ctl", "idle") /\ UNCHANGED <<current, launch>>
    <3>1. Advances("ctl", "idle")
      BY <1>0, <2>3, GoesOnNow DEF TurnInv
    <3>2. \A r \in Responses : Reserved(r)' <=> Reserved(r)
      BY <3>1, GoroutineNames DEF Advances, Reserved
    <3>3. HistoryIsReserved' /\ HistoryInOrder' /\ messages' \in Seq(Roles \X Nat)
      BY <2>1, <3>2, ToolResultKeeps
    <3>4. ReservedInOrder' /\ CurrentIsLast' /\ LaunchIsReserved'
      BY <2>3, <3>2 DEF TurnInv, TurnTypes, HistoryInv, ReservedInOrder, CurrentIsLast, LaunchIsReserved
    <3>5. PumpStays
      BY <1>0, <3>1, GoroutineNames DEF Advances, PumpStays
    <3> QED BY <2>3, <3>1, <3>3, <3>4, <3>5, PumpStaysKeeps DEF Advances, TurnInv, TurnTypes, HistoryInv
  <2> QED BY <1>2, <2>2, <2>3 DEF SubmitToolResult
<1> QED BY <1>1, <1>2

-----------------------------------------------------------------------------
\* The pump.

\* A loop of the pump goes on; what is left to show is about its queue and flags.
LEMMA LoopKeeps ==
    ASSUME TurnInv, NEW p \in {"evt", "aud", "play"}, NEW l \in TurnLabels, Advances(p, l),
           UNCHANGED <<messages, launch>>, current' \in {current, Nil},
           queue' \in Nat, queued' \in Nat, playback' \in Nat, LatencyBudget', LastFrame'
    PROVE  TurnInv'
<1>1. HistoryStays
  BY GoroutineNames DEF Advances, HistoryStays, Reserved
<1> QED BY <1>1, HistoryStaysKeeps DEF Advances, TurnInv, TurnTypes

\* What the flags and the queue's account say, in the places the two loops are at.
OneIf(b) == IF b THEN 1 ELSE 0
LEMMA AccountIs ==
    ASSUME TurnInv
    PROVE  /\ queue \in Nat /\ queued \in Nat /\ playback \in Nat /\ queued <= MaxQueue /\ MaxQueue \in Nat
           /\ queued = queue + OneIf(pc["play"] = "debit") + OneIf(pc["evt"] = "debit")
           /\ pc["evt"] # "debit" /\ pc["play"] # "debit" => queued = queue
           /\ pc["evt"] = "debit" /\ pc["play"] # "debit" => queued = queue + 1
           /\ pc["evt"] # "debit" /\ pc["play"] = "debit" => queued = queue + 1
           /\ pc["evt"] = "debit" /\ pc["play"] = "debit" => queued = queue + 2
BY TurnAssumption DEF TurnInv, TurnTypes, LatencyBudget, OneIf

LEMMA AccountNow ==
    ASSUME queue' \in Nat, queued' \in Nat, queued' <= MaxQueue,
           queued' = queue' + OneIf(pc'["play"] = "debit") + OneIf(pc'["evt"] = "debit")
    PROVE  LatencyBudget'
BY DEF LatencyBudget, OneIf

LEMMA AudioKeeps == ASSUME TurnInv, AudioStep PROVE TurnInv'
<1>0. /\ "aud" \in Goroutines /\ "aud" \notin Responses /\ "aud" # "evt" /\ "aud" # "play"
      /\ {"got", "push", "recv", "over", "loop"} \subseteq TurnLabels
  BY GoroutineNames DEF TurnLabels
<1>1. ASSUME NEW r \in Responses, AudioLoop(r) PROVE TurnInv'
  <2>1. /\ pc' = [pc EXCEPT !["aud"] = "got", ![r] = "loop"] /\ pc[r] = "offer"
        /\ UNCHANGED <<current, launch, messages, queue, queued, suppress, playback>>
    BY <1>1 DEF AudioLoop, At, engineVars, queueVars, pumpVars
  <2>2. /\ pc' \in [Goroutines -> TurnLabels] /\ pc'[r] = "loop"
        /\ \A q \in Goroutines : q # "aud" /\ q # r => pc'[q] = pc[q]
    BY <1>0, <2>1, GoroutineNames DEF TurnInv, TurnTypes
  <2>3. PumpStays
    BY <2>1, <2>2, GoroutineNames DEF PumpStays
  <2>4. HistoryStays
    BY <2>1, <2>2, GoroutineNames DEF HistoryStays, Reserved
  <2> QED BY <2>1, <2>2, <2>3, <2>4, CalmKeeps DEF TurnInv, TurnTypes
<1>2. CASE AudioChecks \/ PumpEnds("aud")
  <2>1. PICK l \in TurnLabels : GoesOn("aud", l)
    BY <1>0, <1>2 DEF AudioChecks, PumpEnds, Returns
  <2>2. UNCHANGED <<current, launch, messages, queue, queued, suppress, playback>>
    BY <1>2 DEF AudioChecks, PumpEnds, engineVars, queueVars
  <2> QED BY <1>0, <2>1, <2>2, GoesOnNow, AdvanceIsCalm DEF TurnInv
<1>3. CASE Push
  <2>1. UNCHANGED <<current, launch, messages, suppress, playback>>
    BY <1>3 DEF Push, engineVars
  <2>2. CASE queued + 1 > MaxQueue
    <3>1. GoesOn("aud", "over") /\ UNCHANGED <<queue, queued>>
      BY <1>3, <2>2 DEF Push, Returns, queueVars
    <3> QED BY <1>0, <2>1, <3>1, GoesOnNow, AdvanceIsCalm DEF TurnInv
  <2>3. CASE ~(queued + 1 > MaxQueue)
    <3>1. GoesOn("aud", "recv") /\ queue' = queue + 1 /\ queued' = queued + 1
      BY <1>3, <2>3 DEF Push
    <3>2. Advances("aud", "recv")
      BY <1>0, <3>1, GoesOnNow DEF TurnInv
    <3>3. pc'["evt"] = pc["evt"] /\ pc'["play"] = pc["play"]
      BY <3>2, GoroutineNames DEF Advances
    <3>4. LatencyBudget' /\ queue' \in Nat /\ queued' \in Nat
      <4>1. queue' \in Nat /\ queued' \in Nat /\ queued' <= MaxQueue
        BY <2>3, <3>1, AccountIs
      <4>2. queued' = queue' + OneIf(pc'["play"] = "debit") + OneIf(pc'["evt"] = "debit")
        BY <3>1, <3>3, AccountIs DEF OneIf
      <4> QED BY <4>1, <4>2, AccountNow
    <3>5. LastFrame'
      BY <2>1, <3>3 DEF TurnInv, LastFrame, InHand
    <3> QED BY <1>0, <2>1, <3>2, <3>4, <3>5, AccountIs, LoopKeeps
  <2> QED BY <2>2, <2>3
<1> QED BY <1>1, <1>2, <1>3 DEF AudioStep

LEMMA EventKeeps == ASSUME TurnInv, EventStep PROVE TurnInv'
<1>0. /\ "evt" \in Goroutines /\ "play" \in Goroutines
      /\ {"recv", "over", "sweep", "debit", "interrupt", "clear"} \subseteq TurnLabels
  BY GoroutineNames DEF TurnLabels
<1>1. CASE EventLoop
  <2>1. /\ pc["evt"] = "recv" /\ UNCHANGED <<current, launch, messages, queue, queued, playback>>
        /\ \/ GoesOn("evt", "over")
           \/ GoesOn("evt", "sweep")
           \/ pc' = pc /\ (suppress' = FALSE \/ suppress' = suppress)
    BY <1>1 DEF EventLoop, At, Returns, engineVars, queueVars
  <2>2. PICK l \in {"over", "sweep", "recv"} :
             Advances("evt", l) /\ (l = "recv" => suppress' = FALSE \/ suppress' = suppress)
    BY <1>0, <2>1, GoesOnNow DEF TurnInv, TurnTypes, Advances
  <2>3. pc'["play"] = pc["play"] /\ pc'["evt"] = l
    BY <1>0, <2>2 DEF Advances
  <2>4. LatencyBudget'
    BY <2>1, <2>3, AccountIs, AccountNow DEF OneIf
  <2>5. LastFrame'
    BY <2>1, <2>2, <2>3 DEF TurnInv, LastFrame, InHand
  <2> QED BY <1>0, <2>1, <2>2, <2>4, <2>5, AccountIs, LoopKeeps
<1>2. CASE Clear
  <2>1. pc["evt"] = "sweep" /\ UNCHANGED <<current, launch, messages, queued, suppress, playback>>
    BY <1>2 DEF Clear, At, engineVars, pumpVars
  <2>2. CASE queue > 0
    <3>1. GoesOn("evt", "debit") /\ queue' = queue - 1
      BY <1>2, <2>2 DEF Clear
    <3>2. Advances("evt", "debit")
      BY <1>0, <3>1, GoesOnNow DEF TurnInv
    <3>3. pc'["evt"] = "debit" /\ pc'["play"] = pc["play"]
      BY <1>0, <3>2 DEF Advances
    <3>4. LatencyBudget' /\ queue' \in Nat
      BY <2>1, <2>2, <3>1, <3>3, AccountIs, AccountNow DEF OneIf
    <3>5. LastFrame'
      BY <3>3 DEF LastFrame
    <3> QED BY <1>0, <2>1, <3>2, <3>4, <3>5, AccountIs, LoopKeeps
  <2>3. CASE ~(queue > 0)
    <3>1. GoesOn("evt", "interrupt") /\ queue' = queue
      BY <1>2, <2>3 DEF Clear
    <3>2. Advances("evt", "interrupt")
      BY <1>0, <3>1, GoesOnNow DEF TurnInv
    <3>3. pc'["evt"] = "interrupt" /\ pc'["play"] = pc["play"]
      BY <1>0, <3>2 DEF Advances
    <3>4. LatencyBudget'
      BY <2>1, <3>1, <3>3, AccountIs, AccountNow DEF OneIf
    <3>5. LastFrame'
      BY <3>3 DEF LastFrame
    <3> QED BY <1>0, <2>1, <3>1, <3>2, <3>4, <3>5, AccountIs, LoopKeeps
  <2> QED BY <2>2, <2>3
<1>3. CASE ClearDebits
  <2>1. /\ pc["evt"] = "debit" /\ GoesOn("evt", "sweep") /\ queued' = Debited
        /\ UNCHANGED <<current, launch, messages, queue, suppress, playback>>
    BY <1>3 DEF ClearDebits, At, engineVars, pumpVars
  <2>2. Advances("evt", "sweep")
    BY <1>0, <2>1, GoesOnNow DEF TurnInv
  <2>3. pc'["evt"] = "sweep" /\ pc'["play"] = pc["play"]
    BY <1>0, <2>2 DEF Advances
  <2>4. queued' = queued - 1 /\ queued' \in Nat
    BY <2>1, AccountIs DEF Debited, OneIf
  <2>5. LatencyBudget'
    BY <2>1, <2>3, <2>4, AccountIs, AccountNow DEF OneIf
  <2>6. LastFrame'
    BY <2>3 DEF LastFrame
  <2> QED BY <1>0, <2>1, <2>2, <2>4, <2>5, <2>6, AccountIs, LoopKeeps
<1>4. CASE Interrupt
  <2>1. /\ pc["evt"] = "interrupt" /\ GoesOn("evt", "clear") /\ current' = Nil
        /\ UNCHANGED <<launch, messages, queue, queued, suppress, playback>>
    BY <1>4 DEF Interrupt, cancelResponse, Say, At, queueVars, pumpVars
  <2>2. Advances("evt", "clear")
    BY <1>0, <2>1, GoesOnNow DEF TurnInv
  <2>3. pc'["evt"] = "clear" /\ pc'["play"] = pc["play"]
    BY <1>0, <2>2 DEF Advances
  <2>4. LatencyBudget'
    BY <2>1, <2>3, AccountIs, AccountNow DEF OneIf
  <2>5. LastFrame'
    BY <2>3 DEF LastFrame
  <2> QED BY <1>0, <2>1, <2>2, <2>4, <2>5, AccountIs, LoopKeeps
<1>5. CASE ClearPlayback \/ PumpEnds("evt")
  <2>1. /\ pc["evt"] \in {"clear", "recv"}
        /\ UNCHANGED <<current, launch, messages, queue, queued>>
        /\ \/ GoesOn("evt", "recv") /\ playback' = 0
           \/ GoesOn("evt", "over") /\ playback' = playback
    BY <1>5 DEF ClearPlayback, PumpEnds, Returns, At, engineVars, queueVars
  <2>2. PICK l \in {"recv", "over"} : Advances("evt", l) /\ (l = "recv" => playback' = 0)
    BY <1>0, <2>1, GoesOnNow DEF TurnInv
  <2>3. pc'["evt"] = l /\ pc'["play"] = pc["play"]
    BY <1>0, <2>2 DEF Advances
  <2>4. LatencyBudget'
    BY <2>1, <2>3, AccountIs, AccountNow DEF OneIf
  <2>5. LastFrame'
    BY <2>2, <2>3 DEF LastFrame, InHand
  <2> QED BY <1>0, <2>1, <2>2, <2>4, <2>5, AccountIs, LoopKeeps
<1> QED BY <1>1, <1>2, <1>3, <1>4, <1>5 DEF EventStep

LEMMA PlaybackKeeps == ASSUME TurnInv, PlaybackStep PROVE TurnInv'
<1>0. /\ "evt" \in Goroutines /\ "play" \in Goroutines
      /\ {"pop", "over", "debit", "check", "mark", "send"} \subseteq TurnLabels
  BY GoroutineNames DEF TurnLabels
<1>1. CASE Pop
  <2>1. /\ pc["play"] = "pop" /\ GoesOn("play", "debit") /\ queue > 0 /\ queue' = queue - 1
        /\ UNCHANGED <<current, launch, messages, queued, suppress, playback>>
    BY <1>1 DEF Pop, At, engineVars, pumpVars
  <2>2. Advances("play", "debit")
    BY <1>0, <2>1, GoesOnNow DEF TurnInv
  <2>3. pc'["play"] = "debit" /\ pc'["evt"] = pc["evt"]
    BY <1>0, <2>2 DEF Advances
  <2>4. LatencyBudget' /\ queue' \in Nat
    BY <2>1, <2>3, AccountIs, AccountNow DEF OneIf
  <2>5. LastFrame'
    BY <2>1, <2>3 DEF TurnInv, LastFrame, InHand
  <2> QED BY <1>0, <2>1, <2>2, <2>4, <2>5, AccountIs, LoopKeeps
<1>2. CASE PopDebits
  <2>1. /\ pc["play"] = "debit" /\ GoesOn("play", "check") /\ queued' = Debited
        /\ UNCHANGED <<current, launch, messages, queue, suppress, playback>>
    BY <1>2 DEF PopDebits, At, engineVars, pumpVars
  <2>2. Advances("play", "check")
    BY <1>0, <2>1, GoesOnNow DEF TurnInv
  <2>3. pc'["play"] = "check" /\ pc'["evt"] = pc["evt"]
    BY <1>0, <2>2 DEF Advances
  <2>4. queued' = queued - 1 /\ queued' \in Nat
    BY <2>1, AccountIs DEF Debited, OneIf
  <2>5. LatencyBudget'
    BY <2>1, <2>3, <2>4, AccountIs, AccountNow DEF OneIf
  <2>6. LastFrame'
    BY <2>1, <2>3 DEF TurnInv, LastFrame, InHand
  <2> QED BY <1>0, <2>1, <2>2, <2>4, <2>5, <2>6, AccountIs, LoopKeeps
<1>3. CASE PlaybackChecks \/ PlaybackMarks \/ PumpEnds("play")
  <2>1. UNCHANGED <<current, launch, messages, queue, queued, suppress, playback>>
    BY <1>3 DEF PlaybackChecks, PlaybackMarks, PumpEnds, engineVars, queueVars, pumpVars
  <2>2. \/ pc["play"] = "check" /\ suppress /\ GoesOn("play", "pop")
        \/ pc["play"] = "check" /\ ~suppress /\ GoesOn("play", "mark")
        \/ pc["play"] = "mark" /\ GoesOn("play", "send")
        \/ pc["play"] \in {"recv", "pop"} /\ GoesOn("play", "over")
    BY <1>3 DEF PlaybackChecks, PlaybackMarks, PumpEnds, Returns, At
  <2>3. PICK l \in {"pop", "mark", "send", "over"} :
             /\ Advances("play", l) /\ pc["play"] # "debit"
             /\ l = "mark" => ~suppress
             /\ l = "send" => pc["play"] = "mark"
    BY <1>0, <2>2, GoesOnNow DEF TurnInv
  <2>4. pc'["play"] = l /\ pc'["evt"] = pc["evt"]
    BY <1>0, <2>3 DEF Advances
  <2>5. LatencyBudget'
    BY <2>1, <2>3, <2>4, AccountIs, AccountNow DEF OneIf
  <2>6. LastFrame'
    BY <2>1, <2>3, <2>4, AccountIs DEF TurnInv, LastFrame, InHand
  <2> QED BY <1>0, <2>1, <2>3, <2>5, <2>6, AccountIs, LoopKeeps
<1>4. CASE SendAudio
  <2>1. /\ pc["play"] = "send" /\ UNCHANGED <<current, launch, messages, queue, queued, suppress>>
        /\ \/ GoesOn("play", "pop") /\ playback' = playback + 1
           \/ GoesOn("play", "over") /\ playback' = playback
    BY <1>4 DEF SendAudio, Returns, At, engineVars, queueVars
  <2>2. PICK l \in {"pop", "over"} : Advances("play", l)
    BY <1>0, <2>1, GoesOnNow DEF TurnInv
  <2>3. pc'["play"] = l /\ pc'["evt"] = pc["evt"]
    BY <1>0, <2>2 DEF Advances
  <2>4. LatencyBudget'
    BY <2>1, <2>3, AccountIs, AccountNow DEF OneIf
  <2>5. LastFrame' /\ playback' \in Nat
    BY <2>1, <2>3, AccountIs DEF TurnInv, LastFrame, InHand
  <2> QED BY <1>0, <2>1, <2>2, <2>4, <2>5, AccountIs, LoopKeeps
<1> QED BY <1>1, <1>2, <1>3, <1>4 DEF PlaybackStep

-----------------------------------------------------------------------------
LEMMA TurnInvInit == TurnInit => TurnInv
<1> SUFFICES ASSUME TurnInit PROVE TurnInv
  OBVIOUS
<1>1. /\ pc \in [Goroutines -> TurnLabels] /\ pc["evt"] = "recv" /\ pc["play"] = "pop"
      /\ \A r \in Responses : pc[r] = "none"
  BY GoroutineNames DEF TurnInit, TurnLabels
<1>2. /\ current = Nil /\ messages = <<>> /\ launch = [p \in {"run", "ctl"} |-> Nil]
      /\ queue = 0 /\ queued = 0 /\ playback = 0 /\ suppress = FALSE
  BY DEF TurnInit
<1>3. TurnTypes
  BY <1>1, <1>2 DEF TurnTypes
<1>4. LatencyBudget /\ LastFrame
  BY <1>1, <1>2, TurnAssumption DEF LatencyBudget, LastFrame
<1>5. HistoryInv
  BY <1>1, <1>2 DEF HistoryInv, LaunchIsReserved, ReservedInOrder, CurrentIsLast, HistoryIsReserved,
                    HistoryInOrder, Reserved
<1> QED BY <1>3, <1>4, <1>5 DEF TurnInv

LEMMA TurnInvStep == TurnInv /\ [TurnNext]_turnVars => TurnInv'
<1> SUFFICES ASSUME TurnInv, [TurnNext]_turnVars PROVE TurnInv'
  OBVIOUS
<1>1. CASE InputEnds \/ Finish \/ UNCHANGED turnVars
  <2>1. PumpStays /\ HistoryStays /\ pc' = pc /\ launch' = launch
    BY <1>1 DEF InputEnds, Finish, turnVars, engineVars, queueVars, pumpVars, PumpStays, HistoryStays, Reserved
  <2> QED BY <2>1, CalmKeeps DEF TurnInv, TurnTypes
<1>2. ASSUME NEW r \in Responses, GenerateStep(r) \/ ProviderStep(r) PROVE TurnInv'
  BY <1>2, StopKeeps, ResponseKeeps DEF GenerateStep
<1>3. CASE RunStep \/ SpeechStarted \/ SpeechStopped \/ RunEnds
  BY <1>3, RunKeeps, StartKeeps DEF RunStep
<1>4. CASE CommandBegins \/ ControlStep
  BY <1>4, CommandKeeps, SubmitKeeps DEF ControlStep
<1> QED BY <1>1, <1>2, <1>3, <1>4, EmitKeeps, LaunchKeeps, EventKeeps, AudioKeeps, PlaybackKeeps DEF TurnNext

LEMMA TurnInvHolds == TurnSpec => []TurnInv
BY TurnInvInit, TurnInvStep, PTL DEF TurnSpec

\* After a barge-in at most one frame of the interrupted answer is still
\* played, for any number of frames wherever they were (pump).
THEOREM StaleFramesAreFew == TurnSpec => []OneStaleFrame
<1>1. TurnInv => OneStaleFrame
  BY DEF TurnInv, TurnTypes, LastFrame, InHand, OneStaleFrame
<1> QED BY <1>1, TurnInvHolds, PTL

\* The output queue's account is exact and within its budget (audioQueue).
THEOREM QueueIsAccounted == TurnSpec => []LatencyBudget
<1>1. TurnInv => LatencyBudget
  BY DEF TurnInv
<1> QED BY <1>1, TurnInvHolds, PTL

\* The model's history is in the order of the conversation, for any number of
\* responses and interruptions (stopResponse, awaitToolResults, startResponse).
THEOREM HistoryStaysInOrder == TurnSpec => []HistoryInOrder
<1>1. TurnInv => HistoryInOrder
  BY DEF TurnInv, HistoryInv
<1> QED BY <1>1, TurnInvHolds, PTL
=============================================================================
