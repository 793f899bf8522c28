----------------------------- MODULE MediaNodes -----------------------------
(***************************************************************************)
(* The media node registry in Redis: nodes advertise themselves and drain, *)
(* workers place sessions on nodes under a capacity lease and release them.*)
(*                                                                         *)
(* A Lua script is one step; every other Redis call is a step of its own.  *)
(* Two placers may carry the same session: a repeated answered event       *)
(* resumes the session's attachment.  TTLs are nondeterministic: the keys  *)
(* of a dead node expire at any moment.  A lease is two records, its entry *)
(* in the node's ZSET and the session's owner key; the first is pruned by  *)
(* the clocks of whoever counts the set, the second expires by Redis's     *)
(* own, so each lapses by itself, at any moment.                           *)
(***************************************************************************)
EXTENDS Naturals, FiniteSets

CONSTANTS
    Nodes,      \* media nodes
    Sessions,   \* media sessions
    Placers,    \* workers' attachments
    SessionOf,  \* the session of each placer
    MaxSessions,   \* of every node
    MaxFaults,  \* bound: crashes, Redis errors and lost answers
    NoNode

ASSUME MediaAssumption ==
    /\ SessionOf \in [Placers -> Sessions]
    /\ MaxSessions \in Nat \ {0} /\ MaxFaults \in Nat
    /\ NoNode \notin Nodes
    /\ IsFiniteSet(Sessions)

VARIABLES
    advert,    \* runtime:media:node:<id>, its draining field or none
    drainKeys, \* nodes with a runtime:media:draining:<id> key
    leases,    \* runtime:media:leases:<id>
    owner,     \* runtime:media:session:<id>
    parted,    \* history: the leases of each node one of whose records has lapsed
    active,    \* the sessions of each node's manager
    node,      \* the node process: up, its drain sequence, down
    beat,      \* the node's heartbeat goroutine: the flag it has loaded and the
               \* sessions it still refreshes
    placer,    \* control state of each placer
    faults

leaseVars == <<leases, owner, parted>>
registry == <<advert, drainKeys, leaseVars>>
mediaVars == <<advert, drainKeys, leaseVars, active, node, beat, placer, faults>>

Adverts == {"none", "ready", "draining"}
NodePCs == {"up", "drain", "drainKey", "marked", "unmarked", "down"}
Beats == [pc : {"idle", "set", "key", "ids", "refresh"}, draining : BOOLEAN, ids : SUBSET Sessions]
PlacerPCs == {"list", "try", "create", "placed", "release", "releaseFrom", "over"}
PlacerStates == [pc : PlacerPCs, seen : SUBSET Nodes, at : Nodes \cup {NoNode}]

MediaInit ==
    /\ node \in [Nodes -> {"up", "down"}]
    /\ advert = [n \in Nodes |-> IF node[n] = "up" THEN "ready" ELSE "none"]
    /\ drainKeys = {}
    /\ leases = [n \in Nodes |-> {}]
    /\ owner = [s \in Sessions |-> NoNode]
    /\ parted = [n \in Nodes |-> {}]
    /\ active = [n \in Nodes |-> {}]
    /\ beat = [n \in Nodes |-> [pc |-> "idle", draining |-> FALSE, ids |-> {}]]
    /\ placer = [p \in Placers |-> [pc |-> "list", seen |-> {}, at |-> NoNode]]
    /\ faults = 0

Fault == faults < MaxFaults /\ faults' = faults + 1
Draining(n) == node[n] \notin {"up", "down"}

-----------------------------------------------------------------------------
\* The registration goroutine: load the flag, write the node key, then set or
\* delete the draining key, and refresh the lease of every session of the manager.
\* A failed write ends Heartbeat early; the leases are refreshed all the same.

\* Mutant: the flag is captured when the registration starts.
LoadOnce(n) ==
    /\ node[n] # "down" /\ beat[n].pc = "idle"
    /\ beat' = [beat EXCEPT ![n] = [pc |-> "set", draining |-> FALSE, ids |-> {}]]
    /\ UNCHANGED <<registry, active, node, placer, faults>>

BeatLoad(n) ==
    /\ node[n] # "down" /\ beat[n].pc = "idle"
    /\ beat' = [beat EXCEPT ![n] = [pc |-> "set", draining |-> Draining(n), ids |-> {}]]
    /\ UNCHANGED <<registry, active, node, placer, faults>>

BeatSet(n) ==
    /\ beat[n].pc = "set"
    /\ \/ /\ advert' = [advert EXCEPT ![n] = IF beat[n].draining THEN "draining" ELSE "ready"]
          /\ beat' = [beat EXCEPT ![n].pc = "key"]
          /\ UNCHANGED faults
       \/ /\ Fault
          /\ beat' = [beat EXCEPT ![n].pc = "ids"]
          /\ UNCHANGED advert
    /\ UNCHANGED <<drainKeys, leaseVars, active, node, placer>>

BeatKey(n) ==
    /\ beat[n].pc = "key"
    /\ \/ /\ drainKeys' = IF beat[n].draining THEN drainKeys \cup {n} ELSE drainKeys \ {n}
          /\ UNCHANGED faults
       \/ Fault /\ UNCHANGED drainKeys
    /\ beat' = [beat EXCEPT ![n].pc = "ids"]
    /\ UNCHANGED <<advert, leaseVars, active, node, placer>>

BeatIDs(n) ==
    /\ beat[n].pc = "ids"
    /\ beat' = [beat EXCEPT ![n].ids = active[n],
                            ![n].pc = IF active[n] = {} THEN "idle" ELSE "refresh"]
    /\ UNCHANGED <<registry, active, node, placer, faults>>

\* RefreshMediaLease for one of them: the script puts the entry back, without
\* counting, when the owner key still names the node.
Refresh(n, s) ==
    /\ beat[n].pc = "refresh" /\ s \in beat[n].ids
    /\ \/ /\ advert[n] # "none" /\ owner[s] = n
          /\ leases' = [leases EXCEPT ![n] = @ \cup {s}]
          /\ UNCHANGED faults
       \/ (advert[n] = "none" \/ owner[s] # n) /\ UNCHANGED <<leases, faults>>
       \/ Fault /\ UNCHANGED leases
    /\ beat' = [beat EXCEPT ![n].ids = @ \ {s},
                            ![n].pc = IF beat[n].ids = {s} THEN "idle" ELSE "refresh"]
    /\ UNCHANGED <<advert, drainKeys, owner, parted, active, node, placer>>

\* RunWithConfig after ctx.Done: the draining flags, beginDrain's heartbeat.
BeginDrain(n) ==
    /\ node[n] = "up"
    /\ node' = [node EXCEPT ![n] = "drain"]
    /\ UNCHANGED <<registry, active, beat, placer, faults>>

\* beginDrain ignores the error of a failed write.
DrainWriteFails(n) == Fault /\ node' = [node EXCEPT ![n] = "unmarked"]

DrainSet(n) ==
    /\ node[n] = "drain"
    /\ \/ /\ advert' = [advert EXCEPT ![n] = "draining"]
          /\ node' = [node EXCEPT ![n] = "drainKey"]
          /\ UNCHANGED faults
       \/ DrainWriteFails(n) /\ UNCHANGED advert
    /\ UNCHANGED <<drainKeys, leaseVars, active, beat, placer>>

DrainKey(n) ==
    /\ node[n] = "drainKey"
    /\ \/ /\ drainKeys' = drainKeys \cup {n}
          /\ node' = [node EXCEPT ![n] = "marked"]
          /\ UNCHANGED faults
       \/ DrainWriteFails(n) /\ UNCHANGED drainKeys
    /\ UNCHANGED <<advert, leaseVars, active, beat, placer>>

\* manager.Drain has closed the sessions; close waits for the goroutine and
\* removes the node's keys.
RemoveNode(n) ==
    /\ node[n] \in {"marked", "unmarked"} /\ beat[n].pc = "idle"
    /\ node' = [node EXCEPT ![n] = "down"]
    /\ active' = [active EXCEPT ![n] = {}]
    /\ \/ /\ advert' = [advert EXCEPT ![n] = "none"]
          /\ drainKeys' = drainKeys \ {n}
          /\ UNCHANGED faults
       \/ Fault /\ UNCHANGED <<advert, drainKeys>>
    /\ UNCHANGED <<leaseVars, beat, placer>>

NodeCrash(n) ==
    /\ node[n] # "down" /\ Fault
    /\ node' = [node EXCEPT ![n] = "down"]
    /\ beat' = [beat EXCEPT ![n].pc = "idle"]
    /\ active' = [active EXCEPT ![n] = {}]
    /\ UNCHANGED <<registry, placer>>

\* heartbeatTTL has passed without a heartbeat.
KeysExpire(n) ==
    /\ node[n] = "down" /\ (advert[n] # "none" \/ n \in drainKeys)
    /\ advert' = [advert EXCEPT ![n] = "none"]
    /\ drainKeys' = drainKeys \ {n}
    /\ UNCHANGED <<leaseVars, active, node, beat, placer, faults>>

\* leaseTTL has passed by the clock of a client that prunes the node's ZSET.
EntryLapses(n, s) ==
    /\ s \in leases[n]
    /\ leases' = [leases EXCEPT ![n] = @ \ {s}]
    /\ parted' = [parted EXCEPT ![n] = IF owner[s] = n THEN @ \cup {s} ELSE @ \ {s}]
    /\ UNCHANGED <<advert, drainKeys, owner, active, node, beat, placer, faults>>

\* leaseTTL has passed by the clock of Redis, which drops the owner key.
OwnerLapses(s) ==
    LET n == owner[s]
    IN  /\ n # NoNode
        /\ owner' = [owner EXCEPT ![s] = NoNode]
        /\ parted' = [parted EXCEPT ![n] = IF s \in leases[n] THEN @ \cup {s} ELSE @ \ {s}]
        /\ UNCHANGED <<advert, drainKeys, leases, active, node, beat, placer, faults>>

-----------------------------------------------------------------------------
Goes(p, pc) == placer' = [placer EXCEPT ![p].pc = pc]

\* The nodes worth trying, given the draining keys that were read.
Listed(keys) == {n \in Nodes : /\ advert[n] = "ready" /\ n \notin keys
                               /\ Cardinality(leases[n]) < MaxSessions}

\* Place: Nodes lists the nodes.  The script checks each one again, so only the set
\* matters here and the order by free capacity is left open.  A Redis error ends
\* Place, but isDraining takes one for the absence of the key.
List(p) ==
    /\ placer[p].pc = "list"
    /\ \E free \in SUBSET Nodes :
          /\ \/ free = Listed(drainKeys) /\ UNCHANGED faults
             \/ free \in {{}, Listed({})} /\ Fault
          /\ placer' = [placer EXCEPT ![p].seen = free,
                                      ![p].pc = IF free = {} THEN "over" ELSE "try"]
    /\ UNCHANGED <<registry, active, node, beat>>

\* Mutant: the script relies on the capacity the placer has seen.
GrantsUncounted(n, s) ==
    /\ advert[n] # "none" /\ n \notin drainKeys
    /\ owner[s] \in {NoNode, n}

\* AcquireMediaLease's script: a session that already owns the node keeps it, without
\* a count; any other has its records written together.
Grants(n, s) ==
    /\ advert[n] # "none" /\ n \notin drainKeys
    /\ \/ owner[s] = n
       \/ owner[s] = NoNode /\ Cardinality(leases[n]) < MaxSessions

Acquired(n, s) ==
    /\ leases' = [leases EXCEPT ![n] = @ \cup {s}]
    /\ owner' = [owner EXCEPT ![s] = n]
    /\ parted' = IF owner[s] = n THEN parted ELSE [parted EXCEPT ![n] = @ \ {s}]

\* One candidate; a Redis error ends Place, whether or not the script has run.
Acquire(p) ==
    LET s == SessionOf[p]
    IN  /\ placer[p].pc = "try"
        /\ \E n \in placer[p].seen :
              \/ /\ Grants(n, s) /\ Acquired(n, s)
                 /\ placer' = [placer EXCEPT ![p].pc = "create", ![p].at = n]
                 /\ UNCHANGED faults
              \/ /\ ~Grants(n, s)
                 /\ placer' = [placer EXCEPT ![p].seen = @ \ {n},
                       ![p].pc = IF placer[p].seen = {n} THEN "over" ELSE "try"]
                 /\ UNCHANGED <<leaseVars, faults>>
              \/ /\ Fault /\ Goes(p, "over")
                 /\ (Grants(n, s) /\ Acquired(n, s)) \/ UNCHANGED leaseVars
        /\ UNCHANGED <<advert, drainKeys, active, node, beat>>

\* The node's manager takes the session; repeating the same session is fine.
Accepts(n, s) ==
    /\ node[n] = "up"
    /\ s \in active[n] \/ Cardinality(active[n]) < MaxSessions

\* CreateSessionAt: accepted, refused, or accepted with the answer lost.
CreateSessionAt(p) ==
    LET n == placer[p].at
        s == SessionOf[p]
        Started == active' = [active EXCEPT ![n] = @ \cup {s}]
    IN  /\ placer[p].pc = "create"
        /\ \/ Accepts(n, s) /\ Started /\ Goes(p, "placed") /\ UNCHANGED faults
           \/ ~Accepts(n, s) /\ Goes(p, "release") /\ UNCHANGED <<active, faults>>
           \/ Accepts(n, s) /\ Started /\ Goes(p, "release") /\ Fault
        /\ UNCHANGED <<registry, node, beat>>

\* A session ends on its node: the audio or provider stream ends, or nobody attached.
SessionEnds(n) ==
    /\ \E s \in active[n] : active' = [active EXCEPT ![n] = @ \ {s}]
    /\ UNCHANGED <<registry, node, beat, placer, faults>>

\* stopMediaSession: stop the session on its node, then release its lease.
StopSessionAt(p) ==
    LET n == placer[p].at
    IN  /\ placer[p].pc = "placed"
        /\ \/ active' = [active EXCEPT ![n] = @ \ {SessionOf[p]}] /\ UNCHANGED faults
           \/ Fault /\ UNCHANGED active
        /\ Goes(p, "release")
        /\ UNCHANGED <<registry, node, beat>>

\* Release: GET the owner, then ReleaseMediaLease for that node.  Its callers ignore
\* an error; the lease then lapses.
ReleaseGet(p) ==
    LET n == owner[SessionOf[p]]
    IN  /\ placer[p].pc = "release"
        /\ \/ /\ placer' = [placer EXCEPT ![p].at = n,
                               ![p].pc = IF n = NoNode THEN "over" ELSE "releaseFrom"]
              /\ UNCHANGED faults
           \/ Goes(p, "over") /\ Fault
        /\ UNCHANGED <<registry, active, node, beat>>

\* Mutant: the owner key is deleted without a look at the node it names.
ReleaseAnyOwner(p) ==
    LET n == placer[p].at
        s == SessionOf[p]
    IN  /\ placer[p].pc = "releaseFrom"
        /\ leases' = [leases EXCEPT ![n] = @ \ {s}]
        /\ owner' = [owner EXCEPT ![s] = NoNode]
        /\ parted' = [parted EXCEPT ![n] = @ \ {s}]
        /\ Goes(p, "over")
        /\ UNCHANGED <<advert, drainKeys, active, node, beat, faults>>

ReleaseLease(p) ==
    LET n == placer[p].at
        s == SessionOf[p]
    IN  /\ placer[p].pc = "releaseFrom"
        /\ \/ /\ leases' = [leases EXCEPT ![n] = @ \ {s}]
              /\ owner' = [owner EXCEPT ![s] = IF @ = n THEN NoNode ELSE @]
              /\ parted' = [parted EXCEPT ![n] = @ \ {s}]
              /\ UNCHANGED faults
           \/ Fault /\ UNCHANGED leaseVars
        /\ Goes(p, "over")
        /\ UNCHANGED <<advert, drainKeys, active, node, beat>>

Heartbeat(n) ==
    BeatLoad(n) \/ BeatSet(n) \/ BeatKey(n) \/ BeatIDs(n) \/ \E s \in Sessions : Refresh(n, s)
Drain(n) == BeginDrain(n) \/ DrainSet(n) \/ DrainKey(n) \/ RemoveNode(n)
NodeEnds(n) == NodeCrash(n) \/ KeysExpire(n) \/ SessionEnds(n)

PlacerStep(p) ==
    \/ List(p) \/ Acquire(p) \/ CreateSessionAt(p)
    \/ StopSessionAt(p) \/ ReleaseGet(p) \/ ReleaseLease(p)

MediaNext ==
    \/ \E n \in Nodes : Heartbeat(n) \/ Drain(n) \/ NodeEnds(n)
    \/ \E p \in Placers : PlacerStep(p)
    \/ \E s \in Sessions : OwnerLapses(s) \/ \E n \in Nodes : EntryLapses(n, s)

\* The heartbeat goroutine runs until the node is down.
MediaFairness ==
    \A n \in Nodes : WF_mediaVars(Heartbeat(n))

MediaSpec == MediaInit /\ [][MediaNext]_mediaVars
MediaFairSpec == MediaSpec /\ MediaFairness
-----------------------------------------------------------------------------
MediaTypeOK ==
    /\ advert \in [Nodes -> Adverts]
    /\ drainKeys \subseteq Nodes
    /\ leases \in [Nodes -> SUBSET Sessions]
    /\ owner \in [Sessions -> Nodes \cup {NoNode}]
    /\ parted \in [Nodes -> SUBSET Sessions]
    /\ active \in [Nodes -> SUBSET Sessions]
    /\ node \in [Nodes -> NodePCs]
    /\ beat \in [Nodes -> Beats]
    /\ placer \in [Placers -> PlacerStates]
    /\ faults \in 0..MaxFaults

\* A session counts on exactly the node its owner key names, whatever placers of the
\* same session acquire, move and release; only a record that lapses before the other
\* can part the two.
LeasesMatchOwners ==
    \A n \in Nodes, s \in Sessions : s \notin parted[n] => (s \in leases[n] <=> owner[s] = n)

\* A node never holds more leases than it advertised capacity for, although placers
\* decide on counts they read earlier; only a lease that one of its records outlived,
\* and that was then taken up again without a count, comes on top.
WithinCapacity == \A n \in Nodes : Cardinality(leases[n] \ parted[n]) <= MaxSessions

\* A heartbeat that overtakes the drain mark is repaired: from some point on a
\* marked node is shown as draining until it is gone.
DrainMarkReturns ==
    \A n \in Nodes :
       node[n] = "marked" ~> [](node[n] = "down" \/ (n \in drainKeys /\ advert[n] = "draining"))
=============================================================================
