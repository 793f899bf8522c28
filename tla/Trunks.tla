------------------------------- MODULE Trunks -------------------------------
(***************************************************************************)
(* telephony/trunks: a trunk's row, its digest credentials and source      *)
(* addresses, its endpoints, and the health checks of every worker.  Two   *)
(* tables say how a trunk authenticates: the method in trunks and the rows  *)
(* OpenSIPS reads in trunk_digest_credentials.  A health check claims the  *)
(* endpoints that are due, probes them with no transaction open and writes  *)
(* each verdict to whatever the endpoint's row has become meanwhile.        *)
(***************************************************************************)
EXTENDS ApiRequests, Naturals, FiniteSets

CONSTANTS Endpoints,         \* ids of trunk_endpoints rows
          Hosts,             \* addresses INVITEs come from
          SourceIPs,         \* the CIDRs of trunk_source_ips rows, as sets of hosts
          Checkers,          \* HealthCheckJobs, one in every worker
          Threshold,         \* HealthCheckConfig.FailureThreshold
          Directions,        \* the directions requests ask for
          Earlier,           \* a digest row that no request in flight inserted
          MaxFaults          \* bound: crashed passes and failed marks

ASSUME TrunksAssumption == /\ Threshold \in Nat \ {0}
                           /\ MaxFaults \in Nat
                           /\ Directions \subseteq {"inbound", "outbound", "bidirectional"}
                           /\ NoId \notin Requests \cup Endpoints
                           /\ NoId # Earlier /\ Earlier \notin Requests
                           /\ SourceIPs \subseteq SUBSET Hosts \ {{}}
                           /\ \A c, d \in SourceIPs : c \subseteq d \/ d \subseteq c \/ c \cap d = {}

VARIABLES trunk,             \* the trunks row
          digest,            \* trunk_digest_credentials by direction: who inserted the row
          sources,           \* trunk_source_ips
          rivals,            \* those of all other trunks that OpenSIPS admits by address
          endpoint,          \* trunk_endpoints
          answers,           \* endpoints whose present address answers SIP OPTIONS
          checker,           \* each job's pass: claimed endpoints, the probe's verdict
          crashes

trunkVars == <<trunk, digest, sources, rivals, endpoint, answers, checker, crashes>>

Trunk == [status : {"none", "active", "disabled"}, direction : Directions,
          inbound : BOOLEAN, outAuth : {"none", "digest"}, inAuth : {"ip", "digest"}]
TrunkDigestCredential == Requests \cup {Earlier, NoId}
TrunkSourceIp == SourceIPs
TrunkEndpoint == [state : {"none", "enabled", "disabled"}, direction : Directions,
                  health : {"unknown", "healthy", "unhealthy"}, failures : 0 .. Threshold,
                  due : BOOLEAN, cooling : BOOLEAN]

Outbound(direction) == direction \in {"outbound", "bidirectional"}
Inbound(direction) == direction \in {"inbound", "bidirectional"}

NoEndpoint == [state |-> "none", direction |-> "bidirectional", health |-> "unknown",
               failures |-> 0, due |-> TRUE, cooling |-> FALSE]
IdleChecker == [claimed |-> {}, probed |-> NoId, ok |-> FALSE]

-----------------------------------------------------------------------------
\* validation.go: the requests the service lets through.

CreateRequest == [direction : Directions, status : {"active", "disabled"}, inbound : BOOLEAN,
                  outCredential : BOOLEAN, inAuth : {"ip", "digest"}, inCredential : BOOLEAN]
normalizeCreate(req) == (req.inAuth = "digest") = req.inCredential
normalizeAuth(side, method) == method \in (IF side = "inbound" THEN {"ip", "digest"}
                                           ELSE {"none", "digest"})

-----------------------------------------------------------------------------
\* The statements of trunks.sql, on the row they address.

CreateTrunk(t, req) ==
    Returning(t.status = "none" /\ OrganizationActive,
              [status |-> req.status, direction |-> req.direction, inbound |-> req.inbound,
               outAuth |-> IF req.outCredential THEN "digest" ELSE "none",
               inAuth |-> req.inAuth])

UpdateTrunk(t, status, direction, inbound) ==   \* a column not given keeps its value
    Returning(t.status # "none",
              [t EXCEPT !.status = status, !.direction = direction, !.inbound = inbound])

DisableTrunk(t) == Returning(t.status = "active", [t EXCEPT !.status = "disabled"])
GetTrunkByID == Returning(trunk.status # "none", trunk)

InsertTrunkDigestCredential(rows, q, sides) ==
    [side \in DOMAIN rows |-> IF side \in sides THEN q ELSE rows[side]]

\* The CTEs: the method in trunks, and the digest row with it.  Upserting
\* inserts a row or overwrites the one there; deleting removes only the row
\* the statement's snapshot saw, since what a transaction it waited for has
\* inserted is no row of that snapshot.
Upserted(side, q) == [digest EXCEPT ![side] = IF @ = NoId THEN q ELSE @]
Deleted(side, saw) == [digest EXCEPT ![side] = IF @ \in saw THEN NoId ELSE @]

SetTrunkOutboundDigestAuth(q) ==
    /\ trunk' = [trunk EXCEPT !.outAuth = "digest"]
    /\ digest' = Upserted("outbound", q)

\* Mutant: the DELETE has lost its d.direction = 'outbound'.
ClearTrunkBothAuths(q) ==
    /\ trunk' = [trunk EXCEPT !.outAuth = "none"]
    /\ digest' = [side \in DOMAIN digest |-> Deleted(side, request[q].saw)[side]]

ClearTrunkOutboundAuth(q) ==
    /\ trunk' = [trunk EXCEPT !.outAuth = "none"]
    /\ digest' = Deleted("outbound", request[q].saw)

SetTrunkInboundDigestAuth(q) ==
    /\ trunk' = [trunk EXCEPT !.inAuth = "digest"]
    /\ digest' = Upserted("inbound", q)

SetTrunkInboundIPAuth(q) ==
    /\ trunk' = [trunk EXCEPT !.inAuth = "ip"]
    /\ digest' = Deleted("inbound", request[q].saw)

CreateTrunkSourceIP(s) == Returning(trunk.status # "none" /\ s \notin sources, sources \cup {s})
DeleteTrunkSourceIP(s) == sources \ {s}
ListTrunkSourceIPs == sources

CreateTrunkEndpoint(e, direction, state) ==
    Returning(trunk.status # "none" /\ endpoint[e].state = "none",
              [NoEndpoint EXCEPT !.state = state, !.direction = direction])

GetTrunkEndpointByID(e) == Returning(endpoint[e].state # "none", endpoint[e])

UpdateTrunkEndpoint(row, direction, state, moved) ==   \* moved: host, port or transport given
    Returning(row.state # "none",
              [(IF moved THEN NoEndpoint ELSE row) EXCEPT !.state = state, !.direction = direction])

DeleteTrunkEndpoint(row) == Returning(row.state # "none", NoEndpoint)
ListTrunkEndpoints == {e \in Endpoints : endpoint[e].state # "none"}
ListActiveOutboundTrunkEndpoints ==
    {e \in Endpoints : /\ trunk.status = "active" /\ Outbound(trunk.direction)
                       /\ endpoint[e].state = "enabled" /\ Outbound(endpoint[e].direction)}

\* Mutant: an endpoint found unhealthy is not looked at again.
ListTrunkEndpointsNotUnhealthy ==
    {e \in Endpoints : /\ endpoint[e].state = "enabled" /\ trunk.status = "active"
                       /\ endpoint[e].health # "unhealthy" /\ endpoint[e].due}

ListTrunkEndpointsForHealthCheck ==
    {e \in Endpoints : /\ endpoint[e].state = "enabled" /\ trunk.status = "active"
                       /\ ~endpoint[e].cooling /\ endpoint[e].due}

MarkTrunkEndpointHealthy(row) ==
    Returning(row.state # "none", [row EXCEPT !.health = "healthy", !.failures = 0,
                                              !.due = FALSE, !.cooling = FALSE])

MarkTrunkEndpointProbeFailed(row) ==   \* the count is kept only up to the threshold
    LET reached == row.failures + 1 >= Threshold
    IN  Returning(row.state # "none",
                  [row EXCEPT !.failures = IF reached THEN Threshold ELSE @ + 1,
                              !.health = IF reached THEN "unhealthy" ELSE @,
                              !.due = FALSE, !.cooling = reached])

-----------------------------------------------------------------------------
\* service.go.  Begin makes the Get every operation starts with and, for the
\* statements that delete a digest row, takes the statement's snapshot.

TrunkUnchanged == UNCHANGED <<organization, sources, rivals, endpoint, answers, checker, crashes>>
mutateTrunk(q, rows) == /\ IF NoRows(rows) THEN UNCHANGED trunk ELSE trunk' \in rows
                        /\ Answer(q)
mutateEndpoint(q, e, rows) ==
    /\ IF NoRows(rows) THEN UNCHANGED endpoint
       ELSE \E row \in rows : endpoint' = [endpoint EXCEPT ![e] = row]
    /\ Answer(q)

Create(q) ==
    /\ Single(q, "create")
    /\ \E req \in CreateRequest :
          /\ normalizeCreate(req)
          /\ trunk' \in CreateTrunk(trunk, req)
          /\ digest' = InsertTrunkDigestCredential(digest, q,
                          (IF req.outCredential THEN {"outbound"} ELSE {})
                          \cup (IF req.inCredential THEN {"inbound"} ELSE {}))
    /\ TrunkUnchanged

Get(q, op) ==
    /\ ~NoRows(GetTrunkByID)
    /\ Begin(q, op, NoId, CASE op = "delete" -> {trunk.status}
                            [] op = "clear_out" -> {digest["outbound"]} \ {NoId}
                            [] op = "clear_in" -> {digest["inbound"]} \ {NoId}
                            [] OTHER -> {})
    /\ UNCHANGED <<organization, trunkVars>>

Update(q) ==
    /\ Begun(q, "update")
    /\ \E status \in {"active", "disabled"}, direction \in Directions, inbound \in BOOLEAN :
          mutateTrunk(q, UpdateTrunk(trunk, status, direction, inbound))
    /\ UNCHANGED digest /\ TrunkUnchanged

Delete(q) ==                   \* already disabled when it was read: done
    /\ Begun(q, "delete")
    /\ mutateTrunk(q, IF "disabled" \in request[q].saw THEN {} ELSE DisableTrunk(trunk))
    /\ UNCHANGED digest /\ TrunkUnchanged

SetOutboundAuth(q) ==
    /\ Begun(q, "set_out") /\ normalizeAuth("outbound", "digest")
    /\ SetTrunkOutboundDigestAuth(q)
    /\ Answer(q) /\ TrunkUnchanged

ClearOutboundAuth(q) ==        \* also SetOutboundAuth with method none
    /\ Begun(q, "clear_out")
    /\ ClearTrunkOutboundAuth(q)
    /\ Answer(q) /\ TrunkUnchanged

SetInboundAuth(q) ==
    /\ Begun(q, "set_in") /\ normalizeAuth("inbound", "digest")
    /\ SetTrunkInboundDigestAuth(q)
    /\ Answer(q) /\ TrunkUnchanged

ClearInboundAuth(q) ==         \* also SetInboundAuth with method ip
    /\ Begun(q, "clear_in")
    /\ SetTrunkInboundIPAuth(q)
    /\ Answer(q) /\ TrunkUnchanged

CreateSourceIP(q) ==
    /\ Begun(q, "add_ip")
    /\ \E s \in SourceIPs : IF NoRows(CreateTrunkSourceIP(s)) THEN UNCHANGED sources
                            ELSE sources' \in CreateTrunkSourceIP(s)
    /\ Answer(q) /\ UNCHANGED <<organization, trunk, digest, rivals, endpoint, answers, checker, crashes>>

DeleteSourceIP(q) ==
    /\ Begun(q, "delete_ip")
    /\ \E s \in SourceIPs : sources' = DeleteTrunkSourceIP(s)
    /\ Answer(q) /\ UNCHANGED <<organization, trunk, digest, rivals, endpoint, answers, checker, crashes>>

\* The same requests, and those that enable or disable, for a trunk of anyone's.
OtherTrunk(q) ==
    /\ Single(q, "other_trunk")
    /\ \E s \in SourceIPs : rivals' \in {rivals \cup {s}, rivals \ {s}}
    /\ UNCHANGED <<organization, trunk, digest, sources, endpoint, answers, checker, crashes>>

EndpointUnchanged == UNCHANGED <<organization, trunk, digest, sources, rivals, checker, crashes>>

CreateEndpoint(q) ==
    /\ Begun(q, "create_endpoint")
    /\ \E e \in Endpoints, direction \in Directions, state \in {"enabled", "disabled"} :
          mutateEndpoint(q, e, CreateTrunkEndpoint(e, direction, state))
    /\ UNCHANGED answers /\ EndpointUnchanged

GetEndpoint(q, op, e) ==
    /\ ~NoRows(GetTrunkByID) /\ ~NoRows(GetTrunkEndpointByID(e))
    /\ Begin(q, op, e, {})
    /\ UNCHANGED <<organization, trunkVars>>

UpdateEndpoint(q) ==           \* another address may answer, or not
    /\ Begun(q, "update_endpoint")
    /\ \E direction \in Directions, state \in {"enabled", "disabled"}, moved \in BOOLEAN :
          LET e == request[q].on
              rows == UpdateTrunkEndpoint(endpoint[e], direction, state, moved)
          IN  /\ mutateEndpoint(q, e, rows)
              /\ IF moved /\ ~NoRows(rows) THEN answers' \in {answers \ {e}, answers \cup {e}}
                 ELSE UNCHANGED answers
    /\ EndpointUnchanged

DeleteEndpoint(q) ==
    /\ Begun(q, "delete_endpoint")
    /\ mutateEndpoint(q, request[q].on, DeleteTrunkEndpoint(endpoint[request[q].on]))
    /\ UNCHANGED answers /\ EndpointUnchanged

\* Validate: the errors it would report for the present rows.
Validate ==
    /\ trunk.status # "none"
    /\ trunk.inbound => \/ trunk.inAuth = "digest"
                        \/ trunk.inAuth = "ip" /\ ListTrunkSourceIPs # {}
    /\ Outbound(trunk.direction) =>
          \E e \in ListTrunkEndpoints : /\ endpoint[e].state = "enabled"
                                        /\ Outbound(endpoint[e].direction)
                                        /\ endpoint[e].health # "unhealthy"

-----------------------------------------------------------------------------
\* health.go

CheckerUnchanged == UNCHANGED <<organization, request, traffic, trunk, digest, sources, rivals, answers,
                                crashes>>
Fails == crashes < MaxFaults /\ crashes' = crashes + 1

Check(c) ==
    /\ checker[c] = IdleChecker /\ ListTrunkEndpointsForHealthCheck # {}
    /\ checker' = [checker EXCEPT ![c].claimed = ListTrunkEndpointsForHealthCheck]
    /\ endpoint' = [e \in Endpoints |-> IF e \in ListTrunkEndpointsForHealthCheck
                                        THEN [endpoint[e] EXCEPT !.due = FALSE] ELSE endpoint[e]]
    /\ CheckerUnchanged

Probe(c) ==
    /\ checker[c].probed = NoId
    /\ \E e \in checker[c].claimed :
          checker' = [checker EXCEPT ![c] = [claimed |-> @.claimed \ {e}, probed |-> e,
                                             ok |-> e \in answers]]
    /\ CheckerUnchanged /\ UNCHANGED endpoint

Mark(c) ==                     \* no row (or a failed statement) ends the pass
    LET e == checker[c].probed
        rows == IF checker[c].ok THEN MarkTrunkEndpointHealthy(endpoint[e])
                ELSE MarkTrunkEndpointProbeFailed(endpoint[e])
    IN  /\ e # NoId
        /\ IF NoRows(rows)
           THEN checker' = [checker EXCEPT ![c] = IdleChecker] /\ UNCHANGED endpoint
           ELSE /\ \E row \in rows : endpoint' = [endpoint EXCEPT ![e] = row]
                /\ checker' = [checker EXCEPT ![c].probed = NoId, ![c].ok = FALSE]
        /\ CheckerUnchanged

Crash(c) ==                    \* the worker stops, or a statement of the pass fails
    /\ checker[c] # IdleChecker /\ Fails
    /\ checker' = [checker EXCEPT ![c] = IdleChecker]
    /\ UNCHANGED <<organization, request, traffic, trunk, digest, sources, rivals, endpoint, answers>>

\* Time: the interval since the last check passes, then a cooldown ends.
Tick(e) ==
    /\ \/ ~endpoint[e].due /\ endpoint' = [endpoint EXCEPT ![e].due = TRUE]
       \/ endpoint[e].cooling /\ endpoint' = [endpoint EXCEPT ![e].cooling = FALSE]
    /\ CheckerUnchanged /\ UNCHANGED checker

\* The carrier's side of an endpoint's address goes down or comes back.
Flap(e) ==
    /\ Fails
    /\ answers' = IF e \in answers THEN answers \ {e} ELSE answers \cup {e}
    /\ UNCHANGED <<organization, request, traffic, trunk, digest, sources, rivals, endpoint, checker>>

-----------------------------------------------------------------------------
\* What OpenSIPS reads (migrations/014 and opensips.cfg).

opensips_inbound_trunk_credentials ==
    Returning(/\ digest["inbound"] # NoId /\ trunk.status = "active" /\ trunk.inbound
              /\ trunk.inAuth = "digest" /\ OrganizationActive, digest["inbound"])

\* The query that admits a source address: of the trunks with a CIDR around it the
\* one with the most specific, and none when that is not one trunk.
SourceIPIngress ==
    {h \in Hosts : /\ trunk.status = "active" /\ trunk.inbound /\ trunk.inAuth = "ip"
                   /\ \E c \in sources :
                         h \in c /\ \A d \in rivals : h \in d => c \subseteq d /\ c # d}

EndpointAuthorized(e) ==       \* the query that lets an INVITE out to an endpoint
    /\ trunk.status = "active" /\ Outbound(trunk.direction)
    /\ endpoint[e].state = "enabled" /\ Outbound(endpoint[e].direction)

\* routing: the trunk, then its endpoints; the second statement repeats every
\* condition checked on the first one's row, so the routes are the second's.
ResolveBYOCOutbound ==
    {e \in ListActiveOutboundTrunkEndpoints : endpoint[e].health # "unhealthy"}

-----------------------------------------------------------------------------
\* Properties.

\* Other trunks have a CIDR at least as specific around every address of this one's.
Contested == \A c \in sources : \A h \in c : \E d \in rivals : h \in d /\ d \subseteq c

\* ValidIsServed: while Validate finds no error in an active inbound trunk,
\* OpenSIPS can admit its calls: by a digest credential in its view, or from a
\* source address unless other trunks contest every one of them.  Validate reads
\* the method in trunks, OpenSIPS the digest rows, and concurrent Set and Clear
\* requests write both under snapshots of their own (service.go:399-513,
\* migrations/014, opensips.cfg:271-282).
ValidIsServed ==
    Validate /\ trunk.status = "active" /\ trunk.inbound /\ OrganizationActive =>
       \/ opensips_inbound_trunk_credentials # {}
       \/ trunk.inAuth = "ip" /\ (SourceIPIngress # {} \/ Contested)

\* UpIsRouted: an enabled outbound endpoint of an active trunk whose address
\* answers from some time on is not kept out of the routes: whatever stale
\* verdicts, crashed passes, deleted neighbours and cooldowns came before
\* (health.go:93-121), a later check finds it healthy and it stays so.
UpIsRouted ==
    \A e \in Endpoints :
       <>[](e \in answers /\ EndpointAuthorized(e)) => <>[](e \in ResolveBYOCOutbound)
=============================================================================
