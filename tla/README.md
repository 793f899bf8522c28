# Formal model of the voice platform

TLA+ models of the Go server under `src/server/internal`, checked with TLC on
small instances and, where noted, proved with TLAPS for every instance. Paths
below are relative to `src/server/internal` unless they start with `docs/`.

Contents: 1 inventory, 2 plan, 3 modules and the code they model, 4 runs and
their bounds, 5 fairness, 6 proofs, 7 known divergences, 8 abstractions,
9 not modelled.

## 1. Inventory

Three processes are built from this code: the API server (`runtime/server`), the
worker (`runtime/worker`: ESL event handlers, jobs, the agent runtime) and the
media node (`runtime/media`). They share PostgreSQL, Redis, NATS JetStream and
FreeSWITCH, and several instances of each run at once.

| Component | State | Operations | Hard behaviour | What makes it correct |
|---|---|---|---|---|
| `telephony/calls` | `calls` rows and outbox rows | `Create`, `AdmitInbound`, `ObserveLifecycle`, hold/resume/hangup, `Reconcile` | one goroutine per ESL event; a snapshot read before a guarded UPDATE; route failover; a request context cancelled mid-way | rows only move forward, one outbox event per transition, at most one INVITE, leases and bindings follow the row |
| `runtime/calling`, `integrations/redis` | call leases and channel bindings (Redis), channels (FreeSWITCH) | `Originate`, `Acquire`/`Bind`/`Refresh`/`Release`, event translation | ambiguous ESL outcomes, refresh of a released lease | concurrency limit, lease held while the channel is up |
| `integrations/freeswitch` | one ESL connection, its reader, its supervisor, the subscription list | `Command`, `Subscribe`, `Connect`, `Close`, reconnect | replies carry no id; a connection is replaced under its users; three mutexes and four kinds of goroutine | a reply is its command's own, a ready client gets its events, a lost connection is replaced, `Close` returns |
| `runtime/medianodes`, `runtime/media` | node keys, drain marks, media leases, owner keys | `Heartbeat`, `Place`, `Release`, drain | a late heartbeat after the drain mark, placement on counts read earlier, a lease of two records with two clocks, lost answers | capacity, one owner per session, a drain that lasts |
| `media/session` (manager) | live sessions, control sockets | `Start`, `Attach`, `AttachControl`, `Command`, `Stop`, `Drain`, attach timer | all of them may end a session at once; an id is used again; `Start` holds the manager's mutex | resources freed once and for the right instance, nobody waits for ever |
| `media/session` (pump), `media/engine/composable` | output queue, playback flags, model history, generations | turns, barge-in, responses, tool calls, commands | a check before a channel operation that may block; audio in flight when the user speaks | stale audio is fenced, the queue's account is exact, history in order, every goroutine ends |
| `runtime/agent`, `ai/orchestration`, `ai/conversations` | voice agent sessions, control sockets | `HandleLifecycle`, attach, compensate, finish, observe, tool calls | an answered event handled twice, terminal overtaking the attachment, crash anywhere | one active session per call, none after it, media ends with the channel |
| `ai/agents`, `ai/providers`, `ai/tools` | drafts, bindings, credentials, tools, active revision | CRUD, readiness, activation | activation combines rows from two moments | an active revision is complete |
| `telephony/trunks`, `numbers`, `routing`, OpenSIPS | trunks, digest rows, addresses, endpoints with health, numbers | CRUD, validation, health check, routing of INVITEs | two tables say how a trunk authenticates; OpenSIPS and the worker decide one call at three moments; verdicts written to rows that changed meanwhile | what validates is served, an admitted call was in order at one moment, an endpoint that answers is routed again |
| `telephony/recordings`, `platform/storage`, `platform/retention` | recording rows, staged files, objects, destinations | lifecycle events, claims, upload, reconciliation, deletion, clean-up | upload lease lapses, destination changes, object and row deleted in two steps | audio is never lost, never in two buckets, every recording settles |
| `platform/outbox` | outbox rows with locks | claim, publish, mark, release stale locks | lock expiry while publishing, crash between publish and mark | nothing lost, nothing marked that was not stored |
| `platform/webhooks` | delivery rows, endpoint health | ingest, claim, send, record, retry, update, delete | lost claims, endpoint disabled meanwhile, crash after send | every delivery settles, a settled one stays settled |
| `platform/idempotency` and its middleware | key rows with a lease | claim, execute, complete, expire | lease lapse during the handler, disconnect | one execution per lease, a response belongs to its request |
| `identity`, `security`, `tenancy`, `platform/networking`, `platform/entitlements` | users, login transactions, sessions, members, tokens, policies | login, revocation, members, credentials, policies, the middleware chain | every check is a statement of its own and may be stale | a session's login stands, only admins act, what is revoked stays out, deny wins |
| adapters (`integrations/*`), clients, backoffice | none of their own | I/O | | |

Interactions: `calls` and `recordings` write outbox rows in the transaction of each
transition; the outbox publishes them to JetStream; the webhook consumer turns
them into deliveries; the agent runtime reacts to the answered and terminal
events of a call, places a media session on a node and observes it over a
control socket. FreeSWITCH's events and every command go through the one ESL
client of a worker. The idempotency middleware wraps `POST /calls`.

## 2. Plan

Done:

1. The call plane: `CallStore`, the abstract specification of the call repository,
   then the protocols that implement it: `LifecycleObserver` and `CallAdmission`
   composed into `OutboundCall` and into `InboundCall`; under them `EslClient`.
2. The delivery plane: `Outbox` and `WebhookDelivery`, composed with JetStream and
   the worker process into `EventPipeline`; `Idempotency`.
3. The media plane: `MediaNodes` (placement), `MediaPlane` (what a media worker
   promises), `MediaSession` (the manager, which implements it), `TurnTaking`
   (engine and pump), `AgentRuntime` over `VoiceSessions` (the worker's side).
4. Recordings: `StorageIntegrations`, `Recordings`, `Retention`.
5. Configuration and access, over the shared `SqlRows` and `ApiRequests`: `Trunks`,
   `AgentConfig`, composed in `Numbers`; `Accounts`, `Access`, composed in `Tenancy`.

6. Theorems about every composition: each invariant and action property of the runs
   of a run that is expected to pass, and four refinements.

Left:

- the integrated engine behind one realtime provider, once its stream keeps turn
  state of its own; single sign-on.

## 3. Modules

Every database statement, Lua script, Redis command or ESL command is one step:
that is the grain at which the processes interleave. In `MediaSession`, `TurnTaking`
and `EslClient`, which run in one process, each critical section, channel operation
and wait is one. `PROJECT.json` maps each definition to its lines.

**CallStore** (`telephony/calls/repository.go`, `database/queries/calls.sql`).
`row[c]` is the `calls` row, `emitted[c]` counts the outbox rows written for it.
`MarkableFrom` and `CanMark` are the `WHERE state IN (...)` clauses, `Marked` the
`SET` clauses; `Mark` is an UPDATE that commits together with its event
(`Repository.mutate`) and changes nothing when the guard fails. `StoreSpec` lets
any client issue any statement: it is the repository's promise.

**CallAdmission** (`integrations/redis/cache.go`, `runtime/calling/channel.go`,
`telephony/calls/jobs.go`). `leases`, `binding` and the reconciliation, which lists
the non-terminal calls and then refreshes them one by one.

**LifecycleObserver** (`telephony/calls/lifecycle.go`). `task[h]` is the goroutine of
one ESL event: bind, read the snapshot, set the SIP id, refresh, apply, delete the
binding, release the lease. Each may fail and end the handler.

**OutboundCall** (`service.go` `Create`, `failover.go`, `runtime/calling/controller.go`).
`creator[c]` walks the route plan; `chan[c][i]` is FreeSWITCH's channel of attempt
`i`. A failing originate may have reached FreeSWITCH. The client may abandon the
request, after which the compensation's calls fail too, as in the code.

**InboundCall** (`service.go` `AdmitInbound`). `admission[c][w]` is worker `w`'s
handler of the channel's CHANNEL_CREATE; several workers receive it. A channel is
tagged by `SetCallID`; until then its events are dropped.

**EslClient** (`integrations/freeswitch/client.go`, `supervisor.go`, `events.go`). The
fields of `Client`, the two mutexes held across waits, every connection with its
replies in transit, and a control state for each goroutine: callers, the
subscriber, `Connect`, the reconnect loop, one read loop per connection, `Close`. A
reply is the command it answers; `got` is the reply a user was handed.

**Outbox** (`platform/outbox`). `outbox` rows with lock and due flag, the publisher
job of each worker, the events the stream holds. The lock names nobody, as in the
code, so a slow worker marks rows another one holds.

**WebhookDelivery** (`platform/webhooks`). Deliveries are (event, endpoint) rows; the
job of each worker claims, sends, and records by a statement guarded with
`locked_by`, which is the same for every worker. `accepted` is a history variable:
the deliveries the endpoint has answered with 2xx.

**EventPipeline** (`runtime/worker/consumers.go`, `integrations/nats`). The two composed:
an event flows from its transaction through JetStream (redelivery, Ack, Nak, Term)
into deliveries, and all jobs of a worker live in one errgroup, so that a failing
delivery job ends the publisher of its process too, and rolls back an `Ingest` whose
transaction is open there (`OpenIngests`: any of them may be of that process).

**Idempotency** (`platform/idempotency`, `platform/middleware/idempotency.go`). A key's
record and the control state of each request: claim (one upsert), read, execute,
complete under the lease, with disconnects, panics, lapses and cleanup. A lease is
named by the request that wrote it.

**MediaNodes** (`runtime/medianodes`, `runtime/media/registry.go`,
`integrations/redis/media.go`, `runtime/agent/placement.go`). The four kinds of Redis keys, the
node process with its heartbeat goroutine (load the flag, write the node key, set or
delete the draining key, refresh the lease of each session the manager lists) and its
drain sequence, and the placers: list, acquire, create on the node, stop, release. A
lease is an entry in the node's ZSET, pruned by the clock of whichever client counts
it, and the session's owner key, which Redis expires: `EntryLapses` and `OwnerLapses` are
two actions, possible at any moment. `parted` is a history variable: the leases one of
whose records has lapsed before the other.

**MediaPlane** is abstract: sessions come below the capacity and not while draining,
one connection attaches, nothing attaches to a closing one, and a session leaves
only through closing. **MediaSession** (`media/session/manager.go`, `runtime/media`)
is the manager: `m.mu`, the map, `managedSession` instances (an id may be started
again), and a `proc` per goroutine that finishes one. Its refinement mapping reads
the abstract session off the instance under an id.

**TurnTaking** (`media/engine/composable/composable.go`, `media/session/manager.go`'s pump,
`queue.go`). The transcriber's goroutine, one per response, the control socket's, the
pump's event, audio and playback loops, the two event channels and the output
queue. `current` stands for `generation` together with `responseActive`.

**VoiceSessions**, **AgentRuntime** (`runtime/agent`, `ai/orchestration`,
`ai/conversations`, `ai/tools/executor.go`). The durable rows, and the workers' handlers: the
chain of steps of an attachment with its compensation, the terminal event, the
observer of each control socket, tool execution claims. The media side is
`MediaPlane` with the timer and socket of `MediaSession`.

**StorageIntegrations**, **Recordings**, **Retention**. The file FreeSWITCH writes, the
row, the object; event handlers (late, repeated or lost events), the upload workers
with their lease, the reconciliation, deletion by request and by the clean-up job,
the destinations that come and go.

**SqlRows**, **ApiRequests**: a statement returns the set of rows it wrote or read; a
request is a sequence of statements. On top of them **Trunks** (with the health
checker's claim, probe and verdict), **AgentConfig** (with the statement that
activates a draft, which reads its own row after waiting and the rest from its
snapshot), **Numbers**; **Accounts**, **Access** (the middleware
chain), **Tenancy** (a statement that changes a member or credential is two steps:
what it sees of the requester, and the change).

In **Trunks** a CIDR is the set of addresses it contains, `sources` those of the trunk
in question and `rivals` those of every other active inbound trunk with method `ip`, of
any tenant. `SourceIPIngress` is OpenSIPS's query: the most specific CIDR around the
address, and no trunk when that is not one trunk's. In **Numbers** an INVITE is three
steps with anything in between: `OpenSipsRoute` picks the ids, `GetInboundContext` and
`ResolveInbound` are the worker's two statements. `whole` is a history variable: the
INVITEs for whose ids OpenSIPS's query would have had a row at some moment since the
worker's first statement. In **Accounts** `CreateAuthChallenge` refuses what the table
refuses, so that `SendOTP` fails and `VerifyOTP` finds no challenge (section 7); users
exist before the behaviour starts.

**MC\*** give the constants their values. **\*Proofs** hold the theorems.

## 4. Runs

A run asks one question of one composition. Where a question needs instances that
differ, one model holds them and a variable that never changes says which one a
behaviour belongs to: `overtaking`, `mode`, `scene`, `traffic`. `TurnTaking`'s `budget`
starts as one of six and counts down.

| Run | Instance | What it shows |
|---|---|---|
| `outbound` | one call; either two routes, one handler and every operation failing, or one route, two handlers and holds | `EventsMatchRow`: the outbox tells exactly the row's history; `LiveChannelIsHeld`: once `Create` has reported success a live channel holds its lease on the trunk that carries it and is bound; `RowMovesForward`; `ImplementsStore`: refinement of `StoreSpec`; `HangupReachesTerminal` |
| `inbound` | two workers racing for one channel; every fault and a crash anywhere; two channels for one slot | `AdmittedIsHeld`, `AdmittedWithinLimit`, `GoneReachesTerminal` |
| `esl` | one caller, the subscription, `Connect`, `Close`, two breaks, four connections | `ReplyIsOwn`: no command gets another one's reply; `ReadyIsSubscribed`: a ready client gets the events it subscribed to; `LinkSettles`: a lost connection is replaced, but for the exception of section 7, and `Close` returns |
| `event_pipeline` | two workers, one event, one endpoint, a fault; and the endpoint's API with a manual retry | `PublishedIsStored`; `SettledStays`: no late result reopens or overwrites a settled delivery, none succeeds that was not accepted; `EveryEventSettles` |
| `media` | one node with one slot, placers of two sessions, a drain; and two nodes, two placers of one session that moves; a fault; records that lapse one by one | `LeasesMatchOwners`: entries and owners part only when one of the two lapses; `WithinCapacity` of leases whose records did not; `DrainMarkReturns` after a late heartbeat |
| `media_session` | one id started twice, a creator, a stopper, two connections, the timer, a drain | `GoneIsReleased`, `NobodyWaits` (Stop returns, Drain ends with an empty map), `ImplementsPlane` |
| `voice_agent` | an answered event on two workers, the terminal one, a repeated tool call, a fault | `NoSessionOutlivesCall`, `ToolRunsOnce`, `MediaEndsWithChannel` |
| `turns` | six conversations, each with a budget of turns, barge-ins, frames, texts, calls, commands, faults, stops | `OneStaleFrame`, `LatencyBudget`, `HistoryInOrder`, `StreamEnds` |
| `recordings` | one recording, two workers, start and stop, an API deletion, a retention pass, an integration, a fault | `AudioIsKept`, `EventsTellTheRow`, `EndedIsSettled` |
| `telephony` | seven mixes of up to three requests over trunk, addresses, endpoints, number, draft; an INVITE; a health checker | `ValidIsServed`, `AdmittedWasWhole`: an admitted call's ids were eligible together at one moment of its revalidation, `ActiveIsComplete`, `UpIsRouted` |
| `api` | eight mixes of three requests over logins, members, tokens, policies; and four requests with idempotency keys | `SessionFollowsLogin`, `AdminsAct`, `RevokedStaysOut`, `PolicyPrecedence`; `AnswerIsOwn`, `OneExecutionPerLease` |
| `second_invite` | the first instance of `outbound` | a divergence, section 7 |

The compositions state their types once (`TypeOK`, `EslTypeOK`,
`TenancyTypeOK`, ...) for the reader. No run lists them, to leave its time to the other
properties: those of the call protocols and of the outbox are theorems, the
others are parts of the inductive invariants of section 6 or hold of the runs'
instances when they are added to the cfg as an INVARIANT.

Bounds and why they are enough. `Tasks` bounds the event goroutines of a call that
are in flight at once: two suffice for every overtaking, because handlers share
nothing but the row, the lease and the binding, and a third only repeats what one of
the two does. Two routes give one failover; a third attempt is the same step again.
`MaxFaults` counts crashes, errors, timeouts and lost answers together. `FaultyOps`
is not a count: a listed operation may fail every time. `MaxHolds` = 1 gives one
hold and one resume. `MaxAttempts` = 2 gives one automatic retry and one
exhaustion. `MaxDeliver` exceeds `MaxFaults`, see section 7. `MaxStarts` = 2 lets a
second session live under an id whose first one is still being finished. `Order` of
`EslClient` has a connection for every loss and one that a closed client refuses.
In `TurnTaking` the event channels hold two entries instead of 32 and the queue two
frames, so that both fill up; the budgets keep a conversation to one or two answers,
and each budget makes one hazard reachable in every interleaving. In the traffic
mixes three concurrent requests are what the races need: two that overlap and one
that changes what both rely on; the initial rows are those finished requests leave.
Two addresses and two nested CIDRs give each outcome of the most-specific rule: none,
one trunk, a tie. One INVITE suffices for `telephony`, as INVITEs share nothing. `media`
has its drains and crashes in the scene of one node and its moves in that of two; the
theorems of `MediaProofs` have both at once.

Deadlock checking is off where the modelled work is finite and the system really
comes to rest: a call that is over, requests that have all been answered, a node or a
client that has shut down. It is on for `event_pipeline`, whose jobs never stop.

## 5. Fairness

- `OutboundCall`, `InboundCall`: weak fairness of every started request or admission
  goroutine, every event handler and the reconciliation. They are goroutines that
  run on; nothing they wait for is held by another actor. FreeSWITCH, callers and
  the control API get none: a call may stay up for ever. Liveness is claimed of the
  instances without lost events.
- `EslClient`: weak fairness of each goroutine's steps. The loop's exit from its
  backoff gets strong fairness: its `select` has the cancelled context ready every
  time round, and Go chooses among ready cases at random. A command that reached
  FreeSWITCH is answered or its connection lost. Commands and `Close` need not come.
- `EventPipeline`: weak fairness of the jobs' steps, of restarts (the supervisor), of
  clock steps and of JetStream's redelivery; strong fairness of the stale-lock sweep,
  since `Run` selects between two tickers: the sweep, which is possible again and
  again between batches, is taken in the end. API calls and endpoints get none.
- `MediaNodes`: weak fairness of the heartbeat goroutine, which runs until `close`.
- `MediaSession`: weak fairness of each goroutine's steps, of the provider's start
  (it answers or `ProviderStartTimeout` ends it), of a pump whose session is finished,
  of the attach timer and of `Drain`. Peers, creators and stoppers get none.
- `AgentRuntime`: weak fairness of handlers once started, observers, the attach timer,
  and the end of a pump whose audio fork is gone.
- `TurnTaking`: weak fairness of every goroutine and of calls whose context is done;
  providers and users get none.
- `Retention`: weak fairness of the upload workers, the reconciliation and the clock.
- `Numbers`: weak fairness of the health check and of the clock that makes it due.

Faults are bounded, so fairness never forces one.

## 6. Proofs

All theorems are about any sets of calls, trunks, workers, handlers, events,
endpoints, nodes, sessions, requests and rows, and any number of faults, crashes and
lost answers. The assumptions on the constants are named in the modules
(`StoreAssumption`, `AdmissionAssumption`, `OutboundAssumption`, `InboundAssumption`,
`EslAssumption`, `OutboxAssumption`, `PipelineAssumption`, `MediaAssumption`,
`MediaSessionAssumption`, `SidsAssumption`, `AgentAssumption`, `RecordingsAssumption`,
`IdempotencyAssumption`, `AccountsAssumption`, `AccessAssumption`, `TurnAssumption`,
`TrunksAssumption`); they say what kind of
thing each constant is, that names of different things differ, and that limits are
positive. Each inductive invariant was an invariant of a TLC run before it was
proved.

**Calls.**

- `CallLifecycleProofs`: `StoreTypeCorrect`, `StoreEventsMatchRow`, `StoreRowMovesForward`.
  `StoreInv` adds to the type and to `EventsMatchRow` that a call without a row has
  neither events nor attributes (`BlankUntilCreated`): without it an INSERT could start
  from a non-empty history. Also the lemmas both protocols need of the handlers and
  of the reconciliation: they keep the shared types, and each of their steps is one
  statement of the store or none.
- `OutboundCallProofs`: `OutboundTypeCorrect`, from `OutboundInv` = `TypeOK` and
  `AttemptInPlan` (the steps that index the route plan run inside it).
  `OutboundImplementsStore` is the refinement; `StepIsStatement` shows that every step
  is one statement of the store or leaves it unchanged. `OutboundEventsMatchRow` and
  `OutboundRowMovesForward` follow from the store's theorems. `LiveChannelsAreHeld` needs
  `HeldInv`: every handler is of a channel that was made, and one that cleans up of a
  channel that is gone (`EventsHaveChannels`); `Create` walks the plan forwards
  (`PlanAhead`) and unwinds no attempt it reported (`ReportedStands`); and the lease
  that was taken is still there when the first channel is originated
  (`ReadyIsLeased`).
- `InboundCallProofs`: the types and the refinement for admissions with crashes in
  any number of workers; here the refinement is proved only, not run. Every step of an
  admission is summarised once (`AdmitEffects`: what it does to its own state, and to
  what the workers share), and the two admission theorems rest on that summary.
- `InboundAdmittedIsHeld`, under `UndoIsHarmless`: there is one worker, or `Bind` and
  `SetCallID` fail only on a channel that is gone, or an admission on its error path
  neither crashes nor fails to hang up. The handlers of one channel share its lease and
  binding, and the error path of one takes back what another relies on; the
  hypothesis says that this ends the call. `HeldInv`: a handler that undoes something
  belongs to a call that is lost (`UndoneIsLost`: hung up, or some handler that will
  reach the hangup is about to end it), unless it is alone; a live, undoomed call has
  at each stage of its admission the lease and the binding that stage has made
  (`HeldOnTheWay`); and cleaning handlers are of a channel that hung up (`TasksFit`).
  TLC refutes the property without the hypothesis: two workers with faulty operations
  `{tag, hangup}`, `{tag, crash}` or `{bind, crash}` (section 7).
- `InboundAdmittedWithinLimit`, under `SeatsAreCounted`: a committed INSERT is not reported
  failed, and there is one worker or a doomed admission reaches its hangup. Only
  `AcquireCallLease` tests the capacity; every later refresh adds the call's lease
  unchecked. Each live channel past that test owns a seat in the trunk's lease set:
  the channel's lease until the creator of the row moves it, the call's lease after
  (`SeatIsHeld`, with `Fresh` and `RowIsKnown`). The seats are at most the limit
  (`SeatsWithinLimit`) because they inject into the lease set that the script counts.
  Without the hypothesis TLC finds one call too many: `{create}` with one worker and two
  calls, `{crash, refresh}` and `{attribute, hangup}` with two of each.

**Events.** `EventProofs`:

- `OutboxTypeCorrect`, `PublishedEventsAreStored`. `OutboxInv` adds `MarkFollowsAck`: a job
  about to mark an event had it acknowledged, whoever holds the row's lock by then.
- `PipelineImplementsOutbox`: every step of the composed pipeline is one of the outbox or
  leaves it alone (the end of a process by another job is, to the outbox, a job that
  ends); from it `PipelinePublishedIsStored`.
- `WebhooksStaySettled`, `PipelineStaysSettled`. The lock names nobody, so it cannot be what
  protects a settled row: `HookInv` has that a locked row is open (`LockedIsOpen`) and
  that a job about to record a success was answered with one (`OkIsAccepted`).
- `RepliesAreOwn`, `ReadyMeansSubscribed`. `EslInv` says where connections and locks are
  (`ConnsPlaced`, `LocksHeld`, `Retired`); that a reply is under way on the connection in
  use only while the command it answers waits on that connection or is about to
  retire it (`RepliesPaired`); and that an answered subscription went out on the
  connection now in use, or that one is not ready and still to be restored
  (`EventsFlow`).

**Media.** `MediaProofs`:

- `LeasesAgreeWithOwners`, `NodesWithinCapacity`, with drains. `LeaseInv` joins the two with
  the types and with `ReleasesKnownNode` (the release script only runs for a node that
  GET returned). The two need each other: a re-acquisition or a refresh by the owner
  adds no entry only because lease sets and owner keys agree, and where they do not, a
  record has lapsed and the lease is in `parted`. A release that meets a session moved
  to another node removes an entry there is none of, and leaves the new owner alone.
- `GoneAreReleased`, `ManagerImplementsPlane` (the safety part, which is all `MediaPlane` has).
  `SessionInv`: what is in the map, in a goroutine's hand or in `Drain`'s snapshot was
  started (`Known`); the `Start` that holds `m.mu` still finds what it checked
  (`StartsAlone`); the flags agree (`FlagsAgree`); one connection attaches, and none to
  a finished session (`OneAttachment`); nobody removes an instance before it is
  complete, and complete means released (`CompleteIsOver`, `GoneIsComplete`).
- `StaleFramesAreFew`, `QueueIsAccounted`, `HistoryStaysInOrder`, from `TurnInv`. While
  playback is suppressed the frame the playback loop has let through is the last
  one, sent or in hand (`LastFrame`): `OneStaleFrame` alone is lost the moment that loop
  holds a frame it checked before. `LatencyBudget` is inductive with the types. For the
  history: responses are reserved in their order (`ReservedInOrder`), the current one is
  the last reserved (`CurrentIsLast`), nothing in the history is of an unreserved one
  (`HistoryIsReserved`), and what `startResponse` is about to launch is reserved
  (`LaunchIsReserved`). Only the current response writes, so what it appends stands
  behind everything said before.

**Agents.** `AgentProofs`: `SessionsEndWithCall`, from one active session at a time
(`OneActive`), terminal handlers that run after the call ended (`TerminalFollowsEnd`)
and what they read being all there is to complete (`FinishSeesAll`). `ToolsRunOnce`, from
claims that exclude each other and are never given back, also when the outcome of
the request was lost.

**Recordings.** `RetentionProofs`: `AudioIsSafe` and `EventsAreTold`, from `RecInv`: the
destination an upload has read is the row's and never changes again (`ClaimFits`); an
upload that is about to complete the row or to remove the staged file has its object
stored (`UploadFits`); only an asked-for deletion of a settled row reaches an object
(`DeletersFit`).

**API.** `ApiProofs`:

- `AnswersAreOwn`, `OneExecutionPerLeaseHolds`. A record is of a request with its key, and
  a stored response of one whose handler ran (`RecordIsOfItsKey`). The second counts:
  the executions of a key are at most one more than its takeovers, and while the
  record can be claimed at most as many (`ExecutionsCounted`).
- `SessionsFollowLogins`: what a login under way has established of its transaction still
  stands (`LoginStands`: authenticated when the session is about to be made) and so does
  what a session was made from (`SessionStands`), although a request that read the
  transaction before expires it by a statement of its own.
  `OnlyAdminsAct`, `RevokedStayOut`: action properties, from
  the same invariant with `OwnerInv`.
- `PoliciesDecideByPrecedence`: `Allows` is the loop of `evaluation.go` as a recursive
  function over the positions of the list (`Evaluation`), and `EvaluationKnows` says what
  is known after each: some rule of the prefix denied, allows, matched. In place of
  induction the proof takes the least position at which that fails. The invariant is
  that the list, as the requests change it, stays one of policies.
- `ValidTrunksAreServed`, `ActivatedIsComplete`, `AdmittedWereWhole`, of `TelSpec`: its `TelInit` is
  any tables that finished requests may leave, the starts of `telephony` among them.
  `TelInv`: a trunk whose method is digest has its digest row (`MethodHasRow`), kept although
  a Clear deletes by an old snapshot, because the same statement resets the method; a
  role has one binding; and what a request has yet to bind, or an activation's
  snapshot saw, are credentials with one of a role (`BindsCredentials`), whatever is
  bound by now. `AdmittedWereWhole` has an invariant of its own, `WitnessInv`: an INVITE the
  worker has found the binding of, and whose ids are eligible now, is in `whole`. No one
  statement is enough: the first looks at the binding and the agent's existence, and
  the second is judged on the state it meets, whatever changed since OpenSIPS's query.

Only model-checked: the liveness properties, because the prover has neither fairness
nor ENABLED. `AdmittedIsHeld` and `AdmittedWithinLimit` are proved under the hypotheses
named above, and are false of instances that violate them; each mode of `inbound`
satisfies `UndoIsHarmless`. The mode `faults` does not satisfy `SeatsAreCounted`, as its INSERT
may fail after the commit; there a single channel comes in, which cannot exceed a
limit of one.

## 7. Known divergences

Kept as a run, `second_invite`: a connection reset after the bgapi command was
written is classed as transport and retried on the next carrier
(`runtime/calling/controller.go:105`), against the comment at
`telephony/calls/failover.go:84`.

Modelled as the code does it, with the properties stated accordingly. Calls:

- The reconciliation (`telephony/calls/jobs.go:75`) creates the lease of a call that is
  attributed (`service.go:111`) but not admitted (`:124`); `Acquire` then takes the
  script's existing-lease branch (`integrations/redis/cache.go:109`) and exceeds the limit.
  `AdmittedWithinLimit` is about inbound calls, whose lease is taken under another id.
- The admission that loses the insert (`service.go:243`) releases the channel's lease,
  which the winner still needs for `admission.Bind` (`:290`): a healthy call is failed,
  against the comment at `:239`. `AdmittedIsHeld` is about calls still admitted.
- A handler that read its snapshot before the call ended refreshes the lease after
  the terminal handler released it (`lifecycle.go:45`): a leftover until its TTL of
  26 h. No property says that terminal calls hold no lease.
- A failed `SetRouteAttribution` leaves the zero value in `call`, so `MarkFailed`
  reaches no row (`service.go:276`); a crash between `CreateInbound` and `SetCallID`
  leaves a row nothing ends. `GoneReachesTerminal` is checked where nothing fails.
- Two workers admitting one channel, with a crash or failing compensations on top,
  can leave an admitted call without lease or binding; the mode `faults` has one
  worker, `race` two and no faults.
- An INSERT that commits and is reported failed: `AdmitInbound` finds the row again,
  releases the channel's lease (`service.go:243`) and refreshes the call's unchecked; a
  call admitted in between makes one too many. `limit` is checked where nothing fails.

- The request's context is also that of its compensation: a client that disconnects
  after the originate (`service.go:166`) makes hangup, release and `MarkFailed` fail, and
  the channel of a call `Create` gave up stays live. `LiveChannelIsHeld` is about channels
  `Create` has not given up.

ESL client:

- A lost wakeup: `disconnect` starts no reconnect loop while `reconnecting` is set
  (`supervisor.go:123`), and the loop resets it in a deferred function after it has
  already succeeded (`:136`). A connection lost in between is replaced by nobody; the
  client stays disconnected although the comment at `client.go:210` leaves it to the
  supervisor. `LinkSettles` excepts it with the history variable `missed`, which says
  that a loss met a loop that has not failed since.
- A write that times out half-way does not retire the connection; its fragment
  would prefix the next command. The model writes all of a command or nothing.
- `Subscribe` holds `subscriptionsMu` while `dispatchEvent`, in the read loop that must
  deliver its reply, takes it. The one `Subscribe` of the program runs before events
  flow; a second one on a busy connection would wait until `commandTimeout`.

Events and webhooks:

- Deleting an endpoint cancels claimed deliveries too, also one the endpoint has
  already accepted (`database/queries/webhook_deliveries.sql:67`); the job's own result then
  finds no row and ends the worker, with its publisher and consumers.
- An event whose `Ingest` fails `MaxDeliver` (20) times is lost to webhooks;
  `PipelineAssumption` has fewer faults than deliveries.

Media and agents:

- A heartbeat that loaded `draining=false` before the drain deletes the draining key
  after it was set (`runtime/media/registry.go:54`), and until the next heartbeat sessions
  may be placed there; `docs/architecture.md:377` says the heartbeat stops first.
  `DrainMarkReturns` states what does hold.
- Nothing keeps a media lease's two records together once one has lapsed
  (`integrations/redis/media.go:63`, `:76`, `:120`, `:182`). An entry pruned early by a client
  whose clock is ahead frees its slot; when another session has taken it, the owner
  re-acquires or refreshes without a count and the node holds more than its capacity.
  An owner key that is gone first lets a second node take the session while the entry
  still counts on the first. `WithinCapacity` and `LeasesMatchOwners` set such leases apart;
  between them they say that nothing else has this effect.
- The attach timer publishes its terminal failure before it finds out that an `Attach`
  has won (`media/session/manager.go:133`). A provider stream that starts after
  `ProviderStartTimeout` is never closed.
- A replayed answered event ends the session it finds
  (`ai/orchestration/lifecycle.go:14`, `runtime/agent/lifecycle.go:117`); entries of
  `sessionNodes` and `states` stay when another worker completed the call first
  (`:204`), and the summary may be written by a worker that observed nothing.
- The pump's event loop calls `Interrupt`, whose `emit` writes to the channel this
  goroutine reads: with 32 events queued and a response active it waits until the
  session is finished, and playback is not cleared (`docs/media-plane.md:115` promises
  it). `StreamEnds` shows that the session's end does free it.
- A late `Interrupt` for an old SpeechStarted can cancel the next response; a stale
  frame may pass after the cancellation (`select` is random), first frames of a new
  response may be dropped, and one left in the queue may be played into it:
  `OneStaleFrame` bounds this. ResponseStopped clears `playbackActive` while FreeSWITCH
  still plays its buffer, so a barge-in then clears nothing
  (`docs/voice-agent-execution-plan.md:174`).
- `SubmitToolResult` after `run` closed the events may send on a closed channel. A tool
  call is announced before `awaitToolResults` registers it: a very fast result, or a
  barge-in in between, is "unknown pending tool call", which closes the control socket
  and ends the session. A result that comes while a newer response is active starts
  another one without cancelling it.
- `docs/media-plane.md:209` gives another order than the code's queue, interrupt,
  `ClearPlayback`.

Recordings: a late `Put` after `Delete` re-creates the object under a deleted row. A
failed `PinUpload` addresses no row (`telephony/recordings/ingestion.go:208`); the lease's end
is what retries it. `AudioIsKept` excepts recordings whose deletion was asked for.

Configuration and access:

- The activating statement (`database/sqlc/voice_agents.sql.go:14`) re-reads the agent's row
  once it is free, and takes bindings and tools from its snapshot: the revision number
  may be newer than what it carries, against
  `docs/voice-agent-execution-plan.md:71`. `ActiveIsComplete` holds all the same. An active
  revision may refer to a credential deleted later; `VerifyIntegration` racing
  `RotateCredential` marks an unverified secret ready.
- A probe's verdict may be applied to an endpoint that has moved; neither router looks
  at a trunk's direction for an inbound call (they read `inbound_enabled`); a digest row
  may outlive a `Clear` that waited behind a `Set`.
- A CIDR is unique only within its trunk (`src/server/migrations/013_create_trunks.sql:90`),
  and OpenSIPS fails closed when the most specific match is not one trunk's
  (`src/containers/opensips/opensips.cfg:273`): of two trunks with the same CIDR, also of
  different tenants, both validate and neither is served. `Validate` cannot see it;
  `ValidIsServed` excepts a trunk all of whose addresses are contested.
- What changes after the worker's second statement (`telephony/routing/repository.go:48`)
  is not looked at again: a call may be answered by an agent disabled since. A number
  that is bound anew after OpenSIPS's query has another binding id and is refused.
- A login by one-time code cannot succeed. `SendOTP` inserts the purpose `otp` and no
  `state` (`identity/auth/service.go:113`); the table takes only `email_otp`,
  `email_verification`, `password_reset` and `magic_link`
  (`src/server/migrations/003_create_authentication.sql:54`) and has `state` NOT NULL (`:47`).
  The INSERT fails each time, and `VerifyOTP` never gets past the challenge it does not
  find (`identity/auth/service.go:141`). As only `getOrCreateOTPUser` creates users, they
  come from outside this code. The model refuses the row as the table does, and logins are by password.
- Two logins on one transaction may both end in a session. A member change whose
  statement had started when its requester was demoted takes effect: `AdminsAct`
  judges the requester as the statement saw it. `users.Delete` of the owner leaves an
  organization without a usable owner.

## 8. Abstractions

- Ids, payloads, headers, names and URLs are model values. Where a mix does not
  delete it, the organization stays active.
- Events handed to the outbox are well formed: a row whose subject or headers do not
  parse fails for ever. The outbox rows of trunks ride in their transactions.
- Call leases and bindings (26 h, 24 h) do not expire: the reconciliation renews
  leases every 30 s. The script's per-second window is left out.
- Clocks: a lock grows stale, a retry falls due, a key, login, session or record of a
  media lease expires at any moment at which the code permits it, whatever the clocks
  of the clients and of Redis say; there is no assumption on their skew.
- A call, its SIP dialog and its channel are one to one in `InboundCall`; in
  `OutboundCall` an attempt names its channel and dialog.
- To the call protocols a command succeeds, fails, or fails after it took effect, and
  events may be lost: what `EslClient` allows. `EslClient` itself leaves out events
  (handlers run in goroutines of their own), frame syntax and the handshake's steps;
  `Connect` is called once and `Close` after it.
- JetStream stores a message once per event id (its duplicate window). Endpoint API
  operations happen in the scene `endpoints`, not in `pipeline`.
- `Place` tries the listed nodes in any order.
- `TurnTaking`: SpeechStopped and TranscriptFinal are one event; deltas, usage and
  non-terminal errors are "note" events; one tool call per response; the input loops
  are one step that may end the pump; the session starts attached.
- `AgentRuntime`: one call, one tool call id per session, which may be reported twice.
- `Trunks`: one trunk in full, of the others their source addresses (with those changes
  of theirs that matter: an address comes or goes); one health checker in the instance;
  name, host and port syntax is left out.
- `ExpiringSessions` names the earlier sessions that may expire during a behaviour.

## 9. Not modelled

`PROJECT.json` lists every component with its status. Left out because there is no
protocol in them: adapters to external services (wire formats and I/O), telemetry,
configuration loading, HTTP wiring, audit rows, WebRTC credentials, user interfaces,
deployment. Left out of modelled components: single sign-on, SCIM identities,
`SetAuthTransaction*`, Enable/RemoveOrganizationMember, name and profile edits, `Touch`
statements, rate limits, token name uniqueness, tool signing secrets, call transfer,
playback and DTMF, listings, and the retention passes that are single DELETEs. The
invitations package is empty at this commit. The integrated engine hands turns to
one realtime provider and keeps no state of its own; the echo engine is for tests.
