----------------------------- MODULE EslClient ------------------------------
(***************************************************************************)
(* integrations/freeswitch's Client: one ESL connection shared by all of a *)
(* process, with its supervisor.  Commands are serialised by commandMu and *)
(* paired with replies by order alone: a connection whose command timed    *)
(* out is retired.  Every connection has a read loop; whoever finds it     *)
(* broken disconnects it and starts the reconnect loop, which dials,       *)
(* installs and subscribes again.  Subscribe holds subscriptionsMu until   *)
(* its command is answered.  Each critical section, wait and network       *)
(* operation is a step.  Events are LifecycleObserver's subject; a         *)
(* handler's commands are a caller's here.                                 *)
(***************************************************************************)
EXTENDS Naturals, Sequences

CONSTANTS Callers,           \* goroutines with a command each
          Order,             \* connections, in the order they are dialled
          MaxBreaks          \* bound: losses, failed dials and writes, timeouts

Conns == {Order[i] : i \in DOMAIN Order}
NoConn == "none"
Nobody == "nobody"
Connectors == {"main", "loop"}                 \* Connect and reconnectLoop
Users == Callers \cup {"sub"} \cup Connectors  \* whoever calls command

\* One connection, one more after every loss, and one that a closed client refuses.
ASSUME EslAssumption == /\ MaxBreaks \in Nat /\ Callers \cap {"sub", "main", "loop"} = {}
                        /\ Len(Order) = MaxBreaks + 2
                        /\ Users \cap Conns = {} /\ NoConn \notin Conns /\ Nobody \notin Users

VARIABLES conn, ready, closed, reconnecting,   \* of the Client
          cancelled,                           \* lifecycleCtx
          commandMu, subscriptionsMu,          \* the goroutine that holds each
          subscribed,                          \* c.subscriptions has the subscription
          link,                                \* the connections
          done,                                \* connections whose done is closed
          pc, at, got,                         \* users and readers: control, connection, reply
          dialed,                              \* the connection a connector has made
          closer,                              \* Close
          missed,                              \* a loss met a reconnect loop that has not failed since
          breaks

clientVars == <<conn, ready, closed, reconnecting, cancelled>>
lockVars == <<commandMu, subscriptionsMu, subscribed>>
vars == <<clientVars, lockVars, link, done, pc, at, got, dialed, closer, missed, breaks>>

\* frames: replies on their way, each the user it is for; events: FreeSWITCH sends events on it.
NoLink == [st |-> "none", frames |-> <<>>, events |-> FALSE]
Goroutines == Users \cup Conns                 \* a connection stands for its read loop

EslTypeOK ==
    /\ conn \in Conns \cup {NoConn} /\ {ready, closed, reconnecting, cancelled, subscribed, missed} \subseteq BOOLEAN
    /\ {commandMu, subscriptionsMu} \subseteq Users \cup {Nobody}
    /\ link \in [Conns -> [st : {"none", "up", "lost", "closed"}, frames : Seq(Users), events : BOOLEAN]]
    /\ done \subseteq Conns
    /\ at \in [Users -> Conns \cup {NoConn}] /\ dialed \in [Connectors -> Conns \cup {NoConn}]
    /\ got \in [Goroutines -> Users \cup {Nobody}] /\ breaks \in 0 .. MaxBreaks

Init ==
    /\ conn = NoConn /\ ready = FALSE /\ closed = FALSE /\ reconnecting = FALSE /\ cancelled = FALSE
    /\ commandMu = Nobody /\ subscriptionsMu = Nobody /\ subscribed = FALSE
    /\ link = [k \in Conns |-> NoLink] /\ done = {}
    /\ pc = [g \in Goroutines |-> IF g = "main" THEN "dial" ELSE "idle"]
    /\ at = [p \in Users |-> NoConn] /\ got = [g \in Goroutines |-> Nobody]
    /\ dialed = [x \in Connectors |-> NoConn]
    /\ closer = [pc |-> "idle", k |-> NoConn]
    /\ missed = FALSE /\ breaks = 0

Goto(g, l) == pc' = [pc EXCEPT ![g] = l]
Break == breaks < MaxBreaks /\ breaks' = breaks + 1
Running == pc["main"] = "done"                 \* Connect has returned; the process works
CloseLink(k) == link' = [link EXCEPT ![k].st = "closed", ![k].frames = <<>>]

-----------------------------------------------------------------------------
\* command, by user p.  Its end releases commandMu.

Returns(p, l) == Goto(p, l) /\ commandMu' = Nobody

\* The fields are read once commandMu is held.
Lock(p) ==
    /\ pc[p] = "lock" /\ commandMu = Nobody
    /\ got' = [got EXCEPT ![p] = Nobody]
    /\ IF conn = NoConn THEN Goto(p, "err") /\ UNCHANGED <<commandMu, at>>
       ELSE /\ Goto(p, "write") /\ commandMu' = p
            /\ at' = [at EXCEPT ![p] = conn]
    /\ UNCHANGED <<clientVars, subscriptionsMu, subscribed, link, done, dialed, closer, missed, breaks>>

\* A write on a connection that the peer has left may fail or just be lost.
Write(p) ==
    LET k == at[p] IN
    /\ pc[p] = "write"
    /\ \/ /\ link[k].st = "up" /\ Goto(p, "wait")
          /\ link' = [link EXCEPT ![k].frames = Append(@, p),
                                  ![k].events = @ \/ p \notin Callers]
          /\ UNCHANGED <<commandMu, breaks>>
       \/ /\ link[k].st = "lost" /\ Goto(p, "wait") /\ UNCHANGED <<link, commandMu, breaks>>
       \/ /\ Break \/ (link[k].st # "up" /\ UNCHANGED breaks)
          /\ Returns(p, "err") /\ UNCHANGED link
    /\ UNCHANGED <<clientVars, subscriptionsMu, subscribed, done, at, got, dialed, closer, missed>>

\* The read loop hands over the frame it holds.
Reply(p) ==
    LET k == at[p] IN
    /\ pc[p] = "wait" /\ pc[k] = "reply"
    /\ pc' = [pc EXCEPT ![p] = "ok", ![k] = "read"] /\ commandMu' = Nobody
    /\ got' = [got EXCEPT ![p] = got[k], ![k] = Nobody]
    /\ UNCHANGED <<clientVars, subscriptionsMu, subscribed, link, done, at, dialed, closer, missed, breaks>>

\* Mutant: a command that timed out leaves its connection in use.
TimeoutKeeps(p) ==
    /\ pc[p] = "wait" /\ Returns(p, "err")
    /\ (at[p] \in done /\ UNCHANGED breaks) \/ Break
    /\ UNCHANGED <<clientVars, subscriptionsMu, subscribed, link, done, at, got, dialed, closer, missed>>

\* The connection is closed, or the command's time is up and it is retired.
GiveUp(p) ==
    /\ pc[p] = "wait"
    /\ \/ at[p] \in done /\ Returns(p, "err") /\ UNCHANGED breaks
       \/ Break /\ Goto(p, "retire") /\ UNCHANGED commandMu
    /\ UNCHANGED <<clientVars, subscriptionsMu, subscribed, link, done, at, got, dialed, closer, missed>>

-----------------------------------------------------------------------------
\* disconnect, by a read loop or by a command.

Target(g) == IF g \in Conns THEN g ELSE at[g]
\* What the goroutine does when disconnect returns.
Leaves(g) == IF g \in Conns THEN Goto(g, "over") /\ UNCHANGED commandMu ELSE Returns(g, "err")

Retire(g) ==
    /\ pc[g] = "retire"
    /\ IF conn = Target(g)
       THEN conn' = NoConn /\ ready' = FALSE /\ Goto(g, "shut") /\ UNCHANGED commandMu
       ELSE Leaves(g) /\ UNCHANGED <<conn, ready>>
    /\ UNCHANGED <<closed, reconnecting, cancelled, subscriptionsMu, subscribed, link, done, at, got,
                   dialed, closer, missed, breaks>>

Shut(g) ==
    /\ pc[g] = "shut" /\ Goto(g, "supervise")
    /\ CloseLink(Target(g)) /\ done' = done \cup {Target(g)}
    /\ UNCHANGED <<clientVars, lockVars, at, got, dialed, closer, missed, breaks>>

\* Nothing to do when a reconnect loop is running, even one about to return.
startReconnect(g) ==
    /\ pc[g] = "supervise"
    /\ IF closed \/ reconnecting
       THEN /\ Leaves(g) /\ missed' = (missed \/ pc["loop"] # "idle") /\ UNCHANGED reconnecting
       ELSE /\ reconnecting' = TRUE /\ UNCHANGED missed
            /\ pc' = [pc EXCEPT !["loop"] = "dial", ![g] = IF g \in Conns THEN "over" ELSE "err"]
            /\ commandMu' = IF g \in Conns THEN commandMu ELSE Nobody
    /\ UNCHANGED <<conn, ready, closed, cancelled, subscriptionsMu, subscribed, link, done, at, got,
                   dialed, closer, breaks>>

-----------------------------------------------------------------------------
\* readLoop of connection k.

ReadFrame(k) ==
    /\ pc[k] = "read" /\ link[k].frames # <<>>
    /\ Goto(k, "reply") /\ got' = [got EXCEPT ![k] = Head(link[k].frames)]
    /\ link' = [link EXCEPT ![k].frames = Tail(@)]
    /\ UNCHANGED <<clientVars, lockVars, done, at, dialed, closer, missed, breaks>>

ReadFails(k) ==
    /\ pc[k] = "read" /\ link[k].st \in {"lost", "closed"} /\ Goto(k, "retire")
    /\ UNCHANGED <<clientVars, lockVars, link, done, at, got, dialed, closer, missed, breaks>>

\* Nobody takes the reply.
ReplyDropped(k) ==
    /\ pc[k] = "reply"
    /\ \/ k \in done /\ Goto(k, "over")
       \/ cancelled /\ Goto(k, "retire")
    /\ UNCHANGED <<clientVars, lockVars, link, done, at, got, dialed, closer, missed, breaks>>

-----------------------------------------------------------------------------
\* connectAndRestore, by connector x.

\* Connect reports the error; the loop waits and tries again.
Failed(x) == /\ Goto(x, IF x = "main" THEN "failed" ELSE "backoff")
             /\ missed' = IF x = "loop" THEN FALSE ELSE missed
Succeeded(x) == Goto(x, IF x = "main" THEN "done" ELSE "return")

\* connectAuthenticated.
Dial(x) ==
    /\ pc[x] = "dial"
    /\ \/ \E i \in DOMAIN Order :
             /\ ~(x = "loop" /\ cancelled)
             /\ link[Order[i]].st = "none" /\ \A j \in 1 .. i - 1 : link[Order[j]].st # "none"
             /\ link' = [link EXCEPT ![Order[i]].st = "up"] /\ dialed' = [dialed EXCEPT ![x] = Order[i]]
             /\ Goto(x, "install") /\ UNCHANGED <<missed, breaks>>
       \/ /\ Break \/ (x = "loop" /\ cancelled /\ UNCHANGED breaks)
          /\ Failed(x) /\ UNCHANGED <<link, dialed>>
    /\ UNCHANGED <<clientVars, lockVars, done, at, got, closer>>

\* A connection that is not installed is closed and forgotten.
installConnection(x) ==
    LET k == dialed[x] IN
    /\ pc[x] = "install"
    /\ IF closed THEN Failed(x) /\ link' = [link EXCEPT ![k] = NoLink] /\ UNCHANGED <<conn, ready>>
       ELSE IF conn # NoConn
       THEN Succeeded(x) /\ link' = [link EXCEPT ![k] = NoLink] /\ UNCHANGED <<conn, ready, missed>>
       ELSE /\ conn' = k /\ ready' = FALSE
            /\ pc' = [pc EXCEPT ![x] = "restore", ![k] = "read"] /\ UNCHANGED <<link, missed>>
    /\ UNCHANGED <<closed, reconnecting, cancelled, lockVars, done, at, got, dialed, closer, breaks>>

\* restoreSubscriptions sends what the snapshot holds.
restoreSubscriptions(x) ==
    /\ pc[x] = "restore" /\ subscriptionsMu = Nobody
    /\ Goto(x, IF subscribed THEN "lock" ELSE "restored")
    /\ UNCHANGED <<clientVars, lockVars, link, done, at, got, dialed, closer, missed, breaks>>

RestoreEnds(x) ==
    /\ \/ /\ pc[x] = "ok" /\ Goto(x, "restored") /\ UNCHANGED <<link, missed>>
       \/ pc[x] = "err" /\ Failed(x) /\ CloseLink(dialed[x])
    /\ UNCHANGED <<clientVars, lockVars, done, at, got, dialed, closer, breaks>>

\* ready, if the connection is still the one.
BecomeReady(x) ==
    /\ pc[x] = "restored" /\ Succeeded(x)
    /\ ready' = (ready \/ (conn = dialed[x] /\ ~closed))
    /\ UNCHANGED <<conn, closed, reconnecting, cancelled, lockVars, link, done, at, got, dialed, closer,
                   missed, breaks>>

\* reconnectLoop waits, and gives up when the client is closed.
Backoff ==
    /\ pc["loop"] = "backoff" /\ Goto("loop", "dial")
    /\ UNCHANGED <<clientVars, lockVars, link, done, at, got, dialed, closer, missed, breaks>>
GivesUp ==
    /\ pc["loop"] = "backoff" /\ cancelled /\ Goto("loop", "return")
    /\ UNCHANGED <<clientVars, lockVars, link, done, at, got, dialed, closer, missed, breaks>>

\* Mutant: the flag outlives the loop.
ReturnsReconnecting ==
    /\ pc["loop"] = "return" /\ Goto("loop", "idle")
    /\ UNCHANGED <<clientVars, lockVars, link, done, at, got, dialed, closer, missed, breaks>>

\* Its deferred function.
reconnectLoopReturns ==
    /\ pc["loop"] = "return" /\ Goto("loop", "idle") /\ reconnecting' = FALSE
    /\ UNCHANGED <<conn, ready, closed, cancelled, lockVars, link, done, at, got, dialed, closer, missed,
                   breaks>>

-----------------------------------------------------------------------------
\* The process.

\* Command or BGAPI.
Command(p) ==
    /\ pc[p] = "idle" /\ Running /\ Goto(p, "lock")
    /\ UNCHANGED <<clientVars, lockVars, link, done, at, got, dialed, closer, missed, breaks>>

\* Mutant: subscriptionsMu guards the list alone.
SubscribeUnlocked ==
    /\ pc["sub"] = "idle" /\ Running /\ Goto("sub", "lock")
    /\ UNCHANGED <<clientVars, lockVars, link, done, at, got, dialed, closer, missed, breaks>>

Subscribe ==
    /\ pc["sub"] = "idle" /\ Running /\ subscriptionsMu = Nobody
    /\ subscriptionsMu' = "sub" /\ Goto("sub", "lock")
    /\ UNCHANGED <<clientVars, commandMu, subscribed, link, done, at, got, dialed, closer, missed, breaks>>

SubscribeEnds ==
    /\ pc["sub"] \in {"ok", "err"} /\ Goto("sub", "over")
    /\ subscribed' = (pc["sub"] = "ok") /\ subscriptionsMu' = Nobody
    /\ UNCHANGED <<clientVars, commandMu, link, done, at, got, dialed, closer, missed, breaks>>

\* Close: the flag, the context and the connection, then two waits.
Close ==
    /\ closer.pc = "idle" /\ pc["main"] \in {"done", "failed"}
    /\ closed' = TRUE /\ ready' = FALSE /\ closer' = [pc |-> "cancel", k |-> conn]
    /\ UNCHANGED <<conn, reconnecting, cancelled, lockVars, link, done, pc, at, got, dialed, missed, breaks>>

CloseCancels ==
    /\ closer.pc = "cancel" /\ closer' = [closer EXCEPT !.pc = "wait"] /\ cancelled' = TRUE
    /\ IF closer.k = NoConn THEN UNCHANGED link ELSE CloseLink(closer.k)
    /\ UNCHANGED <<conn, ready, closed, reconnecting, lockVars, done, pc, at, got, dialed, missed, breaks>>

CloseReturns ==
    /\ closer.pc = "wait" /\ (closer.k # NoConn => closer.k \in done)
    /\ \A k \in Conns : pc[k] \in {"idle", "over"}
    /\ pc["loop"] = "idle"
    /\ closer' = [closer EXCEPT !.pc = "returned"]
    /\ UNCHANGED <<clientVars, lockVars, link, done, pc, at, got, dialed, missed, breaks>>

\* FreeSWITCH restarts or the network fails.
LinkLost(k) ==
    /\ link[k].st = "up" /\ pc[k] # "idle" /\ Break
    /\ link' = [link EXCEPT ![k].st = "lost"]
    /\ UNCHANGED <<clientVars, lockVars, done, pc, at, got, dialed, closer, missed>>

-----------------------------------------------------------------------------
CommandStep(p) == Lock(p) \/ Write(p) \/ Reply(p) \/ GiveUp(p)
DisconnectStep(g) == Retire(g) \/ Shut(g) \/ startReconnect(g)
ReadStep(k) == ReadFrame(k) \/ ReadFails(k) \/ ReplyDropped(k)
ConnectStep(x) == Dial(x) \/ installConnection(x) \/ restoreSubscriptions(x) \/ RestoreEnds(x) \/ BecomeReady(x)
CloseStep == CloseCancels \/ CloseReturns

Next ==
    \/ \E p \in Users : CommandStep(p)
    \/ \E g \in Goroutines : DisconnectStep(g)
    \/ \E k \in Conns : ReadStep(k) \/ LinkLost(k)
    \/ \E x \in Connectors : ConnectStep(x)
    \/ Backoff \/ GivesUp \/ reconnectLoopReturns
    \/ \E p \in Callers : Command(p)
    \/ Subscribe \/ SubscribeEnds \/ Close \/ CloseStep

Spec == Init /\ [][Next]_vars

\* Goroutines run, FreeSWITCH answers what reaches it and can be dialled when no
\* fault is left; select takes the cancelled context in the end.  Nobody has to
\* send commands or to close the client.
Fairness ==
    /\ \A p \in Users : WF_vars(CommandStep(p))
    /\ \A g \in Goroutines : WF_vars(DisconnectStep(g))
    /\ \A k \in Conns : WF_vars(ReadStep(k))
    /\ \A x \in Connectors : WF_vars(ConnectStep(x))
    /\ WF_vars(Backoff) /\ SF_vars(GivesUp) /\ WF_vars(reconnectLoopReturns)
    /\ WF_vars(SubscribeEnds) /\ WF_vars(CloseStep)

FairSpec == Spec /\ Fairness
-----------------------------------------------------------------------------
\* A command is answered with its own reply, although replies carry no id and
\* an earlier command may have given up on one that still arrives (command).
ReplyIsOwn == \A p \in Users : got[p] \in {Nobody, p}

\* A client that says it is ready gets the events it subscribed to, whenever
\* the connection changed under Subscribe or under a restoration (Subscribe,
\* restoreSubscriptions, connectAndRestore).
ReadyIsSubscribed == ready /\ subscribed => link[conn].events

\* A lost connection is replaced until the client is closed, and Close returns,
\* whatever waits it meets.  The exception is the code's: a connection lost when
\* the loop that made it is about to return is replaced by nobody (startReconnect).
LinkSettles ==
    /\ (conn = NoConn /\ Running) ~> (conn # NoConn \/ closed \/ missed)
    /\ closed ~> (closer.pc = "returned")
=============================================================================
