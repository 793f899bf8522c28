---------------------------- MODULE MediaSession ----------------------------
(***************************************************************************)
(* media/session's Manager and runtime/media's handler over it: one map of  *)
(* live sessions behind m.mu, and per session a managedSession behind its   *)
(* own mutex.  Start holds m.mu while the provider starts.  A connection    *)
(* attaches once and runs the pump; the attach timer, a Stop, a control     *)
(* command, the end of the pump and Drain may all finish the session, in    *)
(* any order and at the same time: finishOnce lets one of them release the  *)
(* resources while the others wait for it, completeOnce announces the end,  *)
(* and remove takes out the session it was given and no later one under     *)
(* the same id.  Each critical section and each wait is a step.             *)
(***************************************************************************)
EXTENDS Naturals, FiniteSets

CONSTANTS Ids,               \* session ids (uuids)
          Capacity,
          MaxStarts,         \* bound: Start calls that reach the provider
          MaxTokens,         \* bound: unused attachment tokens of one session
          Creators, Stoppers, Conns   \* HTTP requests, stop calls, connections

Instances == 1 .. MaxStarts  \* the managedSession values, in order of creation
None == 0

VARIABLES sessions,          \* m.sessions: the instance under each id
          draining, mu,      \* m.draining; the creator that holds m.mu, or "free"
          inst,              \* the managedSessions
          tokens,            \* valid tokens of each id that nobody has used yet
          proc,              \* the goroutines
          drain,             \* Drain's progress and the instances it waits for
          starts

vars == <<sessions, draining, mu, inst, tokens, proc, drain, starts>>

Timers == {<<"timer", k>> : k \in Instances}
Finishers == {<<"finish", k>> : k \in Instances}     \* Drain's go managed.finish()
Procs == Creators \cup Stoppers \cup Conns \cup Timers \cup Finishers

ASSUME MediaSessionAssumption ==
    /\ Capacity \in Nat \ {0} /\ MaxStarts \in Nat \ {0} /\ MaxTokens \in Nat \ {0}
    /\ Creators \cap Stoppers = {} /\ (Creators \cup Stoppers) \cap Conns = {}
    /\ (Creators \cup Stoppers \cup Conns) \cap (Timers \cup Finishers) = {}
    /\ "free" \notin Creators

\* managedSession.  timer: the attach timer is armed; control: a control socket
\* is open; stream: the provider's stream; once: finishOnce.
managedSession ==
    [id : Ids \cup {"none"}, attached : BOOLEAN, finished : BOOLEAN,
     timer : BOOLEAN, control : BOOLEAN, stream : {"none", "open", "closed"},
     once : {"no", "running", "done"}, complete : BOOLEAN]

NoInstance == [id |-> "none", attached |-> FALSE, finished |-> FALSE, timer |-> FALSE,
               control |-> FALSE, stream |-> "none", once |-> "no", complete |-> FALSE]
IdleProc == [pc |-> "idle", k |-> None, id |-> "none"]

TypeOK ==
    /\ sessions \in [Ids -> Instances \cup {None}]
    /\ draining \in BOOLEAN
    /\ mu \in Creators \cup {"free"}
    /\ inst \in [Instances -> managedSession]
    /\ tokens \in [Ids -> 0 .. MaxTokens]
    /\ starts \in 0 .. MaxStarts
    /\ drain.pc \in {"no", "wait", "done"} /\ drain.left \subseteq Instances

Init ==
    /\ sessions = [i \in Ids |-> None]
    /\ draining = FALSE /\ mu = "free" /\ starts = 0
    /\ inst = [k \in Instances |-> NoInstance]
    /\ tokens = [i \in Ids |-> 0]
    /\ proc = [p \in Procs |-> IdleProc]
    /\ drain = [pc |-> "no", left |-> {}]

Goto(p, pc) == proc' = [proc EXCEPT ![p] = IF pc = "idle" THEN IdleProc ELSE [@ EXCEPT !.pc = pc]]
Active == {i \in Ids : sessions[i] # None}
\* Mutant: a draining worker still takes sessions.
ReadyAlways == Cardinality(Active) < Capacity

Ready == ~draining /\ Cardinality(Active) < Capacity

-----------------------------------------------------------------------------
\* Manager.Start and createSession.

\* The checks under m.mu, and the provider's start begins with m.mu still held.
StartBegin(c, i) ==
    /\ proc[c].pc = "idle" /\ mu = "free" /\ starts < MaxStarts
    /\ Ready /\ sessions[i] = None
    /\ mu' = c /\ starts' = starts + 1
    /\ proc' = [proc EXCEPT ![c] = [IdleProc EXCEPT !.pc = "starting", !.id = i, !.k = starts + 1]]
    /\ UNCHANGED <<sessions, draining, inst, drain, tokens>>

\* The stream is there: the session is entered and its attach timer armed.
StartOk(c) ==
    LET k == proc[c].k  IN
    /\ proc[c].pc = "starting"
    /\ inst' = [inst EXCEPT ![k].id = proc[c].id, ![k].stream = "open", ![k].timer = TRUE]
    /\ sessions' = [sessions EXCEPT ![proc[c].id] = k]
    /\ mu' = "free" /\ Goto(c, "issue")
    /\ UNCHANGED <<draining, drain, starts, tokens>>

\* The provider failed, or ProviderStartTimeout passed: m.mu is released.
StartFails(c) ==
    /\ proc[c].pc = "starting"
    /\ mu' = "free" /\ Goto(c, "idle")
    /\ UNCHANGED <<sessions, draining, inst, drain, starts, tokens>>

\* createSession finds its own session there: a repeated request goes on.
CreateAgain(c, i) ==
    /\ proc[c].pc = "idle" /\ mu = "free" /\ ~draining /\ sessions[i] # None
    /\ proc' = [proc EXCEPT ![c] = [IdleProc EXCEPT !.pc = "issue", !.id = i]]
    /\ UNCHANGED <<sessions, draining, mu, inst, drain, starts, tokens>>

\* Stop's lookup under m.mu: ErrSessionNotFound, or the instance to finish.
Lookup(p, i) == proc' = [proc EXCEPT ![p] =
    IF sessions[i] = None THEN IdleProc ELSE [pc |-> "mark", k |-> sessions[i], id |-> i]]

\* TokenService: a token is valid once, until its TTL runs out.
Issue(i) == tokens' = [tokens EXCEPT ![i] = IF @ < MaxTokens THEN @ + 1 ELSE @]
VerifyAndConsume(i) == tokens[i] > 0 /\ tokens' = [tokens EXCEPT ![i] = @ - 1]

\* The token and the URLs are made, or the handler stops the session it has made.
createSession(c) ==
    /\ proc[c].pc = "issue"
    /\ \/ Goto(c, "idle") /\ Issue(proc[c].id)
       \/ mu = "free" /\ Lookup(c, proc[c].id) /\ UNCHANGED tokens
    /\ UNCHANGED <<sessions, draining, mu, inst, drain, starts>>

-----------------------------------------------------------------------------
\* Manager.Attach, behind the transport's handler.

\* The lookup: ErrSessionNotFound, or the instance whose identity and format are
\* those of the token's session.
Attach(c, i) ==
    /\ mu = "free"
    /\ proc' = [proc EXCEPT ![c] = IF sessions[i] = None THEN IdleProc
                                   ELSE [pc |-> "claim", k |-> sessions[i], id |-> i]]

\* The token is used up before the peer says hello: a peer that fails its hello
\* has to be given another (as has one whose token expired).
ServeHTTP(c, i) ==
    /\ proc[c].pc = "idle" /\ VerifyAndConsume(i)
    /\ Attach(c, i) \/ UNCHANGED proc
    /\ UNCHANGED <<sessions, draining, mu, inst, drain, starts>>

\* Under managed.mu: refused when attached, finished or cancelled.
AttachClaim(c) ==
    LET k == proc[c].k  IN
    /\ proc[c].pc = "claim"
    /\ IF inst[k].attached \/ inst[k].finished THEN Goto(c, "idle") /\ UNCHANGED inst
       ELSE /\ inst' = [inst EXCEPT ![k].attached = TRUE, ![k].timer = FALSE]
            /\ Goto(c, "pump")
    /\ UNCHANGED <<sessions, draining, mu, drain, starts, tokens>>

\* pump returns: the peer or the provider went away or failed at any time, and
\* it always returns once the session's context is cancelled.
AttachEnds(c) ==
    /\ proc[c].pc = "pump"
    /\ Goto(c, "mark")
    /\ UNCHANGED <<sessions, draining, mu, inst, drain, starts, tokens>>

-----------------------------------------------------------------------------
\* The control socket: one at a time, and none on a finished session.

AttachControl(k) ==
    /\ mu = "free" /\ \E i \in Ids : sessions[i] = k
    /\ ~inst[k].finished /\ ~inst[k].control
    /\ inst' = [inst EXCEPT ![k].control = TRUE]
    /\ UNCHANGED <<sessions, draining, mu, proc, drain, starts, tokens>>

CloseControl(k) ==
    /\ inst[k].control
    /\ inst' = [inst EXCEPT ![k].control = FALSE]
    /\ UNCHANGED <<sessions, draining, mu, proc, drain, starts, tokens>>

-----------------------------------------------------------------------------
\* Finishing.  finish marks the session and enters finishOnce: the first caller
\* cancels the context, closes the control socket and goes on to release the
\* rest; the others wait until it has.  attached no longer changes once finished
\* is set, so marking and entering are one step.

\* What a caller does once finishResources has returned: the attachment marks
\* the session complete, Stop waits for that, the timer removes it at once.
After(p) == IF p \in Stoppers \cup Creators THEN "wait"
            ELSE IF p \in Finishers THEN "idle" ELSE "remove"
Completes(p, k) == p \in Conns \/ ~inst[k].attached

\* Stop by a stopSession request or by a control socket's stop command.
StopCall(t, i) ==
    /\ proc[t].pc = "idle" /\ mu = "free" /\ Lookup(t, i)
    /\ UNCHANGED <<sessions, draining, mu, inst, drain, starts, tokens>>

finish(p) ==
    LET k == proc[p].k  IN
    /\ proc[p].pc = "mark"
    /\ \/ /\ inst[k].once = "no" /\ Goto(p, "close")
          /\ inst' = [inst EXCEPT ![k].finished = TRUE, ![k].timer = FALSE,
                                  ![k].once = "running", ![k].control = FALSE]
       \/ /\ inst[k].once = "done" /\ Goto(p, After(p))
          /\ inst' = [inst EXCEPT ![k].complete = @ \/ Completes(p, k)]
    /\ UNCHANGED <<sessions, draining, mu, drain, starts, tokens>>

\* Mutant: only the pump's goroutine announces the end.
FinishSilently(p) ==
    LET k == proc[p].k  IN
    /\ proc[p].pc = "close"
    /\ inst' = [inst EXCEPT ![k].stream = "closed", ![k].once = "done",
                            ![k].complete = @ \/ p \in Conns]
    /\ Goto(p, After(p))
    /\ UNCHANGED <<sessions, draining, mu, drain, starts, tokens>>

\* The stream and the connection are closed; with no pump to do it, this also
\* marks the session complete.
finishResources(p) ==
    LET k == proc[p].k  IN
    /\ proc[p].pc = "close"
    /\ inst' = [inst EXCEPT ![k].stream = "closed", ![k].once = "done",
                            ![k].complete = @ \/ Completes(p, k)]
    /\ Goto(p, After(p))
    /\ UNCHANGED <<sessions, draining, mu, drain, starts, tokens>>

\* Stop waits for complete, or gives up when its request is cancelled.
StopWait(t) ==
    /\ proc[t].pc = "wait" /\ inst[proc[t].k].complete
    /\ Goto(t, "remove")
    /\ UNCHANGED <<sessions, draining, mu, inst, drain, starts, tokens>>
StopCancelled(t) ==
    /\ proc[t].pc = "wait"
    /\ Goto(t, "idle")
    /\ UNCHANGED <<sessions, draining, mu, inst, drain, starts, tokens>>

\* The attach timer fires; its terminal failure event goes out before it knows
\* whether an attachment has won.
TimerFires(k) ==
    /\ inst[k].timer
    /\ inst' = [inst EXCEPT ![k].timer = FALSE]
    /\ proc' = [proc EXCEPT ![<<"timer", k>>] = [IdleProc EXCEPT !.pc = "unattached", !.k = k,
                                                               !.id = inst[k].id]]
    /\ UNCHANGED <<sessions, draining, mu, drain, starts, tokens>>

finishUnattached(p) ==
    LET k == proc[p].k  IN
    /\ proc[p].pc = "unattached"
    /\ IF inst[k].finished \/ inst[k].attached THEN Goto(p, "idle") /\ UNCHANGED inst
       ELSE /\ inst' = [inst EXCEPT ![k].finished = TRUE, ![k].once = "running",
                                    ![k].control = FALSE]
            /\ Goto(p, "close")
    /\ UNCHANGED <<sessions, draining, mu, drain, starts, tokens>>

-----------------------------------------------------------------------------
\* Manager.remove and Manager.Drain.

\* Mutant: remove goes by the id alone.
TakeOutAny(i, k) == [sessions EXCEPT ![i] = None]

\* delete(m.sessions, id) when the session under id is still the one given.
TakeOut(i, k) == IF sessions[i] = k THEN [sessions EXCEPT ![i] = None] ELSE sessions

remove(p) ==
    /\ proc[p].pc = "remove" /\ mu = "free"
    /\ sessions' = TakeOut(proc[p].id, proc[p].k)
    /\ Goto(p, "idle")
    /\ UNCHANGED <<draining, mu, inst, drain, starts, tokens>>

\* draining is set and the live sessions are snapshot; each one is finished by
\* a goroutine of its own.
DrainBegin ==
    LET live == {sessions[i] : i \in Active}  IN
    /\ drain.pc = "no" /\ mu = "free"
    /\ draining' = TRUE
    /\ drain' = [pc |-> "wait", left |-> live]
    /\ proc' = [p \in Procs |-> IF p \in Finishers /\ p[2] \in live
                                THEN [IdleProc EXCEPT !.pc = "mark", !.k = p[2]] ELSE proc[p]]
    /\ UNCHANGED <<sessions, mu, inst, starts, tokens>>

\* Every session of the snapshot is awaited and removed, then the map must be
\* empty; the token m.changed keeps for Drain makes it look again after a removal.
DrainWait ==
    /\ drain.pc = "wait" /\ mu = "free"
    /\ \E k \in drain.left :
          /\ inst[k].complete
          /\ sessions' = TakeOut(inst[k].id, k)
          /\ drain' = [drain EXCEPT !.left = @ \ {k}]
    /\ UNCHANGED <<draining, mu, inst, proc, starts, tokens>>

DrainEmpty ==
    /\ drain.pc = "wait" /\ drain.left = {} /\ mu = "free"
    /\ Active = {}
    /\ drain' = [drain EXCEPT !.pc = "done"]
    /\ UNCHANGED <<sessions, draining, mu, inst, proc, starts, tokens>>

-----------------------------------------------------------------------------
ProcStep(p) == \/ finish(p) \/ finishResources(p) \/ StopWait(p)
               \/ finishUnattached(p) \/ remove(p)
               \/ p \in Conns /\ AttachClaim(p)
               \/ p \in Creators /\ createSession(p)

Next == \/ \E c \in Creators, i \in Ids : StartBegin(c, i) \/ CreateAgain(c, i)
        \/ \E c \in Creators : StartOk(c) \/ StartFails(c)
        \/ \E c \in Conns, i \in Ids : ServeHTTP(c, i)
        \/ \E c \in Conns : AttachEnds(c)
        \/ \E k \in Instances : AttachControl(k) \/ CloseControl(k) \/ TimerFires(k)
        \/ \E t \in Stoppers, i \in Ids : StopCall(t, i)
        \/ \E t \in Stoppers : StopCancelled(t)
        \/ \E p \in Procs : ProcStep(p)
        \/ DrainBegin \/ DrainWait \/ DrainEmpty

Spec == Init /\ [][Next]_vars

\* Goroutines run; the provider answers or times out; a pump whose context is
\* cancelled returns; the timer fires.  Peers and callers owe nothing.
Fairness ==
    /\ \A p \in Procs : WF_vars(ProcStep(p))
    /\ \A c \in Creators : WF_vars(StartOk(c) \/ StartFails(c))
    /\ \A c \in Conns : WF_vars(proc[c].pc = "pump" /\ inst[proc[c].k].finished /\ AttachEnds(c))
    /\ \A k \in Instances : WF_vars(TimerFires(k))
    /\ WF_vars(DrainWait \/ DrainEmpty)

FairSpec == Spec /\ Fairness

-----------------------------------------------------------------------------
\* What leaves the map is released: an instance that was started and is not the
\* one under its id has its stream closed, its pump over and its control socket
\* shut, so nothing the worker no longer counts still talks to a provider or a
\* caller, and the capacity counts every live stream.  (Manager.remove,
\* finishResources, Stop and Drain in any order.)
GoneIsReleased ==
    \A k \in Instances :
       (inst[k].stream # "none" /\ sessions[inst[k].id] # k)
          => /\ inst[k].stream = "closed" /\ ~inst[k].control
             /\ \A c \in Conns : ~(proc[c].pc = "pump" /\ proc[c].k = k)

\* Nobody waits forever: a Stop returns, and Drain ends with no session left,
\* whichever of the timer, the pump, other Stops and a Start that holds the
\* mutex it meets on its way.
NobodyWaits ==
    /\ \A t \in Stoppers : (proc[t].pc # "idle") ~> (proc[t].pc = "idle")
    /\ (drain.pc # "no") ~> (drain.pc = "done" /\ Active = {})

\* The refinement mapping: the phase of the instance under each id.
PhaseOf(i) ==
    IF sessions[i] = None THEN "absent"
    ELSE IF inst[sessions[i]].finished THEN "closing"
    ELSE IF inst[sessions[i]].attached THEN "attached" ELSE "waiting"

Plane == INSTANCE MediaPlane WITH Sessions <- Ids, phase <- [i \in Ids |-> PhaseOf(i)]

\* The manager implements the plane's promise: no second attachment, no
\* attachment to a closing session, no session beyond the capacity or after the
\* drain began, and none that vanishes without having been closed.
ImplementsPlane == Plane!PlaneSpec
=============================================================================
