---------------------------- MODULE AgentRuntime ----------------------------
(***************************************************************************)
(* runtime/agent: how the workers attach a voice agent to an answered call  *)
(* and let go of it.  The event handlers of the call run on any worker, an  *)
(* answered event may be handled twice, and the terminal one overtakes the  *)
(* attachment at any of its steps.  The attachment is a chain of calls on   *)
(* the database, the media plane and FreeSWITCH, each of which may fail and  *)
(* is compensated by undoing the ones before it; a worker may crash         *)
(* anywhere, its control sockets closing with it.  The media side behaves   *)
(* as MediaPlane says, with the attach timer and the control socket of      *)
(* MediaSession.                                                            *)
(***************************************************************************)
EXTENDS VoiceSessions, FiniteSets

CONSTANTS Workers,
          Deliveries,        \* event deliveries: [event, worker] of each
          ToolRuns,          \* goroutines for deliveries of the tool call event
          MaxFaults,         \* bound: failed calls, losses and crashes
          Nobody

ASSUME AgentAssumption ==
    /\ MaxFaults \in Nat /\ Nobody \notin Workers
    /\ \A d \in DOMAIN Deliveries :
          Deliveries[d] \in [event : {"answered", "terminal"}, worker : Workers]
    /\ \A d, e \in DOMAIN Deliveries : Deliveries[d] = Deliveries[e] => d = e
    /\ ToolRuns \subseteq Nat

VARIABLES up,                \* the call's channel exists
          variable,          \* leamout_voice_agent_session_id on it, or NoSid
          fork,              \* sessions whose audio fork runs on the channel
          phase, control,    \* the media plane: phase and control socket's holder
          controls,          \* r.controls of each worker
          handler,           \* the handlers: [pc, sid]
          observer,          \* observeControl goroutines of each worker: [pc, sid]
          tool,              \* executeRealtimeTool goroutines: [pc, sid, worker]
          posts, told,       \* requests a tool endpoint got; answers "ok" given
          faults

runtimeVars == <<controls, handler, observer>>
planeVars == <<phase, control>>
channelVars == <<up, variable, fork>>
toolVars == <<tool, posts, told>>
vars == <<storeVars, channelVars, planeVars, runtimeVars, toolVars, faults>>

Handlers == DOMAIN Deliveries
Worker(h) == Deliveries[h].worker
Live == {"waiting", "attached"}
NoObserver == [pc |-> "none", sid |-> NoSid]

TypeOK ==
    /\ StoreTypeOK
    /\ up \in BOOLEAN /\ variable \in Sids \cup {NoSid} /\ fork \subseteq Sids
    /\ phase \in [Sids -> {"absent", "waiting", "attached", "closing"}]
    /\ control \in [Sids -> Workers \cup {Nobody}]
    /\ controls \in [Workers -> SUBSET Sids]
    /\ posts \in [Sids -> Nat] /\ told \subseteq Sids
    /\ faults \in 0 .. MaxFaults

Init ==
    /\ StoreInit
    /\ up = TRUE /\ variable = NoSid /\ fork = {}
    /\ phase = [s \in Sids |-> "absent"] /\ control = [s \in Sids |-> Nobody]
    /\ controls = [w \in Workers |-> {}]
    /\ handler = [h \in Handlers |-> [pc |-> "new", sid |-> NoSid]]
    /\ observer = [w \in Workers |-> [s \in Sids |-> NoObserver]]
    /\ tool = [g \in ToolRuns |-> [pc |-> "idle", sid |-> NoSid, worker |-> Nobody]]
    /\ posts = [s \in Sids |-> 0] /\ told = {}
    /\ faults = 0

Fault == faults < MaxFaults /\ faults' = faults + 1
NoFault == UNCHANGED faults
At(h, pc) == handler[h].pc = pc
To(h, pc) == handler' = [handler EXCEPT ![h] =
    IF pc \in {"done", "lost", "hangup"} THEN [pc |-> pc, sid |-> NoSid]
    ELSE [@ EXCEPT !.pc = pc]]
With(h, pc, s) == handler' = [handler EXCEPT ![h] = [pc |-> pc, sid |-> s]]

-----------------------------------------------------------------------------
\* attach.  AttachCall: the active session of the call, or a new one.

HandleLifecycle(h) ==
    /\ At(h, "new")
    /\ \/ /\ Deliveries[h].event = "answered"
          /\ With(h, "attach", NoSid) /\ UNCHANGED call
       \/ /\ Deliveries[h].event = "terminal" /\ ~up      \* the observer has marked the row
          /\ call' = "ended" /\ With(h, "finish", NoSid)
    /\ UNCHANGED <<session, execution, channelVars, planeVars, controls, observer,
                   toolVars, faults>>

AttachCall(h) ==
    /\ At(h, "attach")
    /\ \/ \E s \in GetActiveVoiceAgentSessionByCallID : With(h, "variable", s) /\ NoFault
       \/ /\ NoRows(GetActiveVoiceAgentSessionByCallID) /\ NoFault
          /\ \E agent \in BOOLEAN :
                To(h, IF NoRows(GetVoiceAgentByID(agent)) THEN "done" ELSE "create")
       \/ Fault /\ To(h, "hangup")
    /\ UNCHANGED <<storeVars, channelVars, planeVars, controls, observer, toolVars>>

FreshSid == {s \in Sids : /\ session[s] = "none"
                          /\ \A x \in Sids : x < s => session[x] # "none"}

\* The INSERT; a conflict is answered by the session that won, every other
\* refusal is an error.
CreateSession(h) ==
    /\ At(h, "create")
    /\ \/ /\ ~ActiveConflict /\ NoFault
          /\ \E s \in FreshSid, agent \in BOOLEAN :
                \/ /\ \E new \in CreateVoiceAgentSession(s, agent) :
                         session' = [session EXCEPT ![s] = new]
                   /\ With(h, "variable", s)
                \/ /\ NoRows(CreateVoiceAgentSession(s, agent))
                   /\ To(h, "hangup") /\ UNCHANGED session
       \/ /\ ActiveConflict /\ NoFault /\ UNCHANGED session
          /\ To(h, "reread")
       \/ Fault /\ To(h, "hangup") /\ UNCHANGED session
    /\ UNCHANGED <<call, execution, channelVars, planeVars, controls, observer, toolVars>>

RereadActive(h) ==
    /\ At(h, "reread")
    /\ \/ \E s \in GetActiveVoiceAgentSessionByCallID : With(h, "variable", s)
       \/ NoRows(GetActiveVoiceAgentSessionByCallID) /\ To(h, "hangup")
    /\ UNCHANGED <<storeVars, channelVars, planeVars, controls, observer, toolVars, faults>>

\* The channel's own record of the session that is attached to it; an error, or
\* another session there, leaves the durable session as it is.
GetVariable(h) ==
    /\ At(h, "variable")
    /\ \/ /\ up /\ NoFault
          /\ To(h, IF variable = NoSid THEN "media"
                   ELSE IF variable = handler[h].sid THEN "done" ELSE "hangup")
       \/ ~up /\ NoFault /\ To(h, "hangup")
       \/ Fault /\ To(h, "hangup")
    /\ UNCHANGED <<storeVars, channelVars, planeVars, controls, observer, toolVars>>

\* The snapshot is resolved and the session placed and created on its node; a
\* repeated request finds its own session there.  A lost answer has created it.
CreateSessionAt(s) == [phase EXCEPT ![s] = IF @ = "absent" THEN "waiting" ELSE @]
createMediaSession(h) ==
    LET made == CreateSessionAt(handler[h].sid)  IN
    /\ At(h, "media")
    /\ \/ NoFault /\ phase' = made /\ To(h, "control")
       \/ Fault /\ phase' \in {phase, made} /\ To(h, "fail")
    /\ UNCHANGED <<storeVars, channelVars, control, controls, observer, toolVars>>

\* OpenControl: one socket per session and none on a closing one; the worker
\* enters it in its map and observes it.
registerControl(h) ==
    LET s == handler[h].sid
        w == Worker(h)  IN
    /\ At(h, "control")
    /\ \/ /\ phase[s] \in Live /\ control[s] = Nobody /\ s \notin controls[w] /\ NoFault
          /\ control' = [control EXCEPT ![s] = w]
          /\ controls' = [controls EXCEPT ![w] = @ \cup {s}]
          /\ observer' = [observer EXCEPT ![w][s].pc = "loop"]
          /\ To(h, "fork")
       \/ /\ phase[s] \notin Live \/ control[s] # Nobody \/ s \in controls[w]
          /\ NoFault /\ To(h, "stop") /\ UNCHANGED <<control, controls, observer>>
       \/ Fault /\ To(h, "stop") /\ UNCHANGED <<control, controls, observer>>
    /\ UNCHANGED <<storeVars, channelVars, phase, toolVars>>

StartAudioFork(h) ==
    /\ At(h, "fork")
    /\ \/ up /\ NoFault /\ fork' = fork \cup {handler[h].sid} /\ To(h, "set")
       \/ ~up /\ NoFault /\ To(h, "stop") /\ UNCHANGED fork
       \/ Fault /\ To(h, "stop") /\ UNCHANGED fork
    /\ UNCHANGED <<storeVars, up, variable, planeVars, controls, observer, toolVars>>

\* StartAudioClock, which changes nothing that is modelled, and SetVariable: both
\* compensate with StopAudioFork first.
SetVariable(h) ==
    /\ At(h, "set")
    /\ \/ up /\ NoFault /\ variable' = handler[h].sid /\ To(h, "done") /\ UNCHANGED fork
       \/ ~up /\ NoFault /\ To(h, "stop") /\ UNCHANGED <<variable, fork>>
       \/ Fault /\ fork' = fork \ {handler[h].sid} /\ To(h, "stop") /\ UNCHANGED variable
    /\ UNCHANGED <<storeVars, up, planeVars, controls, observer, toolVars>>

-----------------------------------------------------------------------------
\* stopMediaSession: through the worker's own control socket, which it gives up,
\* or by a DELETE on the session's node; failSession; the hangup.

Closed(s) == [phase EXCEPT ![s] = IF @ \in Live THEN "closing" ELSE @]
StopSessionAt(s) == Closed(s)

stopMediaSession(h, next) ==
    LET s == handler[h].sid
        w == Worker(h)  IN
    /\ controls' = [controls EXCEPT ![w] = @ \ {s}]
    /\ control' = [control EXCEPT ![s] = IF s \in controls[w] /\ @ = w THEN Nobody ELSE @]
    /\ \/ phase' = StopSessionAt(s) /\ NoFault
       \/ phase' = phase /\ Fault
    /\ To(h, next)

StopAttached(h) ==
    /\ At(h, "stop") /\ stopMediaSession(h, "fail")
    /\ UNCHANGED <<storeVars, channelVars, observer, toolVars>>

\* CompleteCallWithSummary reads the active session of the call, whichever it
\* is, and completes the one it read.
failSession(h) ==
    /\ At(h, "fail")
    /\ \/ \E s \in GetActiveVoiceAgentSessionByCallID : With(h, "failMark", s) /\ NoFault
       \/ NoRows(GetActiveVoiceAgentSessionByCallID) /\ NoFault /\ To(h, "hangup")
       \/ Fault /\ To(h, "hangup")
    /\ UNCHANGED <<storeVars, channelVars, planeVars, controls, observer, toolVars>>

Complete(s) ==
    \/ \E new \in CompleteVoiceAgentSession(s) : session' = [session EXCEPT ![s] = new]
    \/ NoRows(CompleteVoiceAgentSession(s)) /\ UNCHANGED session

FailMark(h) ==
    /\ At(h, "failMark")
    /\ \/ Complete(handler[h].sid) /\ NoFault
       \/ Fault /\ UNCHANGED session
    /\ To(h, "hangup")
    /\ UNCHANGED <<call, execution, channelVars, planeVars, controls, observer, toolVars>>

\* The channel goes, with its variables and its media bugs.
HangUp == up' = FALSE /\ fork' = {} /\ variable' = NoSid

\* The consumer hangs up the channel of a call it could not attach.
HangupUnattached(h) ==
    /\ At(h, "hangup")
    /\ \/ HangUp /\ NoFault
       \/ Fault /\ UNCHANGED channelVars
    /\ To(h, "done")
    /\ UNCHANGED <<storeVars, planeVars, controls, observer, toolVars>>

\* finish: when another handler has completed the session, nothing is stopped.
finish(h) ==
    /\ At(h, "finish")
    /\ \/ \E s \in GetActiveVoiceAgentSessionByCallID : With(h, "finishMark", s) /\ NoFault
       \/ NoRows(GetActiveVoiceAgentSessionByCallID) /\ NoFault /\ To(h, "done")
       \/ Fault /\ To(h, "lost")
    /\ UNCHANGED <<storeVars, channelVars, planeVars, controls, observer, toolVars>>

FinishMark(h) ==
    LET s == handler[h].sid  IN
    /\ At(h, "finishMark")
    /\ \/ Complete(s) /\ NoFault
          /\ To(h, IF NoRows(CompleteVoiceAgentSession(s)) THEN "done" ELSE "finishStop")
       \/ Fault /\ UNCHANGED session /\ To(h, "lost")
    /\ UNCHANGED <<call, execution, channelVars, planeVars, controls, observer, toolVars>>

FinishStop(h) ==
    /\ At(h, "finishStop") /\ stopMediaSession(h, "done")
    /\ UNCHANGED <<storeVars, channelVars, observer, toolVars>>

-----------------------------------------------------------------------------
\* The channel and the media plane.

ChannelGone ==
    /\ up /\ HangUp
    /\ UNCHANGED <<storeVars, planeVars, runtimeVars, toolVars, faults>>

\* A terminal failure published to the control socket, if anyone holds it: the
\* worker's observer takes the event and ends the call's session.
Notified(s) == [w \in Workers |->
    IF control[s] = w /\ observer[w][s].pc = "loop"
    THEN [observer[w] EXCEPT ![s].pc = "fail"] ELSE observer[w]]

AttachAudio(s) ==
    /\ phase[s] = "waiting" /\ s \in fork
    /\ phase' = [phase EXCEPT ![s] = "attached"]
    /\ UNCHANGED <<storeVars, channelVars, control, runtimeVars, toolVars, faults>>

\* Mutant: a session somebody controls is left alone.
TimeOutUncontrolled(s) ==
    /\ phase[s] = "waiting" /\ control[s] = Nobody
    /\ phase' = Closed(s) /\ observer' = Notified(s)
    /\ UNCHANGED <<storeVars, channelVars, control, controls, handler, toolVars, faults>>

AttachTimeout(s) ==
    /\ phase[s] = "waiting"
    /\ phase' = Closed(s) /\ observer' = Notified(s)
    /\ UNCHANGED <<storeVars, channelVars, control, controls, handler, toolVars, faults>>

\* The pump ends: with the fork, or because the provider failed.
PumpEnds(s) ==
    /\ phase[s] = "attached"
    /\ \/ s \notin fork /\ NoFault /\ UNCHANGED observer
       \/ Fault /\ observer' = Notified(s)
    /\ phase' = Closed(s)
    /\ UNCHANGED <<storeVars, channelVars, control, controls, handler, toolVars>>

\* The session leaves its worker, its control socket closed.
LeavePlane(s) ==
    /\ phase[s] = "closing"
    /\ phase' = [phase EXCEPT ![s] = "absent"]
    /\ control' = [control EXCEPT ![s] = Nobody]
    /\ UNCHANGED <<storeVars, channelVars, runtimeVars, toolVars, faults>>

-----------------------------------------------------------------------------
\* observeControl.

\* failSession again, in the observer's goroutine; the loop ends with it.
ObserverFails(w, s) ==
    /\ observer[w][s].pc = "fail"
    /\ observer' = [observer EXCEPT ![w][s] =
          IF NoRows(GetActiveVoiceAgentSessionByCallID) THEN [@ EXCEPT !.pc = "close"]
          ELSE [pc |-> "mark", sid |-> CHOOSE x \in GetActiveVoiceAgentSessionByCallID : TRUE]]
    /\ UNCHANGED <<storeVars, channelVars, planeVars, controls, handler, toolVars, faults>>

ObserverMarks(w, s) ==
    /\ observer[w][s].pc = "mark"
    /\ \/ Complete(observer[w][s].sid) /\ NoFault
       \/ Fault /\ UNCHANGED session
    /\ observer' = [observer EXCEPT ![w][s].pc = "close"]
    /\ UNCHANGED <<call, execution, channelVars, planeVars, controls, handler, toolVars>>

\* The loop is over: the socket was closed, or a terminal failure came.  The
\* socket is closed and the map's entry removed if it is still there.
ObserverEnds(w, s) ==
    /\ observer[w][s].pc = "close" \/ (observer[w][s].pc = "loop" /\ control[s] # w)
    /\ controls' = [controls EXCEPT ![w] = @ \ {s}]
    /\ control' = [control EXCEPT ![s] = IF @ = w THEN Nobody ELSE @]
    /\ observer' = [observer EXCEPT ![w][s] = NoObserver]
    /\ UNCHANGED <<storeVars, channelVars, phase, handler, toolVars, faults>>

-----------------------------------------------------------------------------
\* executeRealtimeTool and Executor.Execute, in a goroutine per event.

ToolTo(g, pc) == tool' = [tool EXCEPT ![g].pc = pc]
EndTool(g) == tool' = [tool EXCEPT ![g] = [pc |-> "over", sid |-> NoSid, worker |-> Nobody]]

\* Bound: tool calls are explored once no attachment is under way.
AttachmentsOver == \A h \in Handlers :
    Deliveries[h].event = "answered" => handler[h].pc \in {"done", "lost"}

\* A tool call event of an attached session; a provider may send it twice.
ToolCall(g, s) ==
    /\ tool[g].pc = "idle" /\ phase[s] = "attached" /\ control[s] # Nobody
    /\ observer[control[s]][s].pc = "loop"
    /\ \A g2 \in ToolRuns : g2 < g => tool[g2].pc # "idle"   \* goroutines, in order
    /\ AttachmentsOver
    /\ tool' = [tool EXCEPT ![g] = [pc |-> "claim", sid |-> s, worker |-> control[s]]]
    /\ UNCHANGED <<storeVars, channelVars, planeVars, runtimeVars, posts, told, faults>>

\* The replay answers with the stored outcome, or that it is not known.
replay(s) == told' = IF GetVoiceAgentToolExecution(s) = {"succeeded"} THEN told \cup {s} ELSE told

\* The tool is resolved and claimed; no row means a replay.
Execute(g) ==
    LET s == tool[g].sid  IN
    /\ tool[g].pc = "claim"
    /\ \/ /\ \E new \in ClaimVoiceAgentToolExecution(s) :
                execution' = [execution EXCEPT ![s] = new]
          /\ NoFault /\ ToolTo(g, "run") /\ UNCHANGED told
       \/ /\ NoRows(ClaimVoiceAgentToolExecution(s)) /\ NoFault /\ UNCHANGED execution
          /\ replay(s) /\ EndTool(g)
       \/ Fault /\ EndTool(g) /\ UNCHANGED <<execution, told>>
    /\ UNCHANGED <<call, session, channelVars, planeVars, runtimeVars, posts>>

\* The request: answered with success, refused, or sent and the answer lost.
executeWebhook(g) ==
    LET s == tool[g].sid  IN
    /\ tool[g].pc = "run"
    /\ \/ NoFault /\ posts' = [posts EXCEPT ![s] = @ + 1] /\ ToolTo(g, "succeeded")
       \/ Fault /\ posts' \in {posts, [posts EXCEPT ![s] = @ + 1]} /\ ToolTo(g, "failed")
    /\ UNCHANGED <<storeVars, channelVars, planeVars, runtimeVars, told>>

\* The outcome is stored before the provider hears of it.
MarkExecution(g) ==
    LET s == tool[g].sid  IN
    /\ tool[g].pc \in {"succeeded", "failed"}
    /\ \/ /\ tool[g].pc = "succeeded" /\ NoFault /\ told' = told \cup {s}
          /\ \E new \in MarkVoiceAgentToolExecutionSucceeded(s) :
                execution' = [execution EXCEPT ![s] = new]
       \/ /\ tool[g].pc = "failed" /\ NoFault /\ UNCHANGED told
          /\ \E new \in MarkVoiceAgentToolExecutionFailed(s) :
                execution' = [execution EXCEPT ![s] = new]
       \/ Fault /\ UNCHANGED <<execution, told>>
    /\ EndTool(g)
    /\ UNCHANGED <<call, session, channelVars, planeVars, runtimeVars, posts>>

-----------------------------------------------------------------------------
\* A worker process dies: its handlers, observers, goroutines and sockets go.
Crash(w) ==
    /\ Fault
    /\ \E h \in Handlers : Worker(h) = w /\ handler[h].pc \notin {"new", "done", "lost"}
    /\ handler' = [h \in Handlers |->
          IF Worker(h) = w /\ handler[h].pc \notin {"new", "done"}
          THEN [pc |-> "lost", sid |-> NoSid] ELSE handler[h]]
    /\ observer' = [observer EXCEPT ![w] = [s \in Sids |-> NoObserver]]
    /\ control' = [s \in Sids |-> IF control[s] = w THEN Nobody ELSE control[s]]
    /\ controls' = [controls EXCEPT ![w] = {}]
    /\ tool' = [g \in ToolRuns |-> IF tool[g].worker = w
                                   THEN [pc |-> "over", sid |-> NoSid, worker |-> Nobody]
                                   ELSE tool[g]]
    /\ UNCHANGED <<storeVars, channelVars, phase, posts, told>>

HandlerStep(h) ==
    \/ HandleLifecycle(h) \/ AttachCall(h) \/ CreateSession(h) \/ RereadActive(h)
    \/ GetVariable(h) \/ createMediaSession(h) \/ registerControl(h) \/ StartAudioFork(h)
    \/ SetVariable(h) \/ StopAttached(h) \/ failSession(h)
    \/ FailMark(h) \/ HangupUnattached(h) \/ finish(h) \/ FinishMark(h) \/ FinishStop(h)
PlaneStep(s) == AttachAudio(s) \/ AttachTimeout(s) \/ PumpEnds(s) \/ LeavePlane(s)
ObserverStep(w, s) == ObserverFails(w, s) \/ ObserverMarks(w, s) \/ ObserverEnds(w, s)
ToolStep(g) == Execute(g) \/ executeWebhook(g) \/ MarkExecution(g)

Next ==
    \/ \E h \in Handlers : HandlerStep(h)
    \/ \E s \in Sids : PlaneStep(s) \/ \E w \in Workers : ObserverStep(w, s)
    \/ \E g \in ToolRuns, s \in Sids : ToolCall(g, s)
    \/ \E g \in ToolRuns : ToolStep(g)
    \/ \E w \in Workers : Crash(w)
    \/ ChannelGone

Spec == Init /\ [][Next]_vars

\* Handlers and observers run on; timers fire; a pump without a fork ends.
Fairness ==
    /\ \A h \in Handlers : WF_vars(handler[h].pc # "new" /\ HandlerStep(h))
    /\ \A s \in Sids : /\ WF_vars(AttachTimeout(s)) /\ WF_vars(LeavePlane(s))
                       /\ WF_vars(s \notin fork /\ PumpEnds(s))
                       /\ \A w \in Workers : WF_vars(ObserverStep(w, s))

FairSpec == Spec /\ Fairness

-----------------------------------------------------------------------------
\* A call that ended leaves no session behind: once a terminal event has been
\* handled to its end and no answered one is under way, no session of the call
\* is active, although attachment and end may overlap at any step
\* (CreateVoiceAgentSession, CompleteCallWithSummary).
NoSessionOutlivesCall ==
    (/\ \E h \in Handlers : Deliveries[h].event = "terminal" /\ At(h, "done")
     /\ \A h \in Handlers : handler[h].pc \in {"new", "done", "lost"})
       => GetActiveVoiceAgentSessionByCallID = {}

\* The media plane is given back: when the channel is gone, every session that
\* was made for it ends, with its control sockets and the workers' entries for
\* them, whichever step failed, crashed or was overtaken.
MediaEndsWithChannel ==
    ~up ~> \A s \in Sids : /\ phase[s] = "absent" /\ control[s] = Nobody
                           /\ \A w \in Workers : s \notin controls[w]

\* A tool call reaches its endpoint at most once, however often the provider
\* sends the event, and an answer of success is given only for a call that the
\* endpoint got (Executor.Execute).
ToolRunsOnce ==
    \A s \in Sids : posts[s] <= 1 /\ (s \in told => posts[s] = 1)
=============================================================================
