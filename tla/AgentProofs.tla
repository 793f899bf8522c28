---------------------------- MODULE AgentProofs -----------------------------
(***************************************************************************)
(* The voice agent of a call, for any number of workers, event deliveries, *)
(* tool call events and faults.                                            *)
(*                                                                         *)
(* No session outlives its call.  Three facts carry the argument: the      *)
(* database has one active session at a time and makes none once the call  *)
(* ended, a terminal event is handled after the call ended, and what its   *)
(* handler is about to complete is the only session that may be active.    *)
(*                                                                         *)
(* A tool call reaches its endpoint once.  The claim is never given back:  *)
(* whoever is past it is alone, and a request that was sent leaves a       *)
(* record that no later claim gets past, also when its outcome was lost.   *)
(***************************************************************************)
EXTENDS AgentRuntime, TLAPS

HandlerPcs == {"new", "attach", "create", "reread", "variable", "media", "control", "fork", "set", "stop",
               "fail", "failMark", "hangup", "finish", "finishMark", "finishStop", "done", "lost"}
HandlerRecs == [pc : HandlerPcs, sid : Sids \cup {NoSid}]
Terminal(h) == Deliveries[h].event = "terminal"
TerminalPcs == {"new", "finish", "finishMark", "finishStop", "done", "lost"}

SessionTypes ==
    /\ call \in {"answered", "ended"}
    /\ session \in [Sids -> {"none", "active", "ended"}]
    /\ handler \in [Handlers -> HandlerRecs]

\* The unique index.
OneActive == \A s, t \in Sids : session[s] = "active" /\ session[t] = "active" => s = t

\* The handlers of terminal events run their own steps, after the call ended.
TerminalFollowsEnd ==
    \A h \in Handlers : Terminal(h) =>
       /\ handler[h].pc \in TerminalPcs
       /\ handler[h].pc # "new" => call = "ended"

\* What such a handler read is what there is to complete, and then there is nothing.
FinishSeesAll ==
    \A h \in Handlers : Terminal(h) =>
       \A s \in Sids : session[s] = "active" =>
          /\ handler[h].pc = "finishMark" => handler[h].sid = s
          /\ handler[h].pc \notin {"finishStop", "done"}

SessionInv == SessionTypes /\ OneActive /\ TerminalFollowsEnd /\ FinishSeesAll

\* A handler moves and the others stay.
HandlerMoves(h) ==
    /\ handler' \in [Handlers -> HandlerRecs]
    /\ \A x \in Handlers \ {h} : handler'[x] = handler[x]

SessionsOnlyEnd ==
    /\ session' \in [Sids -> {"none", "active", "ended"}]
    /\ \A s \in Sids : session'[s] = "active" => session[s] = "active"

-----------------------------------------------------------------------------
\* The steps of the handlers.

LEMMA ToMoves ==
    ASSUME SessionTypes, NEW h \in Handlers, NEW pc \in HandlerPcs, To(h, pc)
    PROVE  HandlerMoves(h) /\ handler'[h].pc = pc
BY DEF SessionTypes, To, HandlerMoves, HandlerRecs

LEMMA WithMoves ==
    ASSUME SessionTypes, NEW h \in Handlers, NEW pc \in HandlerPcs, NEW s \in Sids \cup {NoSid}, With(h, pc, s)
    PROVE  HandlerMoves(h) /\ handler'[h] = [pc |-> pc, sid |-> s]
BY DEF SessionTypes, With, HandlerMoves, HandlerRecs

\* A handler of an answered event may do anything but make a session active.
LEMMA AnsweredKeeps ==
    ASSUME SessionInv, NEW h \in Handlers, handler[h].pc \notin TerminalPcs \/ ~Terminal(h),
           HandlerMoves(h), SessionsOnlyEnd, call' = call
    PROVE  SessionInv'
<1>1. ~Terminal(h)
  BY DEF SessionInv, TerminalFollowsEnd
<1>2. SessionTypes'
  BY DEF SessionInv, SessionTypes, HandlerMoves, SessionsOnlyEnd
<1>3. OneActive'
  BY DEF SessionInv, OneActive, SessionsOnlyEnd
<1>4. TerminalFollowsEnd'
  BY <1>1 DEF SessionInv, TerminalFollowsEnd, HandlerMoves, Terminal
<1>5. FinishSeesAll'
  BY <1>1 DEF SessionInv, FinishSeesAll, HandlerMoves, SessionsOnlyEnd, Terminal
<1> QED BY <1>2, <1>3, <1>4, <1>5 DEF SessionInv

\* One of a terminal event, when it says only what it saw.
LEMMA TerminalKeeps ==
    ASSUME SessionInv, NEW h \in Handlers, HandlerMoves(h), SessionsOnlyEnd,
           call' = "ended", handler'[h].pc \in TerminalPcs,
           \A s \in Sids : session'[s] = "active" =>
              /\ handler'[h].pc = "finishMark" => handler'[h].sid = s
              /\ handler'[h].pc \notin {"finishStop", "done"}
    PROVE  SessionInv'
<1>1. SessionTypes'
  BY DEF SessionInv, SessionTypes, HandlerMoves, SessionsOnlyEnd
<1>2. OneActive'
  BY DEF SessionInv, OneActive, SessionsOnlyEnd
<1>3. TerminalFollowsEnd'
  BY DEF SessionInv, TerminalFollowsEnd, HandlerMoves, Terminal
<1>4. FinishSeesAll'
  BY DEF SessionInv, FinishSeesAll, HandlerMoves, SessionsOnlyEnd, Terminal
<1> QED BY <1>1, <1>2, <1>3, <1>4 DEF SessionInv

LEMMA SessionStays ==
    ASSUME SessionInv, UNCHANGED session
    PROVE  SessionsOnlyEnd
BY DEF SessionInv, SessionTypes, SessionsOnlyEnd

LEMMA CompleteEnds ==
    ASSUME SessionInv, NEW s, Complete(s)
    PROVE  SessionsOnlyEnd /\ (s \in Sids => session'[s] # "active")
BY DEF Complete, CompleteVoiceAgentSession, Returning, NoRows, SessionInv, SessionTypes, SessionsOnlyEnd

LEMMA HandleLifecycleKeeps ==
    ASSUME SessionInv, NEW h \in Handlers, HandleLifecycle(h)
    PROVE  SessionInv'
<1>1. SessionsOnlyEnd
  BY SessionStays DEF HandleLifecycle
<1>2. CASE ~Terminal(h)
  <2>1. With(h, "attach", NoSid) /\ call' = call
    BY <1>2 DEF HandleLifecycle, Terminal
  <2>2. HandlerMoves(h)
    BY <2>1, WithMoves DEF SessionInv, HandlerPcs
  <2> QED BY <1>1, <1>2, <2>1, <2>2, AnsweredKeeps
<1>3. CASE Terminal(h)
  <2>1. With(h, "finish", NoSid) /\ call' = "ended"
    BY <1>3 DEF HandleLifecycle, Terminal
  <2>2. HandlerMoves(h) /\ handler'[h] = [pc |-> "finish", sid |-> NoSid]
    BY <2>1, WithMoves DEF SessionInv, HandlerPcs
  <2> QED BY <1>1, <2>1, <2>2, TerminalKeeps DEF TerminalPcs
<1> QED BY <1>2, <1>3

LEMMA AttachCallKeeps ==
    ASSUME SessionInv, NEW h \in Handlers, AttachCall(h)
    PROVE  SessionInv'
<1>1. \/ \E s \in Sids : With(h, "variable", s)
      \/ To(h, "done") \/ To(h, "create") \/ To(h, "hangup")
  BY DEF AttachCall, GetActiveVoiceAgentSessionByCallID
<1>2. HandlerMoves(h)
  BY <1>1, ToMoves, WithMoves DEF SessionInv, HandlerPcs
<1> QED BY <1>2, AnsweredKeeps, SessionStays DEF AttachCall, storeVars, At, TerminalPcs

\* The INSERT is refused once the call ended, and while a session is active.
LEMMA CreateSessionKeeps ==
    ASSUME SessionInv, NEW h \in Handlers, CreateSession(h)
    PROVE  SessionInv'
<1>1. handler[h].pc = "create" /\ call' = call
  BY DEF CreateSession, At
<1>2. CASE UNCHANGED session /\ (To(h, "hangup") \/ To(h, "reread"))
  <2>1. HandlerMoves(h)
    BY <1>2, ToMoves DEF SessionInv, HandlerPcs
  <2> QED BY <1>1, <1>2, <2>1, AnsweredKeeps, SessionStays DEF TerminalPcs
<1>3. ASSUME NEW s \in Sids, ~ActiveConflict, call = "answered",
             session' = [session EXCEPT ![s] = "active"], With(h, "variable", s)
      PROVE  SessionInv'
  <2>1. HandlerMoves(h)
    BY <1>3, WithMoves DEF SessionInv, HandlerPcs
  <2>2. \A t \in Sids : session'[t] = "active" => t = s
    BY <1>3 DEF ActiveConflict, GetActiveVoiceAgentSessionByCallID, SessionInv, SessionTypes
  <2>3. SessionTypes'
    BY <1>1, <1>3, <2>1 DEF SessionInv, SessionTypes, HandlerMoves
  <2>4. OneActive'
    BY <2>2 DEF OneActive
  <2>5. ~Terminal(h) /\ \A x \in Handlers : Terminal(x) => handler[x].pc = "new" /\ x # h
    BY <1>1, <1>3 DEF SessionInv, TerminalFollowsEnd, TerminalPcs
  <2>6. TerminalFollowsEnd'
    BY <1>1, <2>1, <2>5 DEF SessionInv, TerminalFollowsEnd, HandlerMoves, Terminal
  <2>7. FinishSeesAll'
    BY <2>1, <2>5 DEF FinishSeesAll, HandlerMoves, Terminal
  <2> QED BY <2>3, <2>4, <2>6, <2>7 DEF SessionInv
<1> QED
  <2>1. \/ UNCHANGED session /\ (To(h, "hangup") \/ To(h, "reread"))
        \/ \E s \in Sids : /\ ~ActiveConflict /\ call = "answered"
                           /\ session' = [session EXCEPT ![s] = "active"] /\ With(h, "variable", s)
    BY DEF CreateSession, FreshSid, CreateVoiceAgentSession, Returning, NoRows
  <2> QED BY <1>2, <1>3, <2>1

LEMMA RereadActiveKeeps ==
    ASSUME SessionInv, NEW h \in Handlers, RereadActive(h)
    PROVE  SessionInv'
<1>1. (\E s \in Sids : With(h, "variable", s)) \/ To(h, "hangup")
  BY DEF RereadActive, GetActiveVoiceAgentSessionByCallID
<1>2. HandlerMoves(h)
  BY <1>1, ToMoves, WithMoves DEF SessionInv, HandlerPcs
<1> QED BY <1>2, AnsweredKeeps, SessionStays DEF RereadActive, storeVars, At, TerminalPcs

\* The steps on the channel and the media plane.
MediaWork(h) ==
    \/ GetVariable(h) \/ createMediaSession(h) \/ registerControl(h) \/ StartAudioFork(h)
    \/ SetVariable(h) \/ StopAttached(h) \/ HangupUnattached(h)

LEMMA MediaWorkKeeps ==
    ASSUME SessionInv, NEW h \in Handlers, MediaWork(h)
    PROVE  SessionInv'
<1>1. /\ handler[h].pc \notin TerminalPcs
      /\ \E pc \in {"media", "control", "fork", "set", "stop", "fail", "hangup", "done"} : To(h, pc)
      /\ call' = call /\ session' = session
  <2>1. CASE GetVariable(h)
    BY <2>1 DEF GetVariable, storeVars, At, TerminalPcs
  <2>2. CASE createMediaSession(h)
    BY <2>2 DEF createMediaSession, storeVars, At, TerminalPcs
  <2>3. CASE registerControl(h)
    BY <2>3 DEF registerControl, storeVars, At, TerminalPcs
  <2>4. CASE StartAudioFork(h)
    BY <2>4 DEF StartAudioFork, storeVars, At, TerminalPcs
  <2>5. CASE SetVariable(h)
    BY <2>5 DEF SetVariable, storeVars, At, TerminalPcs
  <2>6. CASE StopAttached(h)
    BY <2>6 DEF StopAttached, stopMediaSession, storeVars, At, TerminalPcs
  <2>7. CASE HangupUnattached(h)
    BY <2>7 DEF HangupUnattached, storeVars, At, TerminalPcs
  <2> QED BY <2>1, <2>2, <2>3, <2>4, <2>5, <2>6, <2>7 DEF MediaWork
<1>2. HandlerMoves(h)
  BY <1>1, ToMoves DEF SessionInv, HandlerPcs
<1> QED BY <1>1, <1>2, AnsweredKeeps, SessionStays

LEMMA FailKeeps ==
    ASSUME SessionInv, NEW h \in Handlers, failSession(h) \/ FailMark(h)
    PROVE  SessionInv'
<1>1. CASE failSession(h)
  <2>1. (\E s \in Sids : With(h, "failMark", s)) \/ To(h, "hangup")
    BY <1>1 DEF failSession, GetActiveVoiceAgentSessionByCallID
  <2>2. HandlerMoves(h)
    BY <2>1, ToMoves, WithMoves DEF SessionInv, HandlerPcs
  <2> QED BY <1>1, <2>2, AnsweredKeeps, SessionStays DEF failSession, storeVars, At, TerminalPcs
<1>2. CASE FailMark(h)
  <2>1. HandlerMoves(h)
    BY <1>2, ToMoves DEF FailMark, SessionInv, HandlerPcs
  <2>2. SessionsOnlyEnd
    BY <1>2, CompleteEnds, SessionStays DEF FailMark
  <2> QED BY <1>2, <2>1, <2>2, AnsweredKeeps DEF FailMark, At, TerminalPcs
<1> QED BY <1>1, <1>2

\* The end of the call.
LEMMA finishKeeps ==
    ASSUME SessionInv, NEW h \in Handlers, Terminal(h), finish(h)
    PROVE  SessionInv'
<1>1. call = "ended" /\ call' = "ended" /\ session' = session
  BY DEF finish, At, storeVars, SessionInv, TerminalFollowsEnd
<1>2. SessionsOnlyEnd
  BY <1>1, SessionStays
<1>3. ASSUME NEW s \in Sids, session[s] = "active", With(h, "finishMark", s)
      PROVE  SessionInv'
  <2>1. HandlerMoves(h) /\ handler'[h] = [pc |-> "finishMark", sid |-> s]
    BY <1>3, WithMoves DEF SessionInv, HandlerPcs
  <2> QED BY <1>1, <1>2, <1>3, <2>1, TerminalKeeps DEF SessionInv, OneActive, TerminalPcs
<1>4. CASE GetActiveVoiceAgentSessionByCallID = {} /\ To(h, "done")
  <2>1. HandlerMoves(h) /\ handler'[h].pc = "done"
    BY <1>4, ToMoves DEF SessionInv, HandlerPcs
  <2>2. \A s \in Sids : session'[s] # "active"
    BY <1>1, <1>4 DEF GetActiveVoiceAgentSessionByCallID
  <2> QED BY <1>1, <1>2, <2>1, <2>2, TerminalKeeps DEF TerminalPcs
<1>5. CASE To(h, "lost")
  <2>1. HandlerMoves(h) /\ handler'[h].pc = "lost"
    BY <1>5, ToMoves DEF SessionInv, HandlerPcs
  <2> QED BY <1>1, <1>2, <2>1, TerminalKeeps DEF TerminalPcs
<1> QED BY <1>3, <1>4, <1>5 DEF finish, GetActiveVoiceAgentSessionByCallID, NoRows

LEMMA FinishMarkKeeps ==
    ASSUME SessionInv, NEW h \in Handlers, Terminal(h), FinishMark(h)
    PROVE  SessionInv'
<1>1. call = "ended" /\ call' = "ended" /\ handler[h].pc = "finishMark"
  BY DEF FinishMark, At, SessionInv, TerminalFollowsEnd
<1>2. CASE Complete(handler[h].sid) /\ (To(h, "done") \/ To(h, "finishStop"))
  <2>1. SessionsOnlyEnd /\ \A s \in Sids : session'[s] # "active"
    BY <1>1, <1>2, CompleteEnds DEF SessionInv, FinishSeesAll, SessionsOnlyEnd
  <2>2. HandlerMoves(h) /\ handler'[h].pc \in {"done", "finishStop"}
    BY <1>2, ToMoves DEF SessionInv, HandlerPcs
  <2> QED BY <1>1, <2>1, <2>2, TerminalKeeps DEF TerminalPcs
<1>3. CASE UNCHANGED session /\ To(h, "lost")
  <2>1. HandlerMoves(h) /\ handler'[h].pc = "lost"
    BY <1>3, ToMoves DEF SessionInv, HandlerPcs
  <2> QED BY <1>1, <1>3, <2>1, SessionStays, TerminalKeeps DEF TerminalPcs
<1> QED BY <1>2, <1>3 DEF FinishMark

LEMMA FinishStopKeeps ==
    ASSUME SessionInv, NEW h \in Handlers, Terminal(h), FinishStop(h)
    PROVE  SessionInv'
<1>1. /\ handler[h].pc = "finishStop" /\ To(h, "done")
      /\ call = "ended" /\ call' = "ended" /\ session' = session
  BY DEF FinishStop, stopMediaSession, At, storeVars, SessionInv, TerminalFollowsEnd
<1>2. HandlerMoves(h) /\ handler'[h].pc = "done"
  BY <1>1, ToMoves DEF SessionInv, HandlerPcs
<1> QED BY <1>1, <1>2, SessionStays, TerminalKeeps DEF SessionInv, FinishSeesAll, TerminalPcs

\* An answered event's handler never gets here, but it would do no harm.
LEMMA StrayFinishKeeps ==
    ASSUME SessionInv, NEW h \in Handlers, ~Terminal(h), finish(h) \/ FinishMark(h) \/ FinishStop(h)
    PROVE  SessionInv'
<1>1. CASE finish(h)
  <2>1. (\E s \in Sids : With(h, "finishMark", s)) \/ To(h, "done") \/ To(h, "lost")
    BY <1>1 DEF finish, GetActiveVoiceAgentSessionByCallID
  <2>2. HandlerMoves(h)
    BY <2>1, ToMoves, WithMoves DEF SessionInv, HandlerPcs
  <2> QED BY <1>1, <2>2, AnsweredKeeps, SessionStays DEF finish, storeVars
<1>2. CASE FinishMark(h)
  <2>1. To(h, "done") \/ To(h, "finishStop") \/ To(h, "lost")
    BY <1>2 DEF FinishMark
  <2>2. HandlerMoves(h)
    BY <2>1, ToMoves DEF SessionInv, HandlerPcs
  <2>3. SessionsOnlyEnd
    BY <1>2, CompleteEnds, SessionStays DEF FinishMark
  <2> QED BY <1>2, <2>2, <2>3, AnsweredKeeps DEF FinishMark
<1>3. CASE FinishStop(h)
  <2>1. HandlerMoves(h)
    BY <1>3, ToMoves DEF FinishStop, stopMediaSession, SessionInv, HandlerPcs
  <2> QED BY <1>3, <2>1, AnsweredKeeps, SessionStays DEF FinishStop, storeVars
<1> QED BY <1>1, <1>2, <1>3

LEMMA HandlerStepKeeps ==
    ASSUME SessionInv, NEW h \in Handlers, HandlerStep(h)
    PROVE  SessionInv'
BY HandleLifecycleKeeps, AttachCallKeeps, CreateSessionKeeps, RereadActiveKeeps, MediaWorkKeeps, FailKeeps,
   finishKeeps, FinishMarkKeeps, FinishStopKeeps, StrayFinishKeeps DEF HandlerStep, MediaWork

\* Everybody else: sessions may end, and handlers may be lost.
LEMMA OthersKeep ==
    ASSUME SessionInv, SessionsOnlyEnd, call' = call, DOMAIN handler' = Handlers,
           \A h \in Handlers : handler'[h] \in {handler[h], [pc |-> "lost", sid |-> NoSid]},
           handler' = [h \in Handlers |-> handler'[h]],
           \A h \in Handlers : handler[h].pc = "new" => handler'[h] = handler[h]
    PROVE  SessionInv'
<1>1. SessionTypes'
  BY DEF SessionInv, SessionTypes, SessionsOnlyEnd, HandlerRecs, HandlerPcs
<1>2. OneActive'
  BY DEF SessionInv, OneActive, SessionsOnlyEnd
<1>3. TerminalFollowsEnd'
  BY DEF SessionInv, TerminalFollowsEnd, Terminal, TerminalPcs
<1>4. FinishSeesAll'
  BY DEF SessionInv, FinishSeesAll, SessionsOnlyEnd, Terminal
<1> QED BY <1>1, <1>2, <1>3, <1>4 DEF SessionInv

LEMMA RestKeeps ==
    ASSUME SessionInv, SessionsOnlyEnd, call' = call, handler' = handler
    PROVE  SessionInv'
BY OthersKeep DEF SessionInv, SessionTypes

LEMMA SessionStep ==
    ASSUME SessionInv, [Next]_vars
    PROVE  SessionInv'
<1>1. ASSUME NEW h \in Handlers, HandlerStep(h)
      PROVE  SessionInv'
  BY <1>1, HandlerStepKeeps
<1>2. ASSUME NEW s \in Sids, PlaneStep(s)
      PROVE  SessionInv'
  BY <1>2, RestKeeps, SessionStays
     DEF PlaneStep, AttachAudio, AttachTimeout, PumpEnds, LeavePlane, storeVars, runtimeVars
<1>3. ASSUME NEW s \in Sids, NEW w \in Workers, ObserverStep(w, s)
      PROVE  SessionInv'
  <2>1. SessionsOnlyEnd /\ call' = call /\ handler' = handler
    <3>1. CASE ObserverMarks(w, s)
      BY <3>1, CompleteEnds, SessionStays DEF ObserverMarks
    <3> QED BY <1>3, <3>1, SessionStays DEF ObserverStep, ObserverFails, ObserverEnds, storeVars
  <2> QED BY <2>1, RestKeeps
<1>4. ASSUME NEW g \in ToolRuns, ToolStep(g) \/ \E s \in Sids : ToolCall(g, s)
      PROVE  SessionInv'
  BY <1>4, RestKeeps, SessionStays
     DEF ToolStep, ToolCall, Execute, executeWebhook, MarkExecution, storeVars, runtimeVars
<1>5. ASSUME NEW w \in Workers, Crash(w)
      PROVE  SessionInv'
  BY <1>5, OthersKeep, SessionStays DEF Crash, storeVars
<1>6. CASE ChannelGone \/ UNCHANGED vars
  BY <1>6, RestKeeps, SessionStays DEF ChannelGone, vars, storeVars, runtimeVars
<1> QED BY <1>1, <1>2, <1>3, <1>4, <1>5, <1>6 DEF Next

\* When a terminal event has been handled to its end and no answered one is
\* under way, no session of the call is active, wherever attachments, failures,
\* completions and crashes of any number of workers met it
\* (CreateVoiceAgentSession, CompleteCallWithSummary, finish).
THEOREM SessionsEndWithCall == Spec => []NoSessionOutlivesCall
<1>1. Init => SessionInv
  BY DEF Init, StoreInit, SessionInv, SessionTypes, OneActive, TerminalFollowsEnd, FinishSeesAll,
         HandlerRecs, HandlerPcs, TerminalPcs
<1>2. SessionInv /\ [Next]_vars => SessionInv'
  BY SessionStep
<1>3. SessionInv => NoSessionOutlivesCall
  BY DEF SessionInv, FinishSeesAll, NoSessionOutlivesCall, At, Terminal, GetActiveVoiceAgentSessionByCallID
<1> QED BY <1>1, <1>2, <1>3, PTL DEF Spec

-----------------------------------------------------------------------------
\* Tool calls.

ToolPcs == {"idle", "claim", "run", "succeeded", "failed", "over"}
ToolRecs == [pc : ToolPcs, sid : Sids \cup {NoSid}, worker : Workers \cup {Nobody}]

ToolTypes ==
    /\ control \in [Sids -> Workers \cup {Nobody}]
    /\ execution \in [Sids -> {"none", "processing", "succeeded", "failed"}]
    /\ tool \in [ToolRuns -> ToolRecs]
    /\ posts \in [Sids -> Nat] /\ told \subseteq Sids

\* A goroutine past its claim, which it shares with no other one of its session.
Claimed(g) == tool[g].pc \in {"run", "succeeded", "failed"}
ClaimsAreExclusive ==
    /\ \A g \in ToolRuns : tool[g].pc = "claim" \/ Claimed(g) => tool[g].sid \in Sids
    /\ \A g \in ToolRuns : Claimed(g) => execution[tool[g].sid] = "processing"
    /\ \A g, k \in ToolRuns : Claimed(g) /\ Claimed(k) /\ tool[g].sid = tool[k].sid => g = k

\* A request is sent under a claim that is not used again.
PostsAreClaimed ==
    \A s \in Sids : posts[s] # 0 =>
       /\ posts[s] = 1 /\ execution[s] # "none"
       /\ \A g \in ToolRuns : ~(tool[g].pc = "run" /\ tool[g].sid = s)

\* A success is one the endpoint has answered.
SuccessIsPosted ==
    /\ \A g \in ToolRuns : tool[g].pc = "succeeded" => posts[tool[g].sid] = 1
    /\ \A s \in Sids : s \in told \/ execution[s] = "succeeded" => posts[s] = 1

ToolInv == ToolTypes /\ ClaimsAreExclusive /\ PostsAreClaimed /\ SuccessIsPosted

ToolMoves(g) ==
    /\ tool' \in [ToolRuns -> ToolRecs]
    /\ \A x \in ToolRuns \ {g} : tool'[x] = tool[x]

LEMMA ToolMoved ==
    ASSUME ToolInv, NEW g \in ToolRuns
    PROVE  /\ \A pc \in ToolPcs : ToolTo(g, pc) =>
                 ToolMoves(g) /\ tool'[g].pc = pc /\ tool'[g].sid = tool[g].sid
           /\ EndTool(g) => ToolMoves(g) /\ tool'[g].pc = "over"
BY DEF ToolInv, ToolTypes, ToolTo, EndTool, ToolMoves, ToolRecs, ToolPcs

\* Nothing of the tool calls changes but who is reachable.
LEMMA ToolsStay ==
    ASSUME ToolInv, UNCHANGED <<execution, toolVars>>, control' \in [Sids -> Workers \cup {Nobody}]
    PROVE  ToolInv'
<1>1. execution' = execution /\ tool' = tool /\ posts' = posts /\ told' = told
  BY DEF toolVars
<1>2. ToolTypes'
  BY <1>1 DEF ToolInv, ToolTypes
<1>3. ClaimsAreExclusive'
  BY <1>1 DEF ToolInv, ClaimsAreExclusive, Claimed
<1>4. PostsAreClaimed'
  BY <1>1 DEF ToolInv, PostsAreClaimed
<1>5. SuccessIsPosted'
  BY <1>1 DEF ToolInv, SuccessIsPosted
<1> QED BY <1>2, <1>3, <1>4, <1>5 DEF ToolInv

LEMMA ToolCallKeeps ==
    ASSUME ToolInv, NEW g \in ToolRuns, NEW s \in Sids, ToolCall(g, s)
    PROVE  ToolInv'
<1>1. /\ tool' = [tool EXCEPT ![g] = [pc |-> "claim", sid |-> s, worker |-> control[s]]]
      /\ execution' = execution /\ posts' = posts /\ told' = told /\ control' = control
  BY DEF ToolCall, storeVars, planeVars
<1>2. ToolMoves(g) /\ tool'[g].pc = "claim" /\ tool'[g].sid = s
  BY <1>1 DEF ToolInv, ToolTypes, ToolMoves, ToolRecs, ToolPcs
<1>3. ToolTypes'
  BY <1>1, <1>2 DEF ToolInv, ToolTypes, ToolMoves
<1>4. ClaimsAreExclusive'
  BY <1>1, <1>2 DEF ToolInv, ClaimsAreExclusive, Claimed, ToolMoves
<1>5. PostsAreClaimed'
  BY <1>1, <1>2 DEF ToolInv, PostsAreClaimed, ToolMoves
<1>6. SuccessIsPosted'
  BY <1>1, <1>2 DEF ToolInv, SuccessIsPosted, ToolMoves
<1> QED BY <1>3, <1>4, <1>5, <1>6 DEF ToolInv

\* A goroutine ends, having changed nothing but what it tells of a success.
LEMMA ToolEndsKeeps ==
    ASSUME ToolInv, NEW g \in ToolRuns, EndTool(g), UNCHANGED <<execution, posts, control>>,
           told' \subseteq Sids, \A s \in told' : s \in told \/ execution[s] = "succeeded"
    PROVE  ToolInv'
<1>1. ToolMoves(g) /\ tool'[g].pc = "over"
  BY ToolMoved
<1>2. ToolTypes'
  BY <1>1 DEF ToolInv, ToolTypes, ToolMoves
<1>3. ClaimsAreExclusive'
  BY <1>1 DEF ToolInv, ClaimsAreExclusive, Claimed, ToolMoves
<1>4. PostsAreClaimed'
  BY <1>1 DEF ToolInv, PostsAreClaimed, ToolMoves
<1>5. SuccessIsPosted'
  BY <1>1 DEF ToolInv, SuccessIsPosted, ToolMoves
<1> QED BY <1>2, <1>3, <1>4, <1>5 DEF ToolInv

\* The claim finds no record, so nobody has claimed or sent before.
LEMMA ExecuteKeeps ==
    ASSUME ToolInv, NEW g \in ToolRuns, Execute(g)
    PROVE  ToolInv'
<1> DEFINE s == tool[g].sid
<1>1. /\ tool[g].pc = "claim" /\ s \in Sids
      /\ posts' = posts /\ control' = control
  BY DEF Execute, planeVars, ToolInv, ClaimsAreExclusive
<1>2. CASE /\ execution[s] = "none" /\ execution' = [execution EXCEPT ![s] = "processing"]
           /\ ToolTo(g, "run") /\ told' = told
  <2>1. ToolMoves(g) /\ tool'[g].pc = "run" /\ tool'[g].sid = s
    BY <1>2, ToolMoved DEF ToolPcs
  <2>2. execution'[s] = "processing" /\ \A x \in Sids \ {s} : execution'[x] = execution[x]
    BY <1>1, <1>2 DEF ToolInv, ToolTypes
  <2>3. posts[s] = 0 /\ \A x \in ToolRuns : Claimed(x) => tool[x].sid # s
    BY <1>1, <1>2 DEF ToolInv, PostsAreClaimed, ClaimsAreExclusive
  <2>4. ToolTypes'
    BY <1>1, <1>2, <2>1 DEF ToolInv, ToolTypes, ToolMoves
  <2> HIDE DEF s
  <2>5. ClaimsAreExclusive'
    BY <1>1, <2>1, <2>2, <2>3 DEF ToolInv, ClaimsAreExclusive, Claimed, ToolMoves
  <2>6. PostsAreClaimed'
    BY <1>1, <2>1, <2>2, <2>3 DEF ToolInv, PostsAreClaimed, ToolMoves
  <2>7. SuccessIsPosted'
    BY <1>1, <1>2, <2>1, <2>2 DEF ToolInv, SuccessIsPosted, ToolMoves
  <2> QED BY <2>4, <2>5, <2>6, <2>7 DEF ToolInv
<1>3. CASE /\ EndTool(g) /\ execution' = execution
           /\ told' = told \/ (told' = told \cup {s} /\ execution[s] = "succeeded")
  BY <1>1, <1>3, ToolEndsKeeps DEF ToolInv, ToolTypes
<1> QED
  BY <1>2, <1>3 DEF Execute, ClaimVoiceAgentToolExecution, replay, GetVoiceAgentToolExecution, Returning, NoRows

LEMMA executeWebhookKeeps ==
    ASSUME ToolInv, NEW g \in ToolRuns, executeWebhook(g)
    PROVE  ToolInv'
<1> DEFINE s == tool[g].sid
<1>1. /\ tool[g].pc = "run" /\ s \in Sids
      /\ execution' = execution /\ told' = told /\ control' = control
  BY DEF executeWebhook, storeVars, planeVars, ToolInv, ClaimsAreExclusive, Claimed
<1>2. execution[s] = "processing" /\ posts[s] = 0
  BY <1>1 DEF ToolInv, ClaimsAreExclusive, Claimed, PostsAreClaimed
<1>3. /\ ToolMoves(g) /\ tool'[g].pc \in {"succeeded", "failed"} /\ tool'[g].sid = s
      /\ posts' \in {posts, [posts EXCEPT ![s] = @ + 1]}
      /\ tool'[g].pc = "succeeded" => posts' = [posts EXCEPT ![s] = @ + 1]
  BY ToolMoved DEF executeWebhook, ToolPcs
<1>4. /\ posts' \in [Sids -> Nat] /\ posts'[s] \in {0, 1}
      /\ \A x \in Sids \ {s} : posts'[x] = posts[x]
      /\ tool'[g].pc = "succeeded" => posts'[s] = 1
  BY <1>1, <1>2, <1>3 DEF ToolInv, ToolTypes
<1>5. \A x \in ToolRuns \ {g} : Claimed(x) => tool[x].sid # s
  BY <1>1 DEF ToolInv, ClaimsAreExclusive, Claimed
<1> HIDE DEF s
<1>6. ToolTypes'
  BY <1>1, <1>3, <1>4 DEF ToolInv, ToolTypes, ToolMoves
<1>7. ClaimsAreExclusive'
  BY <1>1, <1>2, <1>3, <1>5 DEF ToolInv, ClaimsAreExclusive, Claimed, ToolMoves
<1>8. PostsAreClaimed'
  BY <1>1, <1>2, <1>3, <1>4, <1>5 DEF ToolInv, PostsAreClaimed, Claimed, ToolMoves
<1>9. SuccessIsPosted'
  <2>1. \A x \in ToolRuns : tool'[x].pc = "succeeded" => posts'[tool'[x].sid] = 1
    BY <1>3, <1>4, <1>5 DEF ToolInv, SuccessIsPosted, ClaimsAreExclusive, Claimed, ToolMoves
  <2>2. s \notin told /\ execution[s] # "succeeded"
    BY <1>1, <1>2 DEF ToolInv, SuccessIsPosted
  <2> QED BY <1>1, <1>4, <2>1, <2>2 DEF ToolInv, SuccessIsPosted
<1> QED BY <1>6, <1>7, <1>8, <1>9 DEF ToolInv

LEMMA MarkExecutionKeeps ==
    ASSUME ToolInv, NEW g \in ToolRuns, MarkExecution(g)
    PROVE  ToolInv'
<1> DEFINE s == tool[g].sid
<1>1. /\ tool[g].pc \in {"succeeded", "failed"} /\ s \in Sids /\ Claimed(g)
      /\ posts' = posts /\ control' = control /\ EndTool(g)
  BY DEF MarkExecution, planeVars, ToolInv, ClaimsAreExclusive, Claimed
<1>2. CASE \/ /\ tool[g].pc = "succeeded" /\ told' = told \cup {s}
              /\ execution' = [execution EXCEPT ![s] = "succeeded"]
           \/ told' = told /\ execution' = [execution EXCEPT ![s] = "failed"]
  <2>1. ToolMoves(g) /\ tool'[g].pc = "over"
    BY <1>1, ToolMoved
  <2>2. \A x \in ToolRuns \ {g} : Claimed(x) => tool[x].sid # s
    BY <1>1 DEF ToolInv, ClaimsAreExclusive
  <2>3. /\ execution' \in [Sids -> {"none", "processing", "succeeded", "failed"}]
        /\ execution'[s] # "none" /\ \A x \in Sids \ {s} : execution'[x] = execution[x]
        /\ execution'[s] = "succeeded" \/ s \in told' \ told => posts[s] = 1
    BY <1>1, <1>2 DEF ToolInv, ToolTypes, SuccessIsPosted
  <2>4. told' \subseteq told \cup {s} /\ told' \subseteq Sids
    BY <1>1, <1>2 DEF ToolInv, ToolTypes
  <2> HIDE DEF s
  <2>5. ToolTypes'
    BY <1>1, <2>1, <2>3, <2>4 DEF ToolInv, ToolTypes, ToolMoves
  <2>6. ClaimsAreExclusive'
    BY <1>1, <2>1, <2>2, <2>3 DEF ToolInv, ClaimsAreExclusive, Claimed, ToolMoves
  <2>7. PostsAreClaimed'
    BY <1>1, <2>1, <2>3 DEF ToolInv, PostsAreClaimed, ToolMoves
  <2>8. SuccessIsPosted'
    BY <1>1, <2>1, <2>3, <2>4 DEF ToolInv, SuccessIsPosted, ToolMoves
  <2> QED BY <2>5, <2>6, <2>7, <2>8 DEF ToolInv
<1>3. CASE execution' = execution /\ told' = told
  BY <1>1, <1>3, ToolEndsKeeps DEF ToolInv, ToolTypes
<1> QED
  BY <1>2, <1>3 DEF MarkExecution, MarkVoiceAgentToolExecutionSucceeded, MarkVoiceAgentToolExecutionFailed,
       Returning

\* A crash takes goroutines with it; their claims stay in the table.
LEMMA CrashKeepsTools ==
    ASSUME ToolInv, NEW w \in Workers, Crash(w)
    PROVE  ToolInv'
<1>1. execution' = execution /\ posts' = posts /\ told' = told
  BY DEF Crash, storeVars
<1>2. /\ tool' \in [ToolRuns -> ToolRecs]
      /\ \A g \in ToolRuns : tool'[g] = tool[g] \/ tool'[g].pc = "over"
  BY DEF Crash, ToolInv, ToolTypes, ToolRecs, ToolPcs
<1>3. ToolTypes'
  BY <1>1, <1>2 DEF Crash, ToolInv, ToolTypes
<1>4. ClaimsAreExclusive'
  BY <1>1, <1>2 DEF ToolInv, ClaimsAreExclusive, Claimed
<1>5. PostsAreClaimed'
  BY <1>1, <1>2 DEF ToolInv, PostsAreClaimed
<1>6. SuccessIsPosted'
  BY <1>1, <1>2 DEF ToolInv, SuccessIsPosted
<1> QED BY <1>3, <1>4, <1>5, <1>6 DEF ToolInv

LEMMA HandlersKeepTools ==
    ASSUME ToolInv, NEW h \in Handlers, HandlerStep(h)
    PROVE  ToolInv'
<1>1. CASE registerControl(h)
  <2>1. Worker(h) \in Workers
    BY AgentAssumption DEF Worker, Handlers
  <2>2. control' \in [Sids -> Workers \cup {Nobody}]
    BY <1>1, <2>1 DEF registerControl, ToolInv, ToolTypes
  <2> QED BY <1>1, <2>2, ToolsStay DEF registerControl, storeVars
<1>2. CASE StopAttached(h) \/ FinishStop(h)
  <2>1. control' \in [Sids -> Workers \cup {Nobody}]
    BY <1>2 DEF StopAttached, FinishStop, stopMediaSession, ToolInv, ToolTypes
  <2> QED BY <1>2, <2>1, ToolsStay DEF StopAttached, FinishStop, storeVars
<1>3. CASE HandlerStep(h) /\ ~registerControl(h) /\ ~StopAttached(h) /\ ~FinishStop(h)
  <2>1. control' = control /\ execution' = execution /\ UNCHANGED toolVars
    BY <1>3 DEF HandlerStep, HandleLifecycle, AttachCall, CreateSession, RereadActive, GetVariable,
         createMediaSession, StartAudioFork, SetVariable, failSession, FailMark, HangupUnattached, finish,
         FinishMark, storeVars, planeVars
  <2> QED BY <2>1, ToolsStay DEF ToolInv, ToolTypes
<1> QED BY <1>1, <1>2, <1>3

LEMMA ToolStepKeeps ==
    ASSUME ToolInv, [Next]_vars
    PROVE  ToolInv'
<1>1. ASSUME NEW h \in Handlers, HandlerStep(h)
      PROVE  ToolInv'
  BY <1>1, HandlersKeepTools
<1>2. ASSUME NEW s \in Sids, PlaneStep(s)
      PROVE  ToolInv'
  <2>1. control' \in [Sids -> Workers \cup {Nobody}] /\ UNCHANGED <<execution, toolVars>>
    BY <1>2 DEF PlaneStep, AttachAudio, AttachTimeout, PumpEnds, LeavePlane, storeVars, ToolInv, ToolTypes
  <2> QED BY <2>1, ToolsStay
<1>3. ASSUME NEW s \in Sids, NEW w \in Workers, ObserverStep(w, s)
      PROVE  ToolInv'
  <2>1. control' \in [Sids -> Workers \cup {Nobody}] /\ UNCHANGED <<execution, toolVars>>
    BY <1>3 DEF ObserverStep, ObserverFails, ObserverMarks, ObserverEnds, storeVars, planeVars, ToolInv, ToolTypes
  <2> QED BY <2>1, ToolsStay
<1>4. ASSUME NEW g \in ToolRuns, ToolStep(g) \/ \E s \in Sids : ToolCall(g, s)
      PROVE  ToolInv'
  BY <1>4, ToolCallKeeps, ExecuteKeeps, executeWebhookKeeps, MarkExecutionKeeps DEF ToolStep
<1>5. ASSUME NEW w \in Workers, Crash(w)
      PROVE  ToolInv'
  BY <1>5, CrashKeepsTools
<1>6. CASE ChannelGone \/ UNCHANGED vars
  BY <1>6, ToolsStay DEF ChannelGone, vars, storeVars, planeVars, ToolInv, ToolTypes
<1> QED BY <1>1, <1>2, <1>3, <1>4, <1>5, <1>6 DEF Next

\* A tool call reaches its endpoint at most once and is told to have succeeded
\* only if it did, however often the event comes, whichever worker crashes
\* between claim, request and record (Executor.Execute, executeRealtimeTool).
THEOREM ToolsRunOnce == Spec => []ToolRunsOnce
<1>1. Init => ToolInv
  BY DEF Init, StoreInit, ToolInv, ToolTypes, ClaimsAreExclusive, Claimed, PostsAreClaimed, SuccessIsPosted,
         ToolRecs, ToolPcs
<1>2. ToolInv /\ [Next]_vars => ToolInv'
  BY ToolStepKeeps
<1>3. ToolInv => ToolRunsOnce
  BY DEF ToolInv, ToolTypes, PostsAreClaimed, SuccessIsPosted, ToolRunsOnce
<1> QED BY <1>1, <1>2, <1>3, PTL DEF Spec
=============================================================================
