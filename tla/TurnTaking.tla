----------------------------- MODULE TurnTaking -----------------------------
(***************************************************************************)
(* One attached conversation: the composable engine's stream (speech to    *)
(* text, a language model and text to speech) and the session's pump that  *)
(* moves its audio and events to FreeSWITCH and to the control socket.     *)
(*                                                                         *)
(* The stream runs one goroutine for the transcriber's events and one for  *)
(* every response.  A response is fenced by the generation counter: only   *)
(* the response that `current` names (generation = s.generation and        *)
(* responseActive) may speak, emit or write history, and every check is    *)
(* made before a channel operation that may block.  The pump's goroutines  *)
(* share the output queue and two flags.  When the user speaks over the    *)
(* agent, the pump's event loop itself interrupts the stream.              *)
(*                                                                         *)
(* Each critical section and each channel operation is a step.  Audio has  *)
(* no content: frames are counted, one unit of duration each.              *)
(***************************************************************************)
EXTENDS Naturals, Sequences

CONSTANTS Order,             \* the responses of the conversation, in their order
          Tools,             \* ids of the tool calls the model may make
          EventCap,          \* capacity of s.events (32)
          MaxQueue,          \* OutputQueueDuration, in frames
          Budgets            \* bounds: how often each kind of thing may happen

ASSUME TurnAssumption ==
    /\ Order \in Seq(STRING) /\ \A i, j \in DOMAIN Order : Order[i] = Order[j] => i = j
    /\ {Order[i] : i \in DOMAIN Order} \cap {"run", "ctl", "evt", "aud", "play", "none"} = {}
    /\ EventCap \in Nat \ {0} /\ MaxQueue \in Nat \ {0}
    /\ Budgets \subseteq [{"turn", "barge", "frame", "text", "call", "command", "fault", "stop"} -> Nat]

Responses == {Order[i] : i \in DOMAIN Order}
Nth(r) == CHOOSE i \in DOMAIN Order : Order[i] = r

VARIABLES pc,                \* of every goroutine
          out,               \* the event a goroutine is about to emit, or "none"
          cancelled,         \* the session's context, parent of the stream's
          current,           \* the response that is active, or Nil
          dead,              \* responses whose own context is cancelled
          pending,           \* s.pendingToolCalls
          messages,          \* s.messages: <<role, response>>
          launch,            \* the response a goroutine has reserved, or Nil
          call,              \* the tool call of a response or of a command
          text,              \* responses that have text
          events, closed,    \* s.events; s.events and s.audio are closed
          queue, queued,     \* outputQueue: frames in the channel, and its account
          playbackActive,
          suppress,          \* suppressPlayback
          playback,          \* frames FreeSWITCH was sent since it last cleared its playback
          group,             \* the pump's errgroup is cancelled
          asked,             \* tool calls the Agent Runtime is working on
          panic,             \* the process died of a send on a closed channel
          budget             \* what is left of the bounds

engineVars == <<current, dead, pending, messages, launch, call, text>>
channelVars == <<events, closed>>
queueVars == <<queue, queued>>
pumpVars == <<playbackActive, suppress, playback, group>>
turnVars == <<pc, out, cancelled, engineVars, channelVars, queueVars, pumpVars, asked, panic, budget>>

Nil == "none"
Emitters == {"run", "ctl", "evt"} \cup Responses
Goroutines == Emitters \cup {"aud", "play"}

TurnInit ==
    /\ pc = [p \in Goroutines |-> CASE p = "run" -> "select" [] p = "ctl" -> "idle"
                                    [] p \in {"evt", "aud"} -> "recv" [] p = "play" -> "pop"
                                    [] OTHER -> "none"]
    /\ out = [p \in Emitters |-> Nil]
    /\ cancelled = FALSE /\ current = Nil /\ dead = {} /\ pending = {} /\ messages = <<>>
    /\ launch = [p \in {"run", "ctl"} |-> Nil]
    /\ call = [p \in Responses \cup {"ctl"} |-> Nil]
    /\ text = {}
    /\ events = <<>> /\ closed = FALSE /\ queue = 0 /\ queued = 0
    /\ playbackActive = FALSE /\ suppress = FALSE /\ playback = 0 /\ group = FALSE
    /\ asked = {} /\ panic = FALSE /\ budget \in Budgets

\* Goroutine p is at l with nothing left to emit.
At(p, l) == ~panic /\ pc[p] = l /\ (p \in Emitters => out[p] = Nil)
GoesOn(p, l) == pc' = [pc EXCEPT ![p] = l]
Say(p, l, e) == GoesOn(p, l) /\ out' = [out EXCEPT ![p] = e]
Spend(k) == budget[k] > 0 /\ budget' = [budget EXCEPT ![k] = @ - 1]
\* An error of the peer or of a provider; a write whose context is done fails too.
PeerFault == Spend("fault") \/ (group /\ UNCHANGED budget)
Ctx(r) == cancelled \/ r \in dead      \* the response's context is done
isCurrent(r) == current = r            \* of its generation, and active

-----------------------------------------------------------------------------
\* Channels.

\* Mutant: emit waits for room alone.
EmitWaits(p) ==
    /\ ~panic /\ out[p] # Nil /\ out' = [out EXCEPT ![p] = Nil]
    /\ ~closed /\ Len(events) < EventCap
    /\ events' = Append(events, out[p]) /\ UNCHANGED panic
    /\ UNCHANGED <<pc, cancelled, engineVars, closed, queueVars, pumpVars, asked, budget>>

\* emit and emitCurrent: into the channel, or given up when a context is done.
\* A send on the closed channel panics when it is chosen.
emit(p) ==
    /\ ~panic /\ out[p] # Nil /\ out' = [out EXCEPT ![p] = Nil]
    /\ \/ /\ ~closed /\ Len(events) < EventCap
          /\ events' = Append(events, out[p]) /\ UNCHANGED panic
       \/ /\ cancelled \/ (pc[p] \in {"loop", "tools"} /\ Ctx(p))
          /\ UNCHANGED <<events, panic>>
       \/ closed /\ panic' = TRUE /\ UNCHANGED events
    /\ UNCHANGED <<pc, cancelled, engineVars, closed, queueVars, pumpVars, asked, budget>>

-----------------------------------------------------------------------------
\* Critical sections of the stream.

\* cancelResponse, by goroutine p, which then goes on at l.
cancelResponse(p, l) ==
    /\ current' = Nil
    /\ dead' = dead \cup ({current} \ {Nil})
    /\ IF current = Nil THEN GoesOn(p, l) /\ UNCHANGED out ELSE Say(p, l, "stopped")

Fresh == {r \in Responses : pc[r] = "none" /\ \A x \in Responses : Nth(x) < Nth(r) => pc[x] # "none"}

\* A new response becomes the current one; its goroutine waits for p to emit.
Reserve(p, r) ==
    /\ current' = r /\ launch' = [launch EXCEPT ![p] = r]
    /\ pc' = [pc EXCEPT ![p] = "launch", ![r] = "reserved"]
    /\ out' = [out EXCEPT ![p] = "response"]

\* go s.generate.
Launch(p) ==
    /\ At(p, "launch")
    /\ pc' = [pc EXCEPT ![p] = IF p = "run" THEN "select" ELSE "idle", ![launch[p]] = "open"]
    /\ launch' = [launch EXCEPT ![p] = Nil]
    /\ UNCHANGED <<out, cancelled, current, dead, pending, messages, call, text, channelVars,
                   queueVars, pumpVars, asked, panic, budget>>

\* Mutant: the end of a response is not fenced.
StopUnfenced(r) ==
    /\ At(r, "stop")
    /\ current' = IF current = r THEN Nil ELSE current
    /\ messages' = IF r \in text THEN Append(messages, <<"assistant", Nth(r)>>) ELSE messages
    /\ Say(r, "over", "stopped")
    /\ UNCHANGED <<cancelled, dead, pending, launch, call, text, channelVars, queueVars,
                   pumpVars, asked, panic, budget>>

\* Only the current response stops itself and writes what it said.
stopResponse(r) ==
    /\ At(r, "stop")
    /\ IF current = r
       THEN /\ current' = Nil /\ Say(r, "over", "stopped")
            /\ messages' = IF r \in text THEN Append(messages, <<"assistant", Nth(r)>>) ELSE messages
       ELSE GoesOn(r, "over") /\ UNCHANGED <<current, messages, out>>
    /\ UNCHANGED <<cancelled, dead, pending, launch, call, text, channelVars, queueVars,
                   pumpVars, asked, panic, budget>>

\* The call was announced before this registers it.
awaitToolResults(r) ==
    /\ At(r, "tools")
    /\ IF current = r
       THEN /\ current' = Nil /\ Say(r, "over", "stopped")
            /\ pending' = pending \cup {call[r]}
            /\ messages' = Append(messages, <<"calls", Nth(r)>>)
       ELSE GoesOn(r, "over") /\ UNCHANGED <<current, pending, messages, out>>
    /\ UNCHANGED <<cancelled, dead, launch, call, text, channelVars, queueVars, pumpVars,
                   asked, panic, budget>>

-----------------------------------------------------------------------------
\* run: the transcriber's events, until its channel or the context ends.

\* handleTurn: SpeechStarted is published before the response is cancelled.
SpeechStarted ==
    /\ At("run", "select") /\ Spend("barge")
    /\ Say("run", "cancel", "speech")
    /\ UNCHANGED <<cancelled, engineVars, channelVars, queueVars, pumpVars, asked, panic>>

\* SpeechStopped and the transcript, one event here, or SpeechStopped with no text.
SpeechStopped ==
    /\ At("run", "select") /\ Spend("turn")
    /\ \E l \in {"start", "select"} : Say("run", l, "note")
    /\ UNCHANGED <<cancelled, engineVars, channelVars, queueVars, pumpVars, asked, panic>>

BargeIn ==
    /\ At("run", "cancel") /\ cancelResponse("run", "select")
    /\ UNCHANGED <<cancelled, pending, messages, launch, call, text, channelVars, queueVars,
                   pumpVars, asked, panic, budget>>

startResponse ==
    /\ At("run", "start")
    /\ \E r \in Fresh : /\ Reserve("run", r)
                        /\ messages' = Append(messages, <<"user", Nth(r)>>)
    /\ dead' = dead \cup ({current} \ {Nil})
    /\ UNCHANGED <<cancelled, pending, call, text, channelVars, queueVars, pumpVars, asked,
                   panic, budget>>

\* The transcriber failed, its channel closed, or the context is done.
RunEnds ==
    /\ At("run", "select")
    /\ \/ Spend("fault") /\ Say("run", "end", "fatal")
       \/ /\ (cancelled /\ UNCHANGED budget) \/ Spend("fault")
          /\ GoesOn("run", "end") /\ UNCHANGED out
    /\ UNCHANGED <<cancelled, engineVars, channelVars, queueVars, pumpVars, asked, panic>>

RunCancels ==
    /\ At("run", "end") /\ cancelResponse("run", "wait")
    /\ UNCHANGED <<cancelled, pending, messages, launch, call, text, channelVars, queueVars,
                   pumpVars, asked, panic, budget>>

\* responses.Wait, then the channels are closed.
RunCloses ==
    /\ At("run", "wait")
    /\ \A r \in Responses : pc[r] = "none" \/ (pc[r] = "over" /\ out[r] = Nil)
    /\ GoesOn("run", "closed") /\ closed' = TRUE
    /\ UNCHANGED <<out, cancelled, engineVars, events, queueVars, pumpVars, asked, panic, budget>>

-----------------------------------------------------------------------------
\* generate, for response r.  The loop's select may choose any ready channel,
\* also when the context is done.

Opened(r) ==
    /\ At(r, "open") /\ GoesOn(r, "loop")
    /\ UNCHANGED <<out, cancelled, engineVars, channelVars, queueVars, pumpVars, asked, panic, budget>>

\* A text delta, with its event when the response is current.
TextDelta(r) ==
    /\ At(r, "loop") /\ r \notin text /\ Spend("text")
    /\ text' = text \cup {r}
    /\ IF isCurrent(r) THEN Say(r, "loop", "note") ELSE UNCHANGED <<pc, out>>
    /\ UNCHANGED <<cancelled, current, dead, pending, messages, launch, call, channelVars,
                   queueVars, pumpVars, asked, panic>>

\* The completion ends with a tool call (of several, one stands for all).
ToolCall(r) ==
    /\ At(r, "loop") /\ Spend("call")
    /\ \E t \in Tools \ {call[x] : x \in Responses} :
          /\ call' = [call EXCEPT ![r] = t]
          /\ IF isCurrent(r) THEN Say(r, "tools", t) ELSE GoesOn(r, "tools") /\ UNCHANGED out
    /\ UNCHANGED <<cancelled, current, dead, pending, messages, launch, text, channelVars,
                   queueVars, pumpVars, asked, panic>>

\* The voice gives a frame; it is offered when the response is current.
Frame(r) ==
    /\ At(r, "loop") /\ Spend("frame")
    /\ IF isCurrent(r) THEN GoesOn(r, "offer") ELSE UNCHANGED pc
    /\ UNCHANGED <<out, cancelled, current, dead, pending, messages, launch, call, text, channelVars,
                   queueVars, pumpVars, asked, panic>>

\* The voice is done, or the completion was and had no text.
VoiceDone(r) ==
    /\ At(r, "loop") /\ GoesOn(r, "stop")
    /\ UNCHANGED <<out, cancelled, engineVars, channelVars, queueVars, pumpVars, asked, panic, budget>>

\* failResponse: a provider's error, unless the response is over anyway.
failResponse(r) ==
    /\ At(r, "open") \/ At(r, "loop")
    /\ IF Ctx(r) \/ ~isCurrent(r)
       THEN GoesOn(r, "over") /\ UNCHANGED <<out, text, budget>>
       ELSE Spend("fault") /\ Say(r, "stop", "note") /\ text' = text \ {r}
    /\ UNCHANGED <<cancelled, current, dead, pending, messages, launch, call, channelVars,
                   queueVars, pumpVars, asked, panic>>

\* The context is done; a frame offered on the closed channel panics.
GenerateEnds(r) ==
    /\ \/ At(r, "loop") \/ At(r, "offer")
    /\ \/ Ctx(r) /\ GoesOn(r, "over") /\ UNCHANGED panic
       \/ pc[r] = "offer" /\ closed /\ panic' = TRUE /\ UNCHANGED pc
    /\ UNCHANGED <<out, cancelled, engineVars, channelVars, queueVars, pumpVars, asked, budget>>

-----------------------------------------------------------------------------
\* Commands of the control socket, one after the other; an error closes it.

\* managedSession.submitToolResult and interrupt look whether it is finished.
CommandBegins ==
    /\ At("ctl", "idle") /\ ~cancelled
    /\ \/ \E t \in asked : /\ call' = [call EXCEPT !["ctl"] = t] /\ asked' = asked \ {t}
                           /\ GoesOn("ctl", "submit") /\ UNCHANGED budget
       \/ /\ Spend("command") /\ GoesOn("ctl", "interrupt") /\ UNCHANGED <<call, asked>>
    /\ UNCHANGED <<out, cancelled, current, dead, pending, messages, launch, text, channelVars,
                   queueVars, pumpVars, panic>>

\* The last result starts a response, without a look at one that is active.
SubmitToolResult ==
    LET t == call["ctl"]  IN
    /\ At("ctl", "submit")
    /\ IF t \notin pending
       THEN GoesOn("ctl", "gone") /\ UNCHANGED <<out, current, pending, messages, launch>>
       ELSE /\ pending' = pending \ {t}
            /\ messages' = Append(messages, <<"tool", 0>>)
            /\ IF pending' = {} THEN \E r \in Fresh : Reserve("ctl", r)
               ELSE GoesOn("ctl", "idle") /\ UNCHANGED <<out, current, launch>>
    /\ UNCHANGED <<cancelled, dead, call, text, channelVars, queueVars, pumpVars, asked,
                   panic, budget>>

InterruptCommand ==
    /\ At("ctl", "interrupt") /\ cancelResponse("ctl", "clear")
    /\ UNCHANGED <<cancelled, pending, messages, launch, call, text, channelVars, queueVars,
                   pumpVars, asked, panic, budget>>

InterruptClears ==
    /\ At("ctl", "clear")
    /\ \/ GoesOn("ctl", "idle") /\ playback' = 0 /\ UNCHANGED budget
       \/ PeerFault /\ GoesOn("ctl", "gone") /\ UNCHANGED playback
    /\ UNCHANGED <<out, cancelled, engineVars, channelVars, queueVars, playbackActive, suppress, group, asked,
                   panic>>

-----------------------------------------------------------------------------
\* The pump.  A goroutine that returns an error cancels the group.

Returns(p) == GoesOn(p, "over") /\ group' = TRUE

\* The event loop: publish (or ErrControlBackpressure), then what the event means for the playback.
EventLoop ==
    /\ At("evt", "recv") /\ events # <<>>
    /\ events' = Tail(events)
    /\ LET e == Head(events)
       IN  \/ /\ (e = "fatal" /\ UNCHANGED budget) \/ (pc["ctl"] # "gone" /\ Spend("fault"))
              /\ Returns("evt") /\ UNCHANGED <<playbackActive, suppress, asked>>
           \/ /\ e = "response" /\ suppress' = FALSE /\ playbackActive' = TRUE
              /\ UNCHANGED <<pc, group, asked, budget>>
           \/ /\ e = "stopped" /\ playbackActive' = FALSE /\ UNCHANGED <<pc, group, suppress, asked, budget>>
           \/ /\ e = "speech" /\ playbackActive /\ playbackActive' = FALSE /\ suppress' = TRUE
              /\ GoesOn("evt", "sweep") /\ UNCHANGED <<group, asked, budget>>
           \/ /\ e = "note" \/ (e = "speech" /\ ~playbackActive)
              /\ UNCHANGED <<pc, group, playbackActive, suppress, asked, budget>>
           \/ /\ e \in Tools /\ asked' = asked \cup {e}
              /\ UNCHANGED <<pc, group, playbackActive, suppress, budget>>
    /\ UNCHANGED <<out, cancelled, engineVars, closed, queueVars, playback, panic>>

\* Mutant: an emptied queue is accounted as empty.
ClearResets ==
    /\ At("evt", "sweep")
    /\ queue' = 0 /\ queued' = 0 /\ GoesOn("evt", "interrupt")
    /\ UNCHANGED <<out, cancelled, engineVars, channelVars, pumpVars, asked, panic, budget>>

\* outputQueue.Clear: a frame is taken, then debited.
Clear ==
    /\ At("evt", "sweep")
    /\ IF queue > 0 THEN queue' = queue - 1 /\ GoesOn("evt", "debit")
       ELSE GoesOn("evt", "interrupt") /\ UNCHANGED queue
    /\ UNCHANGED <<out, cancelled, engineVars, channelVars, queued, pumpVars, asked, panic, budget>>

Debited == IF queued > 0 THEN queued - 1 ELSE 0
ClearDebits ==
    /\ At("evt", "debit") /\ queued' = Debited /\ GoesOn("evt", "sweep")
    /\ UNCHANGED <<out, cancelled, engineVars, channelVars, queue, pumpVars, asked, panic, budget>>

\* Interrupt on the stream: its Stopped event goes into the channel this very
\* goroutine reads.
Interrupt ==
    /\ At("evt", "interrupt") /\ cancelResponse("evt", "clear")
    /\ UNCHANGED <<cancelled, pending, messages, launch, call, text, channelVars, queueVars,
                   pumpVars, asked, panic, budget>>

ClearPlayback ==
    /\ At("evt", "clear")
    /\ \/ GoesOn("evt", "recv") /\ playback' = 0 /\ UNCHANGED <<group, budget>>
       \/ PeerFault /\ Returns("evt") /\ UNCHANGED playback
    /\ UNCHANGED <<out, cancelled, engineVars, channelVars, queueVars, playbackActive, suppress, asked, panic>>

\* The audio loop: a response's offer is taken.
AudioLoop(r) ==
    /\ At("aud", "recv") /\ At(r, "offer") /\ ~closed
    /\ pc' = [pc EXCEPT !["aud"] = "got", ![r] = "loop"]
    /\ UNCHANGED <<out, cancelled, engineVars, channelVars, queueVars, pumpVars, asked, panic, budget>>

AudioChecks ==
    /\ At("aud", "got")
    /\ \/ GoesOn("aud", IF suppress THEN "recv" ELSE "push") /\ UNCHANGED <<group, budget>>
       \/ Spend("fault") /\ Returns("aud")                    \* invalid or too long
    /\ UNCHANGED <<out, cancelled, engineVars, channelVars, queueVars, playbackActive, suppress, playback,
                   asked, panic>>

Push ==
    /\ At("aud", "push")
    /\ IF queued + 1 > MaxQueue THEN Returns("aud") /\ UNCHANGED queueVars
       ELSE /\ queue' = queue + 1 /\ queued' = queued + 1
            /\ GoesOn("aud", "recv") /\ UNCHANGED group
    /\ UNCHANGED <<out, cancelled, engineVars, channelVars, playbackActive, suppress, playback, asked, panic,
                   budget>>

\* The playback loop: Pop, the account, the flag, the write.
Pop ==
    /\ At("play", "pop") /\ queue > 0
    /\ queue' = queue - 1 /\ GoesOn("play", "debit")
    /\ UNCHANGED <<out, cancelled, engineVars, channelVars, queued, pumpVars, asked, panic, budget>>

PopDebits ==
    /\ At("play", "debit") /\ queued' = Debited /\ GoesOn("play", "check")
    /\ UNCHANGED <<out, cancelled, engineVars, channelVars, queue, pumpVars, asked, panic, budget>>

\* Mutant: what was queued is played.
PlayQueued ==
    /\ At("play", "check") /\ GoesOn("play", "mark")
    /\ UNCHANGED <<out, cancelled, engineVars, channelVars, queueVars, pumpVars, asked, panic, budget>>

PlaybackChecks ==
    /\ At("play", "check") /\ GoesOn("play", IF suppress THEN "pop" ELSE "mark")
    /\ UNCHANGED <<out, cancelled, engineVars, channelVars, queueVars, pumpVars, asked, panic, budget>>

PlaybackMarks ==
    /\ At("play", "mark") /\ playbackActive' = TRUE /\ GoesOn("play", "send")
    /\ UNCHANGED <<out, cancelled, engineVars, channelVars, queueVars, suppress, playback, group, asked,
                   panic, budget>>

SendAudio ==
    /\ At("play", "send")
    /\ \/ GoesOn("play", "pop") /\ playback' = playback + 1 /\ UNCHANGED <<group, budget>>
       \/ PeerFault /\ Returns("play") /\ UNCHANGED playback
    /\ UNCHANGED <<out, cancelled, engineVars, channelVars, queueVars, playbackActive, suppress, asked, panic>>

\* A loop finds its context done, or its channel closed and empty.
PumpEnds(p) ==
    /\ \/ At(p, "recv") /\ (cancelled \/ group \/ (closed /\ (p = "evt" => events = <<>>)))
       \/ p = "play" /\ At(p, "pop") /\ group
    /\ Returns(p)
    /\ UNCHANGED <<out, cancelled, engineVars, channelVars, queueVars, playbackActive, suppress, playback,
                   asked, panic, budget>>

\* The peer left, sent a bad frame or too many, or the transcriber took none.
InputEnds ==
    /\ ~panic /\ ~group /\ Spend("fault") /\ group' = TRUE
    /\ UNCHANGED <<pc, out, cancelled, engineVars, channelVars, queueVars, playbackActive, suppress, playback,
                   asked, panic>>

\* The session is finished: by Attach once the pump has returned, or by a Stop.
PumpOver == \A p \in {"evt", "aud", "play"} : pc[p] = "over"
Finish ==
    /\ ~panic /\ ~cancelled /\ cancelled' = TRUE
    /\ (PumpOver /\ UNCHANGED budget) \/ Spend("stop")
    /\ UNCHANGED <<pc, out, engineVars, channelVars, queueVars, pumpVars, asked, panic>>

-----------------------------------------------------------------------------
RunStep == BargeIn \/ startResponse \/ RunCancels \/ RunCloses
GenerateStep(r) == \/ stopResponse(r) \/ awaitToolResults(r) \/ failResponse(r) \/ GenerateEnds(r)
ProviderStep(r) == Opened(r) \/ TextDelta(r) \/ ToolCall(r) \/ Frame(r) \/ VoiceDone(r)
ControlStep == SubmitToolResult \/ InterruptCommand \/ InterruptClears
EventStep == EventLoop \/ Clear \/ ClearDebits \/ Interrupt \/ ClearPlayback \/ PumpEnds("evt")
AudioStep == (\E r \in Responses : AudioLoop(r)) \/ AudioChecks \/ Push \/ PumpEnds("aud")
PlaybackStep == Pop \/ PopDebits \/ PlaybackChecks \/ PlaybackMarks \/ SendAudio \/ PumpEnds("play")

TurnNext ==
    \/ \E p \in Emitters : emit(p)
    \/ \E p \in {"run", "ctl"} : Launch(p)
    \/ SpeechStarted \/ SpeechStopped \/ RunEnds \/ RunStep
    \/ \E r \in Responses : GenerateStep(r) \/ ProviderStep(r)
    \/ CommandBegins \/ ControlStep
    \/ EventStep \/ AudioStep \/ PlaybackStep \/ InputEnds \/ Finish

TurnSpec == TurnInit /\ [][TurnNext]_turnVars

\* Goroutines run; a call whose context is done returns; Attach finishes what it
\* pumped.  Users, providers, the peer and the Agent Runtime owe nothing.
TurnFairness ==
    /\ \A p \in Emitters : WF_turnVars(emit(p))
    /\ \A p \in {"run", "ctl"} : WF_turnVars(Launch(p))
    /\ WF_turnVars(RunStep) /\ WF_turnVars(cancelled /\ RunEnds)
    /\ \A r \in Responses : WF_turnVars(stopResponse(r) \/ awaitToolResults(r) \/ GenerateEnds(r)
                                    \/ (Ctx(r) /\ failResponse(r)))
    /\ WF_turnVars(ControlStep) /\ WF_turnVars(EventStep) /\ WF_turnVars(AudioStep) /\ WF_turnVars(PlaybackStep)
    /\ WF_turnVars(PumpOver /\ Finish)

FairTurnSpec == TurnSpec /\ TurnFairness
-----------------------------------------------------------------------------
\* Once the event loop has dealt with a user who spoke over the agent, at most
\* one frame of what it was saying still reaches FreeSWITCH before the next
\* response starts, wherever the frames were at that moment: with the engine,
\* between the loops or in the queue (pump, suppressPlayback).
OneStaleFrame == suppress /\ pc["evt"] = "recv" => playback <= 1

\* The output queue's account is exact: what it says is queued is what the
\* channel holds and what two loops have taken and not debited yet, so the budget
\* can neither be overdrawn nor eaten up by frames long gone (audioQueue).
LatencyBudget ==
    /\ queued = queue + (IF pc["play"] = "debit" THEN 1 ELSE 0) + (IF pc["evt"] = "debit" THEN 1 ELSE 0)
    /\ queued <= MaxQueue

\* The history the model is given is in the order of the conversation: what a
\* response said or called stands before anything a later response was asked or
\* said, however late an interrupted response notices (stopResponse,
\* awaitToolResults, startResponse).
HistoryInOrder ==
    \A i, j \in 1 .. Len(messages) :
       (i < j /\ messages[i][1] # "tool" /\ messages[j][1] # "tool") => messages[i][2] <= messages[j][2]

\* A finished session's goroutines all come to an end, whatever channel they
\* wait on (emit, generate, run, pump), unless the process died.
StreamEnds ==
    cancelled ~> (panic \/ (/\ pc["run"] = "closed" /\ PumpOver
                            /\ \A r \in Responses : pc[r] \in {"none", "over"} /\ out[r] = Nil))
=============================================================================
