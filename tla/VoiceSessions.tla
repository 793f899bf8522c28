--------------------------- MODULE VoiceSessions ---------------------------
(***************************************************************************)
(* ai/conversations, ai/orchestration and ai/tools as the workers use them  *)
(* for one call with a voice agent: the durable sessions of the call, of    *)
(* which a unique index allows one active at a time, and the execution      *)
(* record of the one tool call each session may see more than once.  The    *)
(* organization stays active; instructions, snapshots, turns and the        *)
(* summary's counters are data no other part looks at.                      *)
(***************************************************************************)
EXTENDS SqlRows, Naturals

CONSTANT Sids                \* ids of voice_agent_sessions rows, in order of creation
NoSid == 0
ASSUME SidsAssumption == NoSid \notin Sids

VARIABLES call,              \* "answered", or "ended" once the observer marked it
          session,           \* state of each session; "none" before its INSERT
          execution          \* of the tool call in each session

storeVars == <<call, session, execution>>

StoreTypeOK ==
    /\ call \in {"answered", "ended"}
    /\ session \in [Sids -> {"none", "active", "ended"}]
    /\ execution \in [Sids -> {"none", "processing", "succeeded", "failed"}]

StoreInit ==
    /\ call = "answered"
    /\ session = [s \in Sids |-> "none"]
    /\ execution = [s \in Sids |-> "none"]

-----------------------------------------------------------------------------
\* The statements.

\* agent: whether the call's voice agent is active at that moment; its API may
\* disable it at any time, and running sessions keep their snapshot.
GetVoiceAgentByID(agent) == Returning(agent, agent)

GetActiveVoiceAgentSessionByCallID == {s \in Sids : session[s] = "active"}

\* Mutant: whatever the call's state is.
CreateForAnyCall(s, agent) == Returning(session[s] = "none" /\ agent, "active")

\* The INSERT ... SELECT over the call and its agent.  A second active session
\* is refused by the unique index, which is no ErrNoRows but a conflict.
CreateVoiceAgentSession(s, agent) ==
    Returning(session[s] = "none" /\ call = "answered" /\ agent, "active")

ActiveConflict == GetActiveVoiceAgentSessionByCallID # {}

CompleteVoiceAgentSession(s) == Returning(s \in Sids /\ session[s] = "active", "ended")

\* Mutant: the ON CONFLICT clause overwrites.
ClaimAgain(s) == Returning(session[s] = "active", "processing")

\* ON CONFLICT (session_id, tool_call_id) DO NOTHING: no row for a second claim.
ClaimVoiceAgentToolExecution(s) ==
    Returning(session[s] = "active" /\ execution[s] = "none", "processing")

GetVoiceAgentToolExecution(s) == Returning(execution[s] # "none", execution[s])

MarkVoiceAgentToolExecutionSucceeded(s) ==
    Returning(execution[s] = "processing", "succeeded")
MarkVoiceAgentToolExecutionFailed(s) ==
    Returning(execution[s] = "processing", "failed")
=============================================================================
