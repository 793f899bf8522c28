---------------------------- MODULE AgentConfig ----------------------------
(***************************************************************************)
(* ai/agents, ai/providers and ai/tools: the draft of a voice agent, the    *)
(* provider credentials bound to its roles, its tools, and the activation   *)
(* that copies the draft into the revision live sessions run.  Every change *)
(* of the draft bumps configuration_revision, by its own statement or by    *)
(* the triggers on bindings and tools.  An update that replaces bindings is *)
(* a sequence of statements; readiness is a sequence of reads; activation   *)
(* is one statement, which waits for the agent's row and then combines that *)
(* row as it has become with bindings, credentials and tools as its         *)
(* snapshot saw them.                                                       *)
(***************************************************************************)
EXTENDS ApiRequests, Naturals

CONSTANTS Credentials,       \* ai_provider_credentials ids
          RoleOf,            \* the role a credential's provider serves
          BindingRequests,   \* the sets of bindings requests ask for
          Tools              \* voice_agent_tools ids

Roles == {"realtime", "stt", "llm", "tts"}
Engines == {"integrated", "composable"}

\* A binding request names at most one credential a role.
ASSUME AgentAssumption ==
    /\ RoleOf \in [Credentials -> Roles] /\ NoId \notin Credentials \cup Tools
    /\ \A creds \in BindingRequests :
          creds \subseteq Credentials /\ \A c, d \in creds : RoleOf[c] = RoleOf[d] => c = d

VARIABLES agent,             \* the voice_agents row: the draft and the active copy
          binding,           \* voice_agent_provider_bindings: the bound credentials
          credential,        \* ai_provider_credentials: connection_state
          tool               \* voice_agent_tools

agentVars == <<agent, binding, credential, tool>>

VoiceAgent == [status : {"none", "active", "disabled"}, engine : Engines, revision : Nat,
               active : [revision : Nat, engine : Engines, bindings : SUBSET Credentials,
                         tools : SUBSET Tools]]
AiProviderCredential == {"none", "unchecked", "ready", "invalid"}   \* invalid: or unavailable
VoiceAgentTool == {"none", "enabled", "disabled"}
VoiceAgentProviderBinding == Credentials                            \* role and provider with it

RolesOf(creds) == {RoleOf[c] : c \in creds}
expectedProviders(engine) == IF engine = "integrated" THEN {"realtime"} ELSE {"stt", "llm", "tts"}

Never == [revision |-> 0, engine |-> "integrated", bindings |-> {}, tools |-> {}]
EnabledTools == {t \in Tools : tool[t] = "enabled"}

\* The triggers on voice_agent_provider_bindings and voice_agent_tools.
bump_voice_agent_configuration_revision == [agent EXCEPT !.revision = @ + 1]

-----------------------------------------------------------------------------
\* The statements, on the rows they address.

CreateVoiceAgent(a, engine) ==
    Returning(a.status = "none" /\ OrganizationActive,
              [status |-> "active", engine |-> engine, revision |-> 1, active |-> Never])
GetVoiceAgentByID == Returning(agent.status = "active" /\ OrganizationActive, agent)
UpdateVoiceAgent(a, engine) ==
    Returning(a.status = "active" /\ OrganizationActive,
              [a EXCEPT !.engine = engine, !.revision = @ + 1])
DisableVoiceAgent(a) ==
    Returning(a.status = "active" /\ OrganizationActive, [a EXCEPT !.status = "disabled"])

Activated(a, creds, tools) ==
    [a EXCEPT !.active = [revision |-> a.revision, engine |-> a.engine,
                          bindings |-> creds, tools |-> tools]]

\* Mutant: counts the roles the engine needs, but not the bindings there are.
ActivateVoiceAgentAtLeast(a, creds, tools) ==
    Returning(a.status = "active" /\ expectedProviders(a.engine) \subseteq RolesOf(creds),
              Activated(a, creds, tools))

ActivateVoiceAgent(a, creds, tools) ==   \* creds: all ready in the same snapshot
    Returning(a.status = "active" /\ expectedProviders(a.engine) = RolesOf(creds),
              Activated(a, creds, tools))

CreateAIProviderCredential(c) == Returning(c = "none", "unchecked")
GetAIProviderCredential(c) == Returning(c # "none", c)
RotateAIProviderCredential(c) == Returning(c # "none", "unchecked")
UpdateAIProviderCredentialVerification(c, state) == Returning(c # "none", state)
DeleteAIProviderCredential(c) ==         \* the bindings' foreign key restricts
    Returning(c \notin binding, [credential EXCEPT ![c] = "none"])

ListVoiceAgentProviderBindings == binding
UpsertVoiceAgentProviderBinding(c) ==    \* one row per role; the foreign key needs c
    Returning(credential[c] # "none", {b \in binding : RoleOf[b] # RoleOf[c]} \cup {c})
DeleteVoiceAgentProviderBinding(role) == {b \in binding : RoleOf[b] # role}

CreateVoiceAgentTool(t) ==
    Returning(tool[t] = "none" /\ ~NoRows(GetVoiceAgentByID), [tool EXCEPT ![t] = "enabled"])
UpdateVoiceAgentTool(t, state) ==
    Returning(tool[t] # "none" /\ ~NoRows(GetVoiceAgentByID), [tool EXCEPT ![t] = state])
DeleteVoiceAgentTool(t) ==
    Returning(tool[t] # "none" /\ ~NoRows(GetVoiceAgentByID), [tool EXCEPT ![t] = "none"])
GetVoiceAgentToolByID(t) == Returning(tool[t] # "none" /\ ~NoRows(GetVoiceAgentByID), tool[t])

-----------------------------------------------------------------------------
\* agents/service.go

CreateAgent(q) ==
    /\ Free(q, "create_agent") /\ UNCHANGED traffic
    /\ \E engine \in Engines, creds \in BindingRequests :
          /\ agent' \in CreateVoiceAgent(agent, engine)
          /\ request' = [request EXCEPT ![q] = [Unbegun EXCEPT !.op = "bind", !.pc = "begun",
                                                               !.saw = creds]]
    /\ UNCHANGED <<organization, binding, credential, tool>>

UpdateAgent(q) ==              \* bindings given: replace the ones there are
    /\ Free(q, "update_agent") /\ UNCHANGED traffic
    /\ \E engine \in Engines :
          /\ agent' \in UpdateVoiceAgent(agent, engine)
          /\ \/ request' = [request EXCEPT ![q] = Done]
             \/ \E creds \in BindingRequests :
                   request' = [request EXCEPT ![q] = [Unbegun EXCEPT !.op = "bind",
                                                         !.pc = "replace", !.saw = creds]]
    /\ UNCHANGED <<organization, binding, credential, tool>>

\* applyBindings: list; delete what is not asked for; then bind one by one.
applyBindings(q) ==
    /\ At(q, "bind", "replace")
    /\ Goto(q, "delete", request[q].saw,
            RolesOf(ListVoiceAgentProviderBindings) \ RolesOf(request[q].saw))
    /\ UNCHANGED <<organization, agentVars>>

DeleteUnrequested(q) ==
    /\ At(q, "bind", "delete")
    /\ IF request[q].todo = {}
       THEN Goto(q, "begun", request[q].saw, {}) /\ UNCHANGED <<agent, binding>>
       ELSE \E role \in request[q].todo :
               /\ binding' = DeleteVoiceAgentProviderBinding(role)
               /\ agent' = IF binding' = binding THEN agent
                           ELSE bump_voice_agent_configuration_revision
               /\ Goto(q, "delete", request[q].saw, request[q].todo \ {role})
    /\ UNCHANGED <<organization, credential, tool>>

DisableAgent(q) ==
    /\ Begun(q, "disable_agent")
    /\ IF NoRows(DisableVoiceAgent(agent)) THEN UNCHANGED agent
       ELSE agent' \in DisableVoiceAgent(agent)
    /\ Answer(q)
    /\ UNCHANGED <<organization, binding, credential, tool>>

GetAgent(q, op) ==             \* DisableAgent holds nothing, Readiness the engine
    /\ ~NoRows(GetVoiceAgentByID)
    /\ Begin(q, op, NoId, IF op = "activate" THEN {agent.engine} ELSE {})
    /\ UNCHANGED <<organization, agentVars>>

-----------------------------------------------------------------------------
\* agents/readiness.go

Readiness(q) ==                \* the bindings, against the engine read before
    /\ Begun(q, "activate")
    /\ \/ /\ \E engine \in request[q].saw :
                RolesOf(ListVoiceAgentProviderBindings) = expectedProviders(engine)
          /\ Goto(q, "statuses", ListVoiceAgentProviderBindings, {})
       \/ /\ \A engine \in request[q].saw :
                RolesOf(ListVoiceAgentProviderBindings) # expectedProviders(engine)
          /\ Answer(q)
    /\ UNCHANGED <<organization, agentVars>>

BindingStatuses(q) ==          \* each credential with a read of its own
    /\ At(q, "activate", "statuses")
    /\ IF request[q].saw = {} THEN Goto(q, "ready", {}, {})
       ELSE \E c \in request[q].saw :
               IF credential[c] = "ready" THEN Goto(q, "statuses", request[q].saw \ {c}, {})
               ELSE Answer(q)
    /\ UNCHANGED <<organization, agentVars>>

\* The statement starts: its snapshot is taken.
Activate(q) ==
    /\ At(q, "activate", "ready")
    /\ IF \A c \in binding : credential[c] = "ready"
       THEN Goto(q, "activating", binding, EnabledTools)
       ELSE Answer(q)
    /\ UNCHANGED <<organization, agentVars>>

\* It has the agent's row, re-read, and the rest from its snapshot.
Activates(q) ==
    /\ At(q, "activate", "activating")
    /\ LET rows == ActivateVoiceAgent(agent, request[q].saw, request[q].todo)
       IN  IF NoRows(rows) THEN UNCHANGED agent ELSE agent' \in rows
    /\ Answer(q)
    /\ UNCHANGED <<organization, binding, credential, tool>>

-----------------------------------------------------------------------------
\* providers/service.go

CreateCredential(q) ==
    /\ Single(q, "create_credential")
    /\ \E c \in Credentials : \E new \in CreateAIProviderCredential(credential[c]) :
          credential' = [credential EXCEPT ![c] = new]
    /\ UNCHANGED <<organization, agent, binding, tool>>

GetCredentialCiphertext(q, op, c) ==
    /\ ~NoRows(GetAIProviderCredential(credential[c]))
    /\ Begin(q, op, c, {})
    /\ UNCHANGED <<organization, agentVars>>

Save(q, rows) == /\ IF NoRows(rows) THEN UNCHANGED credential
                    ELSE \E new \in rows : credential' = [credential EXCEPT ![request[q].on] = new]
                 /\ Answer(q)

VerifyIntegration(q) ==        \* the provider has answered for the secret read before
    /\ Begun(q, "verify")
    /\ \E state \in {"ready", "invalid"} :
          Save(q, UpdateAIProviderCredentialVerification(credential[request[q].on], state))
    /\ UNCHANGED <<organization, agent, binding, tool>>

RotateCredential(q) ==
    /\ Begun(q, "rotate")
    /\ Save(q, RotateAIProviderCredential(credential[request[q].on]))
    /\ UNCHANGED <<organization, agent, binding, tool>>

DeleteCredential(q) ==
    /\ Single(q, "delete_credential")
    /\ \E c \in Credentials : credential' \in DeleteAIProviderCredential(c)
    /\ UNCHANGED <<organization, agent, binding, tool>>

BindCredential(q) ==           \* UpsertBinding reads the credential, then writes
    /\ Begun(q, "bind")
    /\ IF request[q].saw = {} THEN Answer(q)
       ELSE \E c \in request[q].saw :
               IF NoRows(GetAIProviderCredential(credential[c])) THEN Answer(q)
               ELSE /\ request' = [request EXCEPT ![q].pc = "upsert", ![q].on = c,
                                                  ![q].saw = @ \ {c}]
                    /\ UNCHANGED traffic
    /\ UNCHANGED <<organization, agentVars>>

UpsertBinding(q) ==
    /\ At(q, "bind", "upsert")
    /\ LET rows == UpsertVoiceAgentProviderBinding(request[q].on)
       IN  IF NoRows(rows) THEN Answer(q) /\ UNCHANGED <<agent, binding>>
           ELSE /\ binding' \in rows
                /\ agent' = bump_voice_agent_configuration_revision
                /\ Goto(q, "begun", request[q].saw, {})
    /\ UNCHANGED <<organization, credential, tool>>

DeleteBinding(q) ==
    /\ Single(q, "unbind")
    /\ \E role \in RolesOf(binding) : binding' = DeleteVoiceAgentProviderBinding(role)
    /\ agent' = bump_voice_agent_configuration_revision
    /\ UNCHANGED <<organization, credential, tool>>

\* The binding request of its own: PUT /voice-agents/{id}/bindings/{role}.
RequestBinding(q) ==
    /\ Free(q, "bind") /\ agent.status # "none" /\ UNCHANGED traffic
    /\ \E c \in Credentials :
          request' = [request EXCEPT ![q] = [Unbegun EXCEPT !.op = "bind", !.pc = "begun",
                                                            !.saw = {c}]]
    /\ UNCHANGED <<organization, agentVars>>

-----------------------------------------------------------------------------
\* tools/service.go: a change that reaches its row fires the trigger.

SaveTool(q, rows) == /\ IF NoRows(rows) THEN UNCHANGED <<agent, tool>>
                        ELSE tool' \in rows /\ agent' = bump_voice_agent_configuration_revision
                     /\ Answer(q)
                     /\ UNCHANGED <<organization, binding, credential>>

CreateTool(q) ==
    /\ Free(q, "create_tool")
    /\ \E t \in Tools : SaveTool(q, CreateVoiceAgentTool(t))

GetTool(q, t) ==
    /\ ~NoRows(GetVoiceAgentToolByID(t))
    /\ Begin(q, "update_tool", t, {})
    /\ UNCHANGED <<organization, agentVars>>

UpdateTool(q) ==
    /\ Begun(q, "update_tool")
    /\ \E state \in {"enabled", "disabled"} :
          SaveTool(q, UpdateVoiceAgentTool(request[q].on, state))

DeleteTool(q) ==
    /\ Free(q, "delete_tool")
    /\ \E t \in Tools : SaveTool(q, DeleteVoiceAgentTool(t))

AgentStep(q) ==
    \/ CreateAgent(q) \/ UpdateAgent(q) \/ applyBindings(q) \/ DeleteUnrequested(q)
    \/ \E op \in {"disable_agent", "activate"} : GetAgent(q, op)
    \/ DisableAgent(q) \/ Readiness(q) \/ BindingStatuses(q) \/ Activate(q) \/ Activates(q)
    \/ CreateCredential(q) \/ DeleteCredential(q) \/ VerifyIntegration(q) \/ RotateCredential(q)
    \/ \E op \in {"verify", "rotate"}, c \in Credentials : GetCredentialCiphertext(q, op, c)
    \/ RequestBinding(q) \/ BindCredential(q) \/ UpsertBinding(q) \/ DeleteBinding(q)
    \/ CreateTool(q) \/ (\E t \in Tools : GetTool(q, t)) \/ UpdateTool(q) \/ DeleteTool(q)

-----------------------------------------------------------------------------
\* Properties.

\* ActiveIsComplete: the active revision has one binding for every role its
\* engine needs and no other, although updates replace bindings one statement
\* at a time, may stop half-way, and race with activations whose readiness was
\* judged on older rows (readiness.go:101-124, agents/service.go:92-142).
ActiveIsComplete ==
    agent.active.revision # 0 =>
       /\ RolesOf(agent.active.bindings) = expectedProviders(agent.active.engine)
       /\ \A c, d \in agent.active.bindings : RoleOf[c] = RoleOf[d] => c = d
=============================================================================
