------------------------------ MODULE Numbers ------------------------------
(***************************************************************************)
(* telephony/numbers, the bindings of numbers to the agent                 *)
(* (agents/bindings.go) and telephony/routing, composed with Trunks and     *)
(* AgentConfig.  An inbound INVITE is routed twice: OpenSIPS resolves the   *)
(* dialled number to a tuple of ids with a query of its own, and the worker *)
(* revalidates the tuple later, with two statements, before it admits the   *)
(* call; any of the rows may change before, between and after.              *)
(***************************************************************************)
EXTENDS Trunks, AgentConfig

CONSTANTS Numbers,           \* phone_numbers ids
          Invites            \* INVITEs that arrive on the trunk

VARIABLES number,            \* phone_numbers
          bound,             \* voice_agent_bindings by number: who inserted the row
          invite,            \* each INVITE's progress and the tuple of ids it carries
          whole              \* history: the INVITEs whose tuple was eligible at some moment
                             \* since the worker began to revalidate it

numberVars == <<number, bound>>
inviteVars == <<invite, whole>>
telVars == <<request, traffic, organization, trunkVars, agentVars, numberVars, inviteVars>>

PhoneNumber == [status : {"none", "active", "released"}, trunked : BOOLEAN, voice : BOOLEAN]
VoiceAgentBinding == Requests \cup {Earlier, NoId}
Invite == [pc : {"new", "routed", "found", "admitted", "rejected"}, number : Numbers \cup {NoId},
           binding : VoiceAgentBinding]
NewInvite == [pc |-> "new", number |-> NoId, binding |-> NoId]
NoNumber == [status |-> "none", trunked |-> FALSE, voice |-> FALSE]

-----------------------------------------------------------------------------
\* phone_numbers.sql and voice_agent_bindings.sql

TrunkTakesCalls == trunk.status = "active" /\ Inbound(trunk.direction)

CreateBYOCPhoneNumber(row, trunked, voice) ==
    Returning(row.status = "none" /\ OrganizationActive /\ (trunked => TrunkTakesCalls),
              [status |-> "active", trunked |-> trunked, voice |-> voice])
GetPhoneNumberByID(row) == Returning(row.status = "active" /\ OrganizationActive, row)
UpdatePhoneNumber(row, voice) == Returning(row.status = "active", [row EXCEPT !.voice = voice])
SetBYOCPhoneNumberTrunk(row) ==
    Returning(row.status = "active" /\ TrunkTakesCalls, [row EXCEPT !.trunked = TRUE])
ReleaseBYOCPhoneNumber(row) ==
    Returning(row.status = "active", [NoNumber EXCEPT !.status = "released"])

CreateVoiceAgentBinding(n, q) ==  \* uq_voice_agent_bindings_phone_number
    Returning(bound[n] = NoId /\ number[n].status # "none" /\ ~NoRows(GetVoiceAgentByID),
              [bound EXCEPT ![n] = q])
DeleteVoiceAgentBinding(n) == [bound EXCEPT ![n] = NoId]
GetVoiceAgentBindingByID(n, b) == Returning(bound[n] = b /\ ~NoRows(GetVoiceAgentByID), b)

\* Mutant: takes the agent's status from the read before.
GetInboundCallContextUnjoined(n, b) ==
    Returning(/\ number[n].status = "active" /\ number[n].trunked /\ number[n].voice
              /\ trunk.status = "active" /\ trunk.inbound
              /\ bound[n] = b /\ OrganizationActive, b)

GetInboundCallContext(n, b) ==
    Returning(/\ number[n].status = "active" /\ number[n].trunked /\ number[n].voice
              /\ trunk.status = "active" /\ trunk.inbound
              /\ bound[n] = b /\ agent.status = "active" /\ OrganizationActive, b)

-----------------------------------------------------------------------------
\* numbers/service.go and agents/bindings.go

NumberUnchanged == UNCHANGED <<organization, trunkVars, agentVars>>
SaveNumber(q, n, rows) ==
    /\ IF NoRows(rows) THEN UNCHANGED number
       ELSE \E row \in rows : number' = [number EXCEPT ![n] = row]
    /\ Answer(q) /\ UNCHANGED bound /\ NumberUnchanged

CreateNumber(q) ==
    /\ Free(q, "create_number")
    /\ \E n \in Numbers, trunked, voice \in BOOLEAN :
          SaveNumber(q, n, CreateBYOCPhoneNumber(number[n], trunked, voice))

UpdateNumber(q) ==
    /\ Free(q, "update_number")
    /\ \E n \in Numbers, voice \in BOOLEAN : SaveNumber(q, n, UpdatePhoneNumber(number[n], voice))

SetTrunk(q) ==
    /\ Free(q, "set_trunk")
    /\ \E n \in Numbers : SaveNumber(q, n, SetBYOCPhoneNumberTrunk(number[n]))

GetNumber(q, n) ==
    /\ ~NoRows(GetPhoneNumberByID(number[n]))
    /\ Begin(q, "release_number", n, {})
    /\ UNCHANGED numberVars /\ NumberUnchanged

DeleteNumber(q) ==
    /\ Begun(q, "release_number")
    /\ SaveNumber(q, request[q].on, ReleaseBYOCPhoneNumber(number[request[q].on]))

CreateBinding(q) ==
    /\ Single(q, "bind_number")
    /\ \E n \in Numbers : IF NoRows(CreateVoiceAgentBinding(n, q)) THEN UNCHANGED bound
                          ELSE bound' \in CreateVoiceAgentBinding(n, q)
    /\ UNCHANGED number /\ NumberUnchanged

UnbindNumber(q) ==             \* agents.Service.DeleteBinding
    /\ Single(q, "unbind_number")
    /\ \E n \in Numbers : bound' = DeleteVoiceAgentBinding(n)
    /\ UNCHANGED number /\ NumberUnchanged

NumberStep(q) ==
    \/ CreateNumber(q) \/ UpdateNumber(q) \/ SetTrunk(q) \/ (\E n \in Numbers : GetNumber(q, n))
    \/ DeleteNumber(q) \/ CreateBinding(q) \/ UnbindNumber(q)

TrunkStep(q) ==
    \/ Create(q) \/ Update(q) \/ Delete(q)
    \/ \E op \in {"update", "delete", "set_out", "clear_out", "set_in", "clear_in",
                  "add_ip", "delete_ip", "create_endpoint"} : Get(q, op)
    \/ SetOutboundAuth(q) \/ ClearOutboundAuth(q) \/ SetInboundAuth(q) \/ ClearInboundAuth(q)
    \/ CreateSourceIP(q) \/ DeleteSourceIP(q) \/ OtherTrunk(q)
    \/ \E op \in {"update_endpoint", "delete_endpoint"}, e \in Endpoints : GetEndpoint(q, op, e)
    \/ CreateEndpoint(q) \/ UpdateEndpoint(q) \/ DeleteEndpoint(q)

\* tenancy: the owner deletes the organization; the rows stay.
OrganizationDeleted(q) ==
    /\ Single(q, "delete_organization") /\ organization' = "deleted"
    /\ UNCHANGED <<trunkVars, agentVars, numberVars>>

CheckStep(c) == Check(c) \/ Probe(c) \/ Mark(c)

-----------------------------------------------------------------------------
\* An INVITE.  The trunk it came in on was authenticated before, with a query of
\* its own.

RowsUnchanged == UNCHANGED <<request, traffic, organization, trunkVars, agentVars, numberVars>>

\* The query OpenSIPS routes a dialled number with.
Eligible(n, b) ==
    /\ number[n].status = "active" /\ number[n].trunked /\ number[n].voice
    /\ trunk.status = "active" /\ trunk.inbound
    /\ b = bound[n] /\ b # NoId /\ agent.status = "active" /\ OrganizationActive

OpenSipsRoute(i) ==            \* the ids go along as headers
    /\ invite[i] = NewInvite
    /\ \E n \in Numbers : /\ Eligible(n, bound[n])
                          /\ invite' = [invite EXCEPT ![i] = [pc |-> "routed", number |-> n,
                                                              binding |-> bound[n]]]
    /\ RowsUnchanged

Decides(i, pc, rows, next) ==  \* a statement of routing.Service.ResolveInbound
    /\ invite[i].pc = pc
    /\ invite' = [invite EXCEPT ![i].pc = IF NoRows(rows) THEN "rejected" ELSE next]
    /\ RowsUnchanged

GetInboundContext(i) ==        \* a row's number and agent never change
    Decides(i, "routed", GetVoiceAgentBindingByID(invite[i].number, invite[i].binding), "found")
ResolveInbound(i) ==
    Decides(i, "found", GetInboundCallContext(invite[i].number, invite[i].binding), "admitted")

InviteStep(i) == OpenSipsRoute(i) \/ GetInboundContext(i) \/ ResolveInbound(i)

Witnessed == {i \in Invites : invite[i].pc = "found" /\ Eligible(invite[i].number, invite[i].binding)}
Witness == whole' = whole \cup Witnessed'

RequestStep(q) ==
    \/ NumberStep(q)
    \/ TrunkStep(q) /\ UNCHANGED <<agentVars, numberVars>>
    \/ AgentStep(q) /\ UNCHANGED <<trunkVars, numberVars>>
    \/ OrganizationDeleted(q)

JobUnchanged == UNCHANGED <<agentVars, numberVars, inviteVars>>

TelNext ==
    \/ \E q \in Requests : RequestStep(q) /\ UNCHANGED invite /\ Witness
    \/ \E i \in Invites : InviteStep(i) /\ Witness
    \/ \E c \in Checkers : (CheckStep(c) \/ Crash(c)) /\ JobUnchanged
    \/ \E e \in Endpoints : (Tick(e) \/ Flap(e)) /\ JobUnchanged

\* The tables are empty or as finished requests have left them: no request and no
\* check is in flight, an earlier request's digest row goes with the method (the
\* statements write both), a role has one binding (its primary key).
TelInit ==
    /\ RequestInit
    /\ trunk \in Trunk /\ sources \subseteq TrunkSourceIp /\ rivals \subseteq TrunkSourceIp
    /\ digest \in [{"inbound", "outbound"} -> {Earlier, NoId}]
    /\ trunk.inAuth = "digest" => digest["inbound"] # NoId
    /\ endpoint \in [Endpoints -> TrunkEndpoint] /\ answers \subseteq Endpoints
    /\ checker = [c \in Checkers |-> IdleChecker] /\ crashes = 0
    /\ agent \in VoiceAgent /\ agent.active = Never
    /\ binding \subseteq VoiceAgentProviderBinding
    /\ \A c, d \in binding : RoleOf[c] = RoleOf[d] => c = d
    /\ credential \in [Credentials -> AiProviderCredential] /\ tool \in [Tools -> VoiceAgentTool]
    /\ number \in [Numbers -> PhoneNumber] /\ bound \in [Numbers -> {Earlier, NoId}]
    /\ invite = [i \in Invites |-> NewInvite] /\ whole = {}

TelSpec == TelInit /\ [][TelNext]_telVars

\* Each job's loop goes on (Run ticks for ever) and time passes.
TelFairness ==
    /\ \A c \in Checkers : WF_telVars(CheckStep(c) /\ JobUnchanged)
    /\ \A e \in Endpoints : WF_telVars(Tick(e) /\ JobUnchanged)

-----------------------------------------------------------------------------
\* Properties.

\* AdmittedWasWhole: a call is admitted only if, at some one moment since the
\* worker began to revalidate it, OpenSIPS's query would still have routed it by
\* the same ids: number, trunk, binding, agent and organization that were each
\* in order at another moment are not enough, nor is the binding's successor
\* (routing/repository.go:33-60, opensips.cfg:362-372).
AdmittedWasWhole == \A i \in Invites : invite[i].pc = "admitted" => i \in whole
=============================================================================
