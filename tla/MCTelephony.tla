---------------------------- MODULE MCTelephony ----------------------------
(***************************************************************************)
(* Instances of Numbers (with Trunks and AgentConfig).  A behaviour starts  *)
(* from a configuration that finished requests leave behind and runs the    *)
(* requests of one traffic mix.                                             *)
(***************************************************************************)
EXTENDS Numbers

Mix(ops1, ops2, ops3) == [q \in Requests |-> CASE q = "q1" -> ops1 [] q = "q2" -> ops2 [] OTHER -> ops3]

AuthOps == {"set_out", "clear_out", "set_in", "clear_in"}
TrunkOps == AuthOps \cup {"create", "update", "delete"}
SourceOps == {"add_ip", "delete_ip", "other_trunk"}
EndpointOps == {"delete", "create_endpoint", "update_endpoint", "delete_endpoint"}
RouteOps == {"update", "disable_agent", "create_number", "update_number", "set_trunk",
             "release_number", "bind_number", "unbind_number", "delete_organization"}
ToolOps == {"create_tool", "update_tool", "delete_tool"}
IntegrationOps == {"verify", "rotate", "create_credential", "delete_credential"}

AuthTraffic == Mix(TrunkOps, TrunkOps, AuthOps)
SourceTraffic == Mix(SourceOps, SourceOps, {"other_trunk", "update", "set_in", "clear_in"})
HealthTraffic == Mix(EndpointOps, {}, {})
RouteTraffic == Mix(RouteOps, RouteOps, RouteOps)
DraftTraffic == Mix({"create_agent", "update_agent"}, {"activate"}, {"bind"})
ToolTraffic == Mix({"activate"}, ToolOps, ToolOps)
IntegrationTraffic == Mix({"activate"}, IntegrationOps, {"bind", "unbind", "delete_credential"})
AllTraffic == {AuthTraffic, SourceTraffic, HealthTraffic, RouteTraffic, DraftTraffic, ToolTraffic,
               IntegrationTraffic}

CredentialRoles == [c \in Credentials |->
    CASE c = "openai1" -> "realtime" [] c = "openai2" -> "realtime"
      [] c = "deepgram" -> "stt" [] c = "groq" -> "llm" [] OTHER -> "tts"]

BindingBundles == {{"openai2"}, {"openai1", "groq"}, {"deepgram", "groq", "cartesia"}}

\* The tables a mix does not touch are at rest in one state.
ATrunk(out, in, inbound) ==
    [status |-> "active", direction |-> "bidirectional", inbound |-> inbound,
     outAuth |-> out, inAuth |-> in]
AnEndpoint == [NoEndpoint EXCEPT !.state = "enabled"]
AnUnhealthyEndpoint == [AnEndpoint EXCEPT !.health = "unhealthy", !.failures = Threshold,
                                          !.due = FALSE, !.cooling = TRUE]
ANumber == [status |-> "active", trunked |-> TRUE, voice |-> TRUE]
ADraft(engine) == [status |-> "active", engine |-> engine, revision |-> 1, active |-> Never]
Bound(engine) == IF engine = "integrated" THEN {"openai1"} ELSE {"deepgram", "groq", "cartesia"}

InitTrunk ==
    \/ /\ traffic = AuthTraffic
       /\ \/ trunk = [ATrunk("none", "ip", FALSE) EXCEPT !.status = "none"]
          \/ \E out \in {"none", "digest"}, in \in {"ip", "digest"} : trunk = ATrunk(out, in, TRUE)
       /\ sources \in {{}, SourceIPs} /\ rivals = {}
    \/ /\ traffic = SourceTraffic
       /\ \E in \in {"ip", "digest"} : trunk = ATrunk("none", in, TRUE)
       /\ sources \in SUBSET SourceIPs /\ rivals \in SUBSET SourceIPs
    \/ /\ traffic \notin {AuthTraffic, SourceTraffic}
       /\ trunk = ATrunk("none", "ip", TRUE) /\ sources = SourceIPs /\ rivals = {}
InitEndpoint ==
    IF traffic = HealthTraffic
    THEN /\ endpoint \in [Endpoints -> {AnEndpoint, AnUnhealthyEndpoint}]
         /\ answers \in SUBSET Endpoints
    ELSE /\ endpoint = [e \in Endpoints |-> NoEndpoint] /\ answers = Endpoints
InitAgent ==
    IF traffic \in {AuthTraffic, SourceTraffic, HealthTraffic, RouteTraffic}
    THEN agent = ADraft("integrated") /\ binding = {} /\ credential = [c \in Credentials |-> "none"]
    ELSE /\ \/ \E engine \in Engines : agent = ADraft(engine) /\ binding = Bound(engine)
            \/ /\ traffic = DraftTraffic
               /\ agent = [ADraft("integrated") EXCEPT !.status = "none"] /\ binding = {}
         /\ credential = [c \in Credentials |-> "ready"]

MCInit ==
    /\ RequestInit
    /\ InitTrunk
    /\ digest = [side \in {"inbound", "outbound"} |->
                    IF trunk.status # "none"
                       /\ (IF side = "inbound" THEN trunk.inAuth ELSE trunk.outAuth) = "digest"
                    THEN Earlier ELSE NoId]
    /\ InitEndpoint
    /\ checker = [c \in Checkers |-> IdleChecker]
    /\ crashes = 0
    /\ InitAgent
    /\ tool = [t \in Tools |-> "none"]
    /\ \/ number = [n \in Numbers |-> NoNumber] /\ bound = [n \in Numbers |-> NoId]
       \/ traffic = RouteTraffic /\ number = [n \in Numbers |-> ANumber] /\ bound = [n \in Numbers |-> Earlier]
    /\ TelInit

MCSpec == MCInit /\ [][TelNext]_telVars /\ TelFairness
=============================================================================
