------------------------------- MODULE MCApi -------------------------------
(***************************************************************************)
(* Instances of Tenancy: an organization of an owner and an admin, and a   *)
(* user outside it; two login transactions; one organization token.         *)
(* A behaviour runs the requests of one traffic mix on rows that finished   *)
(* requests may have left, or, in the scene "keys", four requests with      *)
(* idempotency keys: three with one key, the last one for another path, and *)
(* one with a key of its own.                                               *)
(***************************************************************************)
EXTENDS Tenancy, Idempotency

CONSTANTS r1, r2, r3, r4, k1, k2, post, other

VARIABLE scene

KeyOfValue == [r \in {r1, r2, r3, r4} |-> IF r = r4 THEN k2 ELSE k1]
PrintOfValue == [r \in {r1, r2, r3, r4} |-> IF r = r3 THEN other ELSE post]

Mix(ops1, ops2, ops3) == [q \in Requests |-> CASE q = "q1" -> ops1 [] q = "q2" -> ops2 [] OTHER -> ops3]

LoginOps == {"send_otp", "verify", "password"}
LoginTraffic == Mix({"password"}, LoginOps, LoginOps)
StartTraffic == Mix({"start"}, LoginOps, {"delete_user"})
AccountTraffic == Mix({"password"}, {"set_password", "delete_user", "revoke", "revoke_all"},
                      {"revoke", "revoke_all"})
MemberTraffic == Mix(MemberOps, MemberOps, {"delete_organization", "delete_user"})
CredentialTraffic == Mix(CredentialOps, {"update_token", "disable_token"}, {"update_member", "delete_member"})
PolicyTraffic == Mix({"create_policy"}, NetworkingOps, NetworkingOps \ {"create_policy"})
ScimTraffic == Mix(ScimOps, {"revoke_scim", "disable_token"}, {"entitle"})
FoundingTraffic == Mix({"create_organization"}, {"create_organization", "add_member"}, {"add_member", "create_token"})
AllTraffic == {LoginTraffic, StartTraffic, AccountTraffic, MemberTraffic, CredentialTraffic,
               PolicyTraffic, ScimTraffic, FoundingTraffic}

Logs == traffic \in {LoginTraffic, AccountTraffic}
Founding == traffic = FoundingTraffic
Fresh == [disabled |-> FALSE, enrolled |-> TRUE]
Row(role) == [role |-> role, status |-> "active"]

MCInit ==
    /\ scene \in {"keys", "tenancy"} /\ IdemInit
    /\ request = [q \in Requests |-> Unbegun]
    /\ traffic \in IF scene = "keys" THEN {FoundingTraffic} ELSE Traffic
    /\ organization = IF Founding THEN "none" ELSE "active"
    /\ user = [u \in Users |-> Fresh]
    /\ login = [x \in Logins |-> [state |-> IF Logs THEN "started" ELSE "none", over |-> FALSE,
                               user |-> IF x = "x1" THEN "ann" ELSE "bob"]]
    /\ session = [s \in Sessions |-> IF s \in Users THEN [NoSession EXCEPT !.state = "live", !.user = s]
                                     ELSE NoSession]
    /\ member = [u \in Users |-> IF Founding THEN NoMember
                                 ELSE CASE u = "owner" -> Row("owner") [] u = "ann" -> Row("admin")
                                        [] OTHER -> NoMember]
    /\ token = [t \in Tokens |-> IF traffic \in {CredentialTraffic, ScimTraffic, PolicyTraffic}
                                 THEN [state |-> "active", scoped |-> TRUE, over |-> FALSE] ELSE NoToken]
    /\ scim = [state |-> "none", over |-> FALSE]
    /\ policy = <<>>
    /\ entitled = Capabilities

MCNext ==
    /\ \/ scene = "tenancy" /\ TenancyNext /\ UNCHANGED idemVars
       \/ scene = "keys" /\ IdemNext /\ UNCHANGED tenancyVars
    /\ UNCHANGED scene

MCSpec == MCInit /\ [][MCNext]_<<tenancyVars, idemVars, scene>>
=============================================================================
