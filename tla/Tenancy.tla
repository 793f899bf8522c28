------------------------------ MODULE Tenancy -------------------------------
(***************************************************************************)
(* tenancy/members, organization and credentials, platform/networking,     *)
(* platform/entitlements and the tokens of security/scim, behind the chain  *)
(* of Access.  The services check the requester's role once more, and the   *)
(* statements that change members and credentials once again, in an EXISTS  *)
(* over the requester's own row.  A statement sees that row as it was when  *)
(* the statement started, and the row it changes as it is once no other     *)
(* transaction holds it: two steps here, StartStatement and the change.     *)
(***************************************************************************)
EXTENDS Access

Admin == {"owner", "admin"}
AssignableRoles == {"admin", "member"}     \* what normalizeRole accepts, but for the owner's

\* The requester's rows in a statement's snapshot.
Snapshot(u) == [role |-> member[u].role, status |-> member[u].status,
                enabled |-> Enabled(u), open |-> OrganizationActive]
ActorExists(snap) == snap.status = "active" /\ snap.role \in Admin

-----------------------------------------------------------------------------
\* The statements.

CreateOrganizationWithOwner(u) ==
    Returning(organization = "none" /\ Enabled(u), [member EXCEPT ![u] = [NoMember EXCEPT !.role = "owner"]])
DeleteOrganization == IF organization = "active" THEN "deleted" ELSE organization

AddOrganizationMember(snap, v, role) ==
    Returning(member[v].role = "none" /\ Enabled(v) /\ ActorExists(snap),
              [role |-> role, status |-> "active"])

UpdateMemberRole(snap, v, role) ==
    Returning(member[v].status = "active" /\ member[v].role \notin {"none", "owner"} /\ ActorExists(snap),
              [member[v] EXCEPT !.role = role])

\* Mutant: leaves it to requireAdmin.
DisableMemberOfAny(snap, v) ==
    Returning(member[v].status = "active" /\ member[v].role \notin {"none", "owner"},
              [member[v] EXCEPT !.status = "disabled"])

DisableOrganizationMember(snap, v) ==
    Returning(member[v].status = "active" /\ member[v].role \notin {"none", "owner"} /\ ActorExists(snap),
              [member[v] EXCEPT !.status = "disabled"])

CreateOrganizationToken(snap, t, scoped) ==
    Returning(token[t].state = "none" /\ snap.open /\ snap.enabled /\ ActorExists(snap),
              [state |-> "active", scoped |-> scoped, over |-> FALSE])

\* Mutant: an update makes the token usable again.
RestoreOrganizationToken(snap, t, scoped, over) ==
    Returning(token[t].state # "none" /\ snap.open /\ ActorExists(snap),
              [state |-> "active", scoped |-> scoped, over |-> over])

UpdateOrganizationToken(snap, t, scoped, over) ==
    Returning(token[t].state # "none" /\ snap.open /\ ActorExists(snap),
              [token[t] EXCEPT !.scoped = scoped, !.over = over])

DisableOrganizationToken(snap, t) ==
    Returning(token[t].state = "active" /\ ActorExists(snap), [token[t] EXCEPT !.state = "disabled"])

CreateSCIMToken == Returning(scim.state = "none", [state |-> "active", over |-> FALSE])
RevokeSCIMToken == Returning(scim.state = "active", [scim EXCEPT !.state = "revoked"])

CreateNetworkPolicy(id, action, net) ==
    <<[id |-> id, action |-> action, net |-> net, status |-> "active"]>> \o policy
UpdateNetworkPolicy(i, action, net, status) ==
    [policy EXCEPT ![i].action = action, ![i].net = net, ![i].status = status]
DeleteNetworkPolicy(i) == RemoveAt(policy, i)

-----------------------------------------------------------------------------
\* members/service.go and organization/service.go.  todo is the row to change.

ServiceUnchanged == UNCHANGED <<organization, accountVars, accessVars>>

CreateOrganization(q) ==             \* behind the session alone
    /\ Free(q, "create_organization") /\ Answer(q)
    /\ \E s \in Sessions : \E row \in GetSessionByTokenHash(s) :
          /\ member' \in CreateOrganizationWithOwner(row.user)
          /\ organization' = "active"
    /\ UNCHANGED <<accountVars, token, scim, policy, entitled>>

requireAdmin(q) ==
    /\ request[q].op \in MemberOps /\ request[q].pc = "access"
    /\ IF \E row \in GetOrganizationMember(request[q].on) : row.role \in Admin
       THEN Goto(q, "admin", {}, {}) ELSE Answer(q)
    /\ ServiceUnchanged

requireRole(q) ==
    /\ At(q, "delete_organization", "access")
    /\ IF \E row \in GetOrganizationMember(request[q].on) : row.role = "owner"
       THEN Goto(q, "owner", {}, {}) ELSE Answer(q)
    /\ ServiceUnchanged

DeletesOrganization(q) ==
    /\ At(q, "delete_organization", "owner")
    /\ organization' = DeleteOrganization
    /\ Answer(q) /\ UNCHANGED <<accountVars, accessVars>>

FindTarget(q) ==                     \* the owner is neither demoted nor removed
    /\ request[q].op \in MemberOps /\ request[q].pc = "admin"
    /\ \E v \in Users :
          IF \/ request[q].op = "add_member"
             \/ \E row \in GetOrganizationMember(v) : row.role # "owner"
          THEN Goto(q, "target", {}, {v}) ELSE Answer(q)
    /\ ServiceUnchanged

FindCredential(q) ==                 \* credentials/service.go reads nothing before it writes
    /\ request[q].op \in CredentialOps /\ request[q].pc = "access"
    /\ \E t \in Tokens : Goto(q, "target", {}, {t})
    /\ ServiceUnchanged

StartStatement(q) ==
    /\ request[q].pc = "target"
    /\ Goto(q, "statement", {Snapshot(request[q].on)}, request[q].todo)
    /\ ServiceUnchanged

SaveMember(q, v, rows) == /\ IF NoRows(rows) THEN UNCHANGED member
                             ELSE \E row \in rows : member' = [member EXCEPT ![v] = row]
                          /\ Answer(q)
                          /\ UNCHANGED <<organization, accountVars, token, scim, policy, entitled>>

AddMember(q) ==
    /\ At(q, "add_member", "statement")
    /\ \E snap \in request[q].saw, v \in request[q].todo, role \in AssignableRoles :
          SaveMember(q, v, AddOrganizationMember(snap, v, role))

UpdateMember(q) ==
    /\ At(q, "update_member", "statement")
    /\ \E snap \in request[q].saw, v \in request[q].todo, role \in AssignableRoles :
          SaveMember(q, v, UpdateMemberRole(snap, v, role))

DeleteMember(q) ==
    /\ At(q, "delete_member", "statement")
    /\ \E snap \in request[q].saw, v \in request[q].todo :
          SaveMember(q, v, DisableOrganizationMember(snap, v))

-----------------------------------------------------------------------------
\* credentials/service.go

SaveToken(q, t, rows) == /\ IF NoRows(rows) THEN UNCHANGED token
                            ELSE \E row \in rows : token' = [token EXCEPT ![t] = row]
                         /\ Answer(q)
                         /\ UNCHANGED <<organization, accountVars, member, scim, policy, entitled>>

CreateOrgCredential(q) ==
    /\ At(q, "create_token", "statement")
    /\ \E snap \in request[q].saw, t \in request[q].todo, scoped \in BOOLEAN :
          SaveToken(q, t, CreateOrganizationToken(snap, t, scoped))

UpdateOrgCredential(q) ==               \* the expiry may be set to any time
    /\ At(q, "update_token", "statement")
    /\ \E snap \in request[q].saw, t \in request[q].todo, scoped, over \in BOOLEAN :
          SaveToken(q, t, UpdateOrganizationToken(snap, t, scoped, over))

DisableOrgCredential(q) ==
    /\ At(q, "disable_token", "statement")
    /\ \E snap \in request[q].saw, t \in request[q].todo :
          SaveToken(q, t, DisableOrganizationToken(snap, t))

-----------------------------------------------------------------------------
\* scim/service.go, networking/service.go, entitlements/service.go

SaveSCIM(q, op, rows) == /\ At(q, op, "entitled")
                         /\ IF NoRows(rows) THEN UNCHANGED scim ELSE scim' \in rows
                         /\ Answer(q)
                         /\ UNCHANGED <<organization, accountVars, member, token, policy, entitled>>
CreateToken(q) == SaveSCIM(q, "create_scim", CreateSCIMToken)
RevokeToken(q) == SaveSCIM(q, "revoke_scim", RevokeSCIMToken)

PolicyUnchanged == UNCHANGED <<organization, accountVars, member, token, scim, entitled>>

CreatePolicy(q) ==
    /\ At(q, "create_policy", "entitled")
    /\ \E action \in {"allow", "deny"}, net \in Networks : policy' = CreateNetworkPolicy(q, action, net)
    /\ Answer(q) /\ PolicyUnchanged

UpdatePolicy(q) ==
    /\ At(q, "update_policy", "entitled")
    /\ \E i \in DOMAIN policy, action \in {"allow", "deny"}, net \in Networks,
          status \in {"active", "disabled"} : policy' = UpdateNetworkPolicy(i, action, net, status)
    /\ Answer(q) /\ PolicyUnchanged

DeletePolicy(q) ==
    /\ At(q, "delete_policy", "entitled")
    /\ \E i \in DOMAIN policy : policy' = DeleteNetworkPolicy(i)
    /\ Answer(q) /\ PolicyUnchanged

SetEntitlement(q, capability) ==     \* by the commercial system
    /\ Single(q, "entitle")
    /\ entitled' \in {entitled \ {capability}, entitled \cup {capability}}
    /\ UNCHANGED <<organization, accountVars, member, token, scim, policy>>

ServiceStep(q) ==
    \/ CreateOrganization(q) \/ requireAdmin(q) \/ requireRole(q) \/ DeletesOrganization(q)
    \/ FindTarget(q) \/ FindCredential(q) \/ StartStatement(q) \/ AddMember(q) \/ UpdateMember(q) \/ DeleteMember(q)
    \/ CreateOrgCredential(q) \/ UpdateOrgCredential(q) \/ DisableOrgCredential(q)
    \/ CreateToken(q) \/ RevokeToken(q) \/ CreatePolicy(q) \/ UpdatePolicy(q) \/ DeletePolicy(q)
    \/ \E capability \in Capabilities : SetEntitlement(q, capability)

TokenExpires(t) ==
    /\ token[t].state # "none" /\ ~token[t].over /\ token' = [token EXCEPT ![t].over = TRUE]
    /\ UNCHANGED <<request, traffic, organization, accountVars, member, scim, policy, entitled>>
ScimExpires ==
    /\ scim.state # "none" /\ ~scim.over /\ scim' = [scim EXCEPT !.over = TRUE]
    /\ UNCHANGED <<request, traffic, organization, accountVars, member, token, policy, entitled>>

tenancyVars == <<request, traffic, organization, accountVars, accessVars>>

TenancyTypeOK ==
    /\ user \in [Users -> User] /\ login \in [Logins -> AuthTransaction]
    /\ session \in [Sessions -> Session]
    /\ member \in [Users -> OrganizationMember] /\ token \in [Tokens -> OrganizationToken]
    /\ scim \in ScimToken /\ policy \in Seq(NetworkPolicy) /\ entitled \subseteq Capabilities

\* An organization that exists has one owner, active.
OneOwner ==
    organization # "none" =>
       \E u \in Users : /\ member[u] = [role |-> "owner", status |-> "active"]
                        /\ \A v \in Users \ {u} : member[v].role # "owner"

\* The requests find rows that finished ones may have left; the sessions there
\* are older than the transactions there are.
TenancyInit ==
    /\ request = [q \in Requests |-> Unbegun] /\ traffic \in Traffic
    /\ TenancyTypeOK /\ organization \in {"none", "active", "deleted"}
    /\ OneOwner /\ (organization = "none" => \A u \in Users : member[u].role # "owner")
    /\ \A s \in Sessions : /\ session[s].login = NoId
                           /\ session[s] = NoSession \/ (s \in Users /\ session[s].user \in Users)

TenancyNext ==
    \/ \E q \in Requests : (LoginStep(q) \/ AccountStep(q)) /\ UNCHANGED accessVars
    \/ \E q \in Requests : ChainStep(q)
    \/ \E q \in Requests : ServiceStep(q)
    \/ \E x \in Logins : LoginExpires(x) /\ UNCHANGED accessVars
    \/ \E s \in Sessions : SessionExpires(s) /\ UNCHANGED accessVars
    \/ \E t \in Tokens : TokenExpires(t)
    \/ ScimExpires

TenancySpec == TenancyInit /\ [][TenancyNext]_tenancyVars

-----------------------------------------------------------------------------
\* Properties.

\* AdminsAct: a request changes members or credentials only if its session's
\* user was an active owner or admin when its last statement started, not
\* merely when the chain and requireAdmin looked.  "Creating, updating, and
\* revoking organization tokens requires an owner/admin session"
\* (authz/scopes.go:11-13, members/service.go:162-178).  And whatever members
\* are added, given roles and removed by requests that judged its rows earlier,
\* the organization keeps its one owner: "organization owner cannot be demoted"
\* nor "removed" (members/service.go:85-150).
AdminsAct ==
    [][/\ OneOwner'
       /\ \A q \in Requests :
          request'[q] # request[q] /\ request[q].op \in MemberOps \cup CredentialOps
             /\ (member' # member \/ token' # token) =>
                \E snap \in request[q].saw : snap.status = "active" /\ snap.role \in Admin]_tenancyVars

\* RevokedStaysOut: a session, an organization token or a SCIM token that was
\* revoked or disabled, or whose user was, never resolves again, whatever
\* requests were under way (session/service.go:130-160, credentials/
\* service.go:88-110, scim/service.go:57-69).
RevokedStaysOut ==
    [][/\ \A s \in Sessions : session[s].state = "revoked" \/ (session[s].state # "none" /\ ~Enabled(session[s].user))
             => GetSessionByTokenHash(s)' = {}
       /\ \A t \in Tokens : token[t].state = "disabled" => GetOrganizationTokenByTokenHash(t)' = {}
       /\ scim.state = "revoked" => GetActiveSCIMTokenByHash' = {}]_tenancyVars

\* PolicyPrecedence: whatever their order, the policies decide as their
\* comment says: "a matching deny always wins; otherwise a matching allow
\* permits access.  When any active allow rule exists, unmatched addresses
\* are denied", and else allowed (networking/evaluation.go:5-8).
PolicyPrecedence ==
    LET active == {p \in ToSet(policy) : p.status = "active"}
        Matching(action, address) == \E p \in active : p.action = action /\ address \in p.net
    IN  \A address \in Addresses :
           Allows(policy, address) <=>
              /\ ~Matching("deny", address)
              /\ Matching("allow", address) \/ \A p \in active : p.action # "allow"
=============================================================================
