------------------------------- MODULE Access -------------------------------
(***************************************************************************)
(* What a request of an organization's API passes before its service runs: *)
(* platform/middleware with the tables it reads (members, organization      *)
(* tokens, network policies, entitlements).  Session or token, membership,  *)
(* source address, role or scope, capability: each is a read of its own,    *)
(* and each answer may be stale by the time the service's statement runs.   *)
(***************************************************************************)
EXTENDS Accounts, Sequences, SequencesExt

CONSTANTS Tokens,            \* organization_tokens ids
          Addresses,         \* source addresses
          Networks           \* CIDRs: sets of addresses

ASSUME AccessAssumption == /\ Tokens \cap (Users \cup Requests \cup {NoId}) = {}
                           /\ \A net \in Networks : net \subseteq Addresses

VARIABLES member,            \* organization_members
          token,             \* organization_tokens
          scim,              \* a row of scim_tokens
          policy,            \* network_policies, newest first
          entitled           \* entitlements: the enabled capabilities

accessVars == <<member, token, scim, policy, entitled>>

OrganizationMember == [role : {"none", "owner", "admin", "member"}, status : {"active", "disabled"}]
OrganizationToken == [state : {"none", "active", "disabled"}, scoped : BOOLEAN, over : BOOLEAN]
ScimToken == [state : {"none", "active", "revoked"}, over : BOOLEAN]
NetworkPolicy == [id : Requests, action : {"allow", "deny"}, net : Networks,
                  status : {"active", "disabled"}]
Capabilities == {"networking", "scim"}

NoMember == [role |-> "none", status |-> "active"]
NoToken == [state |-> "none", scoped |-> FALSE, over |-> FALSE]

GetOrganizationMember(u) ==
    Returning(/\ member[u].role # "none" /\ member[u].status = "active"
              /\ Enabled(u) /\ OrganizationActive, member[u])
GetOrganizationTokenByTokenHash(t) ==
    Returning(token[t].state = "active" /\ ~token[t].over /\ OrganizationActive, token[t])
GetActiveSCIMTokenByHash == Returning(scim.state = "active" /\ ~scim.over, scim)
GetEntitlement(capability) == capability \in entitled
ListNetworkPolicies == policy        \* ORDER BY created_at DESC

\* Mutant: the first policy that matches decides.
AllowsFirstMatch(policies, address) ==
    LET matching == SelectSeq(policies, LAMBDA p : p.status = "active" /\ address \in p.net)
    IN  IF matching # <<>> THEN Head(matching).action = "allow"
        ELSE \A i \in DOMAIN policies : ~(policies[i].status = "active" /\ policies[i].action = "allow")

\* The loop of Allows: what is known after each policy; a matching deny ends it.
Unevaluated == [hasAllow |-> FALSE, matchedAllow |-> FALSE, denied |-> FALSE]
Evaluate(so, p, address) ==
    IF so.denied \/ p.status # "active" THEN so
    ELSE [hasAllow |-> so.hasAllow \/ p.action = "allow",
          matchedAllow |-> so.matchedAllow \/ (p.action = "allow" /\ address \in p.net),
          denied |-> p.action = "deny" /\ address \in p.net]
Evaluation(policies, address) ==
    LET after[i \in 0 .. Len(policies)] ==
            IF i = 0 THEN Unevaluated ELSE Evaluate(after[i - 1], policies[i], address)
    IN  after

Allows(policies, address) ==
    LET end == Evaluation(policies, address)[Len(policies)]
    IN  ~end.denied /\ (end.matchedAllow \/ ~end.hasAllow)

-----------------------------------------------------------------------------
\* The chain: RequireSession or RequireAuthenticated; Require; Enforce and
\* RequireAccess; the capability.  request[q].on is the principal; saw its
\* role, or "scoped" or "unscoped" for a token.

MemberOps == {"add_member", "update_member", "delete_member"}
CredentialOps == {"create_token", "update_token", "disable_token"}
NetworkingOps == {"create_policy", "update_policy", "delete_policy"}
ScimOps == {"create_scim", "revoke_scim"}
OrganizationOps == MemberOps \cup CredentialOps \cup NetworkingOps \cup ScimOps \cup {"delete_organization"}

AccessUnchanged == UNCHANGED <<organization, accountVars, accessVars>>

RequireSession(q, op) == /\ op \in OrganizationOps /\ ResolveSession(q, op) /\ UNCHANGED accessVars

RequireAuthenticated(q, op) ==       \* a bearer token; with none, the session
    /\ op \in NetworkingOps \cup ScimOps
    /\ \E t \in Tokens : \E row \in GetOrganizationTokenByTokenHash(t) :
          Begin(q, op, t, {IF row.scoped THEN "scoped" ELSE "unscoped"})
    /\ AccessUnchanged

Require(q) ==
    /\ request[q].op \in OrganizationOps /\ request[q].pc = "begun"
    /\ IF request[q].saw # {} THEN Goto(q, "member", request[q].saw, {})
       ELSE LET rows == GetOrganizationMember(request[q].on)
            IN  IF NoRows(rows) THEN Answer(q) ELSE Goto(q, "member", {row.role : row \in rows}, {})
    /\ AccessUnchanged

Permitted(op) == CASE op = "delete_organization" -> {"owner"}
                   [] op \in NetworkingOps \cup ScimOps -> {"owner", "admin", "scoped"}
                   [] OTHER -> {"owner", "admin"}

RequireAccess(q) ==                  \* Enforce reads the policies; the role is the one read before
    /\ request[q].pc = "member"
    /\ \E address \in Addresses :
          IF Allows(ListNetworkPolicies, address) /\ request[q].saw \subseteq Permitted(request[q].op)
          THEN Goto(q, "access", {}, {}) ELSE Answer(q)
    /\ AccessUnchanged

CapabilityOf(op) == IF op \in NetworkingOps THEN "networking" ELSE "scim"
RequireCapability(q) ==
    /\ request[q].op \in NetworkingOps \cup ScimOps /\ request[q].pc = "access"
    /\ IF GetEntitlement(CapabilityOf(request[q].op)) THEN Goto(q, "entitled", {}, {}) ELSE Answer(q)
    /\ AccessUnchanged

ChainStep(q) ==
    \/ \E op \in OrganizationOps : RequireSession(q, op) \/ RequireAuthenticated(q, op)
    \/ Require(q) \/ RequireAccess(q) \/ RequireCapability(q)
=============================================================================
