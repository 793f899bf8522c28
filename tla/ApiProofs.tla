----------------------------- MODULE ApiProofs ------------------------------
(***************************************************************************)
(* Theorems of the API's requests, for any number of them.                 *)
(*                                                                         *)
(* Idempotency: an answered request was given the response of an execution *)
(* of its own key and content, and a key's handler runs once per lease.    *)
(*                                                                         *)
(* Accounts and Tenancy: a session stays that of an authenticated login,   *)
(* members and tokens change only for an admin, and what is revoked stays  *)
(* out.  A request checks in one statement and acts in a later one, so the *)
(* invariant says what a check leaves true whatever others do meanwhile.   *)
(* Access: the one pass over the network policies decides by precedence,   *)
(* for a list of any length; in place of induction, the shortest prefix    *)
(* on which it would go wrong is shown not to exist.                       *)
(*                                                                         *)
(* Numbers: a valid trunk is served, an activated agent is complete and an *)
(* admitted INVITE found its number whole, for any requests on trunks,     *)
(* agents and numbers.                                                     *)
(***************************************************************************)
EXTENDS Tenancy, Numbers, Idempotency, FiniteSetTheorems, WellFoundedInduction, TLAPS

-----------------------------------------------------------------------------
\* Idempotency.

Records == [st : {"none", "processing", "completed"}, holder : KeyedRequests \cup {NoRequest},
            lapsed : BOOLEAN, expired : BOOLEAN]

IdemTypeOK ==
    /\ record \in [Keys -> Records]
    /\ req \in [KeyedRequests -> {"claim", "run", "get", "complete", "done", "error", "conflict", "busy"}]
    /\ answer \in [KeyedRequests -> KeyedRequests \cup {NoRequest}]
    /\ executed \subseteq KeyedRequests
    /\ takeovers \in [Keys -> Nat]

\* A stored record is of a request with its key, and a stored response of one
\* whose handler ran: the lease is what Complete writes under.
RecordIsOfItsKey ==
    \A k \in Keys : record[k].st # "none" =>
       /\ record[k].holder \in KeyedRequests /\ KeyOf[record[k].holder] = k
       /\ record[k].st = "completed" => record[k].holder \in executed

CompletesWhatRan == \A r \in KeyedRequests : req[r] = "complete" => r \in executed

AnswerInv == IdemTypeOK /\ RecordIsOfItsKey /\ CompletesWhatRan /\ AnswerIsOwn

LEMMA AnswerInvInit == IdemInit => AnswerInv
BY IdempotencyAssumption DEF IdemInit, AnswerInv, IdemTypeOK, RecordIsOfItsKey, CompletesWhatRan, AnswerIsOwn,
   Records, NoRecord

\* The rows that the statements write are records.
LEMMA RecordTypes ==
    /\ NoRecord \in Records
    /\ \A r \in KeyedRequests : Claimed(r) \in Records
    /\ \A row \in Records :
          /\ [row EXCEPT !.lapsed = TRUE] \in Records
          /\ [row EXCEPT !.expired = TRUE] \in Records
          /\ [row EXCEPT !.st = "completed", !.lapsed = TRUE] \in Records
BY DEF Records, NoRecord, Claimed

LEMMA AnswerInvStep == AnswerInv /\ [IdemNext]_idemVars => AnswerInv'
<1> SUFFICES ASSUME AnswerInv, [IdemNext]_idemVars PROVE AnswerInv'
  OBVIOUS
<1> USE IdempotencyAssumption DEF AnswerInv
<1>1. ASSUME NEW r \in KeyedRequests, ClaimKey(r) PROVE AnswerInv'
  <2>0. KeyOf[r] \in Keys
    OBVIOUS
  <2>1. IdemTypeOK'
    <3>1. record' = record \/ record' = [record EXCEPT ![KeyOf[r]] = Claimed(r)]
      BY <1>1 DEF ClaimKey
    <3>2. record' \in [Keys -> Records]
      BY <3>1, RecordTypes, <2>0 DEF IdemTypeOK
    <3> QED BY <1>1, <3>2 DEF ClaimKey, IdemTypeOK
  <2>2. RecordIsOfItsKey'
    <3>1. CASE record' = record
      BY <3>1, <1>1 DEF ClaimKey, RecordIsOfItsKey
    <3>2. CASE record' = [record EXCEPT ![KeyOf[r]] = Claimed(r)]
      <4> SUFFICES ASSUME NEW k \in Keys, record'[k].st # "none"
                   PROVE  /\ record'[k].holder \in KeyedRequests /\ KeyOf[record'[k].holder] = k
                          /\ record'[k].st = "completed" => record'[k].holder \in executed'
        BY DEF RecordIsOfItsKey
      <4>1. CASE k = KeyOf[r]
        BY <4>1, <3>2, <1>1 DEF ClaimKey, Claimed, IdemTypeOK
      <4>2. CASE k # KeyOf[r]
        BY <4>2, <3>2, <1>1 DEF ClaimKey, IdemTypeOK, RecordIsOfItsKey
      <4> QED BY <4>1, <4>2
    <3> QED BY <3>1, <3>2, <1>1 DEF ClaimKey
  <2>3. CompletesWhatRan'
    BY <1>1 DEF ClaimKey, IdemTypeOK, CompletesWhatRan
  <2>4. AnswerIsOwn'
    BY <1>1 DEF ClaimKey, IdemTypeOK, AnswerIsOwn, SamePrint
  <2> QED BY <2>1, <2>2, <2>3, <2>4
<1>2. ASSUME NEW r \in KeyedRequests, GetKey(r) PROVE AnswerInv'
  <2>0. KeyOf[r] \in Keys /\ record[KeyOf[r]] \in Records
    BY DEF IdemTypeOK
  <2>1. IdemTypeOK'
    BY <1>2, <2>0 DEF GetKey, IdemTypeOK, Records
  <2>2. RecordIsOfItsKey'
    BY <1>2 DEF GetKey, RecordIsOfItsKey
  <2>3. CompletesWhatRan'
    BY <1>2 DEF GetKey, IdemTypeOK, CompletesWhatRan
  <2>4. AnswerIsOwn'
    <3> SUFFICES ASSUME NEW s \in KeyedRequests, req'[s] = "done"
                 PROVE  /\ answer'[s] \in executed'
                        /\ KeyOf[answer'[s]] = KeyOf[s] /\ SamePrint(s, answer'[s])
      BY DEF AnswerIsOwn, SamePrint
    <3>1. CASE s # r
      BY <3>1, <1>2 DEF GetKey, IdemTypeOK, AnswerIsOwn
    <3>2. CASE s = r
      <4>1. record[KeyOf[r]].st = "completed" /\ SamePrint(r, record[KeyOf[r]].holder)
        BY <3>2, <1>2 DEF GetKey, IdemTypeOK
      <4>2. answer'[r] = record[KeyOf[r]].holder /\ executed' = executed
        BY <4>1, <1>2 DEF GetKey, IdemTypeOK
      <4> QED BY <4>1, <4>2, <2>0, <3>2 DEF RecordIsOfItsKey
    <3> QED BY <3>1, <3>2
  <2> QED BY <2>1, <2>2, <2>3, <2>4
<1>3. ASSUME NEW r \in KeyedRequests, Execute(r) PROVE AnswerInv'
  <2>1. executed \subseteq executed' /\ executed' \subseteq KeyedRequests /\ UNCHANGED <<record, answer, takeovers>>
    BY <1>3 DEF Execute, IdemTypeOK
  <2>2. IdemTypeOK'
    <3>1. \E pc \in {"complete", "error"} : req' = [req EXCEPT ![r] = pc]
      BY <1>3 DEF Execute
    <3> QED BY <3>1, <2>1 DEF IdemTypeOK
  <2>3. RecordIsOfItsKey'
    BY <2>1 DEF RecordIsOfItsKey
  <2>4. CompletesWhatRan'
    BY <1>3, <2>1 DEF Execute, IdemTypeOK, CompletesWhatRan
  <2>5. AnswerIsOwn'
    BY <1>3, <2>1 DEF Execute, IdemTypeOK, AnswerIsOwn, SamePrint
  <2> QED BY <2>2, <2>3, <2>4, <2>5
<1>4. ASSUME NEW r \in KeyedRequests, Complete(r) PROVE AnswerInv'
  <2>0. KeyOf[r] \in Keys /\ record[KeyOf[r]] \in Records /\ r \in executed
    BY <1>4 DEF IdemTypeOK, Complete, CompletesWhatRan
  <2> DEFINE new == [record[KeyOf[r]] EXCEPT !.st = "completed", !.lapsed = TRUE]
  <2>1. new \in Records /\ new.holder = record[KeyOf[r]].holder
    BY <2>0, RecordTypes DEF Records
  <2>2. \/ record' = record
        \/ record[KeyOf[r]].holder = r /\ record' = [record EXCEPT ![KeyOf[r]] = new]
    BY <1>4 DEF Complete
  <2>3. /\ req' = [req EXCEPT ![r] = "done"] /\ answer' = [answer EXCEPT ![r] = r]
        /\ UNCHANGED <<executed, takeovers>>
    BY <1>4 DEF Complete
  <2> HIDE DEF new
  <2>4. IdemTypeOK'
    BY <2>0, <2>1, <2>2, <2>3 DEF IdemTypeOK
  <2>5. RecordIsOfItsKey'
    BY <2>0, <2>1, <2>2, <2>3 DEF RecordIsOfItsKey, IdemTypeOK
  <2>6. CompletesWhatRan'
    BY <2>3 DEF IdemTypeOK, CompletesWhatRan
  <2>7. AnswerIsOwn'
    BY <2>0, <2>3 DEF IdemTypeOK, AnswerIsOwn, SamePrint
  <2> QED BY <2>4, <2>5, <2>6, <2>7
<1>5. ASSUME NEW k \in Keys, LeaseLapses(k) \/ RecordExpires(k) PROVE AnswerInv'
  <2>1. PICK new \in {[record[k] EXCEPT !.lapsed = TRUE], [record[k] EXCEPT !.expired = TRUE]} :
           record' = [record EXCEPT ![k] = new]
    BY <1>5 DEF LeaseLapses, RecordExpires
  <2>2. new \in Records /\ new.holder = record[k].holder /\ new.st = record[k].st
    <3>1. record[k] \in Records
      BY DEF IdemTypeOK
    <3> QED BY <3>1, <2>1 DEF Records
  <2>3. /\ UNCHANGED <<req, answer, executed>>
        /\ takeovers' = [takeovers EXCEPT ![k] = @ + 1]
    BY <1>5 DEF LeaseLapses, RecordExpires
  <2>4. IdemTypeOK'
    BY <2>1, <2>2, <2>3 DEF IdemTypeOK
  <2>5. RecordIsOfItsKey'
    BY <2>1, <2>2, <2>3 DEF RecordIsOfItsKey, IdemTypeOK
  <2>6. CompletesWhatRan' /\ AnswerIsOwn'
    BY <2>3 DEF CompletesWhatRan, AnswerIsOwn, SamePrint
  <2> QED BY <2>4, <2>5, <2>6
<1>6. CASE DeleteExpired
  <2>1. IdemTypeOK'
    BY <1>6, RecordTypes DEF DeleteExpired, IdemTypeOK
  <2>2. RecordIsOfItsKey'
    BY <1>6 DEF DeleteExpired, RecordIsOfItsKey, NoRecord
  <2>3. CompletesWhatRan' /\ AnswerIsOwn'
    BY <1>6 DEF DeleteExpired, CompletesWhatRan, AnswerIsOwn, SamePrint
  <2> QED BY <2>1, <2>2, <2>3
<1>7. CASE UNCHANGED idemVars
  BY <1>7 DEF idemVars, IdemTypeOK, RecordIsOfItsKey, CompletesWhatRan, AnswerIsOwn, SamePrint
<1> QED BY <1>1, <1>2, <1>3, <1>4, <1>5, <1>6, <1>7 DEF IdemNext

\* For any number of requests and keys, a client is answered with the response of
\* a handler that ran for its key, method, path and body: its own, or the stored one.
THEOREM AnswersAreOwn == IdemSpec => []AnswerIsOwn
<1>1. AnswerInv => AnswerIsOwn
  BY DEF AnswerInv
<1> QED BY <1>1, AnswerInvInit, AnswerInvStep, PTL DEF IdemSpec

-----------------------------------------------------------------------------
\* One execution per lease.  The requests that run or have run a key's handler
\* are counted against its takeovers; a record that can be claimed has one
\* execution less to its account than one that cannot.

Ran(k) == {r \in KeyedRequests : KeyOf[r] = k /\ (req[r] = "run" \/ r \in executed)}

Unheld(k) == \/ record[k].st = "none"
             \/ record[k].expired
             \/ record[k].st = "processing" /\ record[k].lapsed

ExecutionsCounted ==
    \A k \in Keys : /\ IsFiniteSet(Ran(k))
                    /\ Cardinality(Ran(k)) <= takeovers[k] + 1
                    /\ Unheld(k) => Cardinality(Ran(k)) <= takeovers[k]

LeaseInv == IdemTypeOK /\ ExecutionsCounted

LEMMA LeaseInvInit == IdemInit => LeaseInv
<1> SUFFICES ASSUME IdemInit PROVE LeaseInv
  OBVIOUS
<1>1. IdemTypeOK
  BY AnswerInvInit DEF AnswerInv
<1>2. ASSUME NEW k \in Keys PROVE Ran(k) = {} /\ takeovers[k] = 0
  BY DEF IdemInit, Ran
<1> QED BY <1>1, <1>2, FS_EmptySet DEF LeaseInv, ExecutionsCounted

\* Adding one element to a finite set adds at most one to its cardinality.
LEMMA OneMore ==
    ASSUME NEW S, NEW T, NEW x, IsFiniteSet(S), T \subseteq S \cup {x}
    PROVE  IsFiniteSet(T) /\ Cardinality(T) \in Nat /\ Cardinality(T) <= Cardinality(S) + 1
<1>1. /\ IsFiniteSet(S \cup {x})
      /\ Cardinality(S \cup {x}) \in {Cardinality(S), Cardinality(S) + 1}
  BY FS_AddElement
<1>2. Cardinality(S) \in Nat
  BY FS_CardinalityType
<1>3. IsFiniteSet(T) /\ Cardinality(T) <= Cardinality(S \cup {x})
  BY <1>1, FS_Subset
<1>4. Cardinality(T) \in Nat
  BY <1>3, FS_CardinalityType
<1> QED BY <1>1, <1>2, <1>3, <1>4

\* A step that runs nothing new for a key, and does not make its record free
\* without counting it, keeps the key's account.
LEMMA NothingNew ==
    ASSUME LeaseInv, NEW k \in Keys, takeovers'[k] \in Nat, Ran(k)' \subseteq Ran(k),
           \/ takeovers'[k] = takeovers[k] /\ (Unheld(k)' => Unheld(k))
           \/ takeovers'[k] = takeovers[k] + 1
    PROVE  /\ IsFiniteSet(Ran(k)')
           /\ Cardinality(Ran(k)') <= takeovers'[k] + 1
           /\ Unheld(k)' => Cardinality(Ran(k)') <= takeovers'[k]
<1>1. /\ IsFiniteSet(Ran(k)) /\ Cardinality(Ran(k)) <= takeovers[k] + 1
      /\ Unheld(k) => Cardinality(Ran(k)) <= takeovers[k]
  BY DEF LeaseInv, ExecutionsCounted
<1>2. IsFiniteSet(Ran(k)') /\ Cardinality(Ran(k)') <= Cardinality(Ran(k))
  BY <1>1, FS_Subset
<1>3. Cardinality(Ran(k)) \in Nat /\ Cardinality(Ran(k)') \in Nat /\ takeovers[k] \in Nat
  BY <1>1, <1>2, FS_CardinalityType DEF LeaseInv, IdemTypeOK
<1>4. Cardinality(Ran(k)') <= takeovers'[k] + 1
  BY <1>1, <1>2, <1>3
<1>5. Unheld(k)' => Cardinality(Ran(k)') <= takeovers'[k]
  BY <1>1, <1>2, <1>3
<1> QED BY <1>2, <1>4, <1>5

LEMMA LeaseInvStep == AnswerInv /\ AnswerInv' /\ LeaseInv /\ [IdemNext]_idemVars => LeaseInv'
<1> SUFFICES ASSUME AnswerInv', LeaseInv, [IdemNext]_idemVars PROVE LeaseInv'
  OBVIOUS
<1> USE IdempotencyAssumption
<1>0. IdemTypeOK /\ IdemTypeOK'
  BY DEF LeaseInv, AnswerInv
<1> SUFFICES ASSUME NEW k \in Keys
             PROVE  /\ IsFiniteSet(Ran(k)')
                    /\ Cardinality(Ran(k)') <= takeovers'[k] + 1
                    /\ Unheld(k)' => Cardinality(Ran(k)') <= takeovers'[k]
  BY <1>0 DEF LeaseInv, ExecutionsCounted
<1>N. takeovers'[k] \in Nat
  BY <1>0 DEF IdemTypeOK
<1>1. ASSUME NEW r \in KeyedRequests, ClaimKey(r), CanClaim(r), k = KeyOf[r]
      PROVE  /\ IsFiniteSet(Ran(k)')
             /\ Cardinality(Ran(k)') <= takeovers'[k] + 1
             /\ Unheld(k)' => Cardinality(Ran(k)') <= takeovers'[k]
  <2>1. record'[k] = Claimed(r) /\ takeovers' = takeovers
    BY <1>0, <1>1 DEF ClaimKey, IdemTypeOK
  <2>2. ~Unheld(k)'
    BY <2>1 DEF Unheld, Claimed
  <2>3. Ran(k)' \subseteq Ran(k) \cup {r}
    BY <1>0, <1>1 DEF ClaimKey, IdemTypeOK, Ran
  <2>4. Unheld(k)
    BY <1>1 DEF CanClaim, Unheld
  <2>5. IsFiniteSet(Ran(k)) /\ Cardinality(Ran(k)) <= takeovers[k]
    BY <2>4 DEF LeaseInv, ExecutionsCounted
  <2>6. Cardinality(Ran(k)) \in Nat /\ takeovers[k] \in Nat
    BY <2>5, <1>0, FS_CardinalityType DEF IdemTypeOK
  <2>7. IsFiniteSet(Ran(k)') /\ Cardinality(Ran(k)') \in Nat /\ Cardinality(Ran(k)') <= Cardinality(Ran(k)) + 1
    BY <2>3, <2>5, OneMore
  <2> QED BY <2>1, <2>2, <2>5, <2>6, <2>7
<1>2. ASSUME NEW r \in KeyedRequests, ClaimKey(r), ~(CanClaim(r) /\ k = KeyOf[r])
      PROVE  Ran(k)' \subseteq Ran(k) /\ takeovers' = takeovers /\ record'[k] = record[k]
  BY <1>0, <1>2 DEF ClaimKey, IdemTypeOK, Ran
<1>3. ASSUME NEW r \in KeyedRequests, GetKey(r)
      PROVE  Ran(k)' \subseteq Ran(k) /\ takeovers' = takeovers /\ record'[k] = record[k]
  BY <1>0, <1>3 DEF GetKey, IdemTypeOK, Ran
<1>4. ASSUME NEW r \in KeyedRequests, Execute(r)
      PROVE  Ran(k)' \subseteq Ran(k) /\ takeovers' = takeovers /\ record'[k] = record[k]
  BY <1>0, <1>4 DEF Execute, IdemTypeOK, Ran
<1>5. ASSUME NEW r \in KeyedRequests, Complete(r)
      PROVE  Ran(k)' \subseteq Ran(k) /\ takeovers' = takeovers /\ (Unheld(k)' => Unheld(k))
  <2>1. Ran(k)' \subseteq Ran(k) /\ takeovers' = takeovers
    BY <1>0, <1>5 DEF Complete, IdemTypeOK, Ran
  <2>2. CASE record'[k] = record[k]
    BY <2>1, <2>2 DEF Unheld
  <2>3. CASE record'[k] = [record[k] EXCEPT !.st = "completed", !.lapsed = TRUE]
    <3>1. record[k] \in Records
      BY <1>0 DEF IdemTypeOK
    <3>2. record'[k].st = "completed" /\ record'[k].expired = record[k].expired
      BY <2>3, <3>1 DEF Records
    <3> QED BY <2>1, <3>2 DEF Unheld
  <2>4. \/ record' = record
        \/ record' = [record EXCEPT ![KeyOf[r]] =
                         [record[KeyOf[r]] EXCEPT !.st = "completed", !.lapsed = TRUE]]
    BY <1>5 DEF Complete
  <2>5. record'[k] \in {record[k], [record[k] EXCEPT !.st = "completed", !.lapsed = TRUE]}
    BY <1>0, <2>4 DEF IdemTypeOK
  <2> QED BY <2>2, <2>3, <2>5
<1>6. ASSUME NEW j \in Keys, LeaseLapses(j) \/ RecordExpires(j)
      PROVE  /\ Ran(k)' \subseteq Ran(k)
             /\ \/ takeovers'[k] = takeovers[k] /\ record'[k] = record[k]
                \/ takeovers'[k] = takeovers[k] + 1
  BY <1>0, <1>6 DEF LeaseLapses, RecordExpires, IdemTypeOK, Ran
<1>7. CASE DeleteExpired
  <2>1. Ran(k)' \subseteq Ran(k) /\ takeovers' = takeovers
    BY <1>7 DEF DeleteExpired, Ran
  <2>2. Unheld(k)' => Unheld(k)
    BY <1>7 DEF DeleteExpired, Unheld
  <2> QED BY <1>N, <2>1, <2>2, NothingNew
<1>8. CASE UNCHANGED idemVars
  <2>1. Ran(k)' \subseteq Ran(k) /\ takeovers' = takeovers /\ record' = record
    BY <1>8 DEF idemVars, Ran
  <2>2. Unheld(k)' => Unheld(k)
    BY <2>1 DEF Unheld
  <2> QED BY <1>N, <2>1, <2>2, NothingNew
<1>9. record'[k] = record[k] => (Unheld(k)' => Unheld(k))
  BY DEF Unheld
<1> QED
  BY <1>1, <1>2, <1>3, <1>4, <1>5, <1>6, <1>7, <1>8, <1>9, <1>N, NothingNew DEF IdemNext

\* For any number of requests, concurrent duplicates alone never run a key's
\* handler twice: every execution beyond the first is of a lapsed lease or an
\* expired record.
THEOREM OneExecutionPerLeaseHolds == IdemSpec => []OneExecutionPerLease
<1>1. LeaseInv => OneExecutionPerLease
  BY DEF LeaseInv, ExecutionsCounted, OneExecutionPerLease, Ran, IdemTypeOK
<1> QED BY <1>1, AnswerInvInit, AnswerInvStep, LeaseInvInit, LeaseInvStep, PTL DEF IdemSpec

-----------------------------------------------------------------------------
\* Accounts and Tenancy.

TransactionOps == {"send_otp", "password", "verify"}
AccountOps == {"set_password", "delete_user", "revoke", "revoke_all"}

IsRequest(r) == DOMAIN r = {"op", "pc", "on", "saw", "todo"}

RequestsShape == DOMAIN request = Requests /\ \A q \in Requests : IsRequest(request[q])

RowsTyped ==
    /\ user \in [Users -> User] /\ login \in [Logins -> AuthTransaction]
    /\ session \in [Sessions -> Session]
    /\ member \in [Users -> OrganizationMember] /\ token \in [Tokens -> OrganizationToken]
    /\ scim \in ScimToken
    /\ \A s \in Sessions : session[s] = NoSession \/ session[s].user \in Users

\* What a request in hand is about; one that is not answered has no session yet.
LoginPCs == {"mark", "session"}
RequestIsAbout(q) ==
    /\ request[q].pc = "new" => request[q].op = "none"
    /\ request[q].op \in TransactionOps => request[q].on \in Logins
    /\ request[q].op \in AccountOps \cup {"start"} => request[q].on \in Users
    /\ request[q].pc \in LoginPCs => request[q].op \in TransactionOps
    /\ request[q].pc # "done" => session[q] = NoSession

RequestInv == RequestsShape /\ RowsTyped /\ \A q \in Requests : RequestIsAbout(q)

\* One owner, and none before there is an organization.
OwnerInv == OneOwner /\ (organization = "none" => \A u \in Users : member[u].role # "owner")

\* What a login under way has established of the rows it will make its session from.
LoginStands ==
    \A q \in Requests :
       /\ request[q].op \in TransactionOps => login[request[q].on].state # "none"
       /\ request[q].pc = "session" => login[request[q].on].state = "authenticated"

SessionStands ==
    \A s \in Sessions : session[s].login # NoId =>
       /\ login[session[s].login].state = "authenticated"
       /\ login[session[s].login].user = session[s].user

LoginInv == LoginStands /\ SessionStands

-----------------------------------------------------------------------------
\* Steps of requests.

Others(q) == \A p \in Requests \ {q} : request'[p] = request[p]

\* The request is answered, or goes on without having come nearer to a session.
Quiet(q) ==
    /\ RequestsShape' /\ Others(q)
    /\ request'[q].pc \notin LoginPCs \cup {"new"}
    /\ request'[q].op \in TransactionOps => request'[q].on \in Logins
    /\ request'[q].op \in AccountOps \cup {"start"} => request'[q].on \in Users
    /\ request'[q].op \in TransactionOps =>
          \/ request[q].op \in TransactionOps /\ request'[q].on = request[q].on
          \/ login[request'[q].on].state # "none"
    /\ request[q].pc = "done" => request'[q].pc = "done"

LEMMA GotoMoves ==
    ASSUME RequestsShape, NEW q \in Requests, NEW pc, NEW saw, NEW todo, Goto(q, pc, saw, todo)
    PROVE  /\ RequestsShape' /\ Others(q)
           /\ request'[q].op = request[q].op /\ request'[q].pc = pc /\ request'[q].on = request[q].on
           /\ request'[q].saw = saw /\ request'[q].todo = todo
BY DEF RequestsShape, IsRequest, Goto, Others

LEMMA AnswerMoves ==
    ASSUME RequestsShape, NEW q \in Requests, Answer(q)
    PROVE  Quiet(q) /\ request'[q].pc = "done" /\ request'[q].op = "none"
<1>1. IsRequest(Done) /\ Done.pc = "done" /\ Done.op = "none"
  BY DEF IsRequest, Done, Unbegun
<1>2. request' = [request EXCEPT ![q] = Done]
  BY DEF Answer
<1>3. RequestsShape' /\ Others(q) /\ request'[q] = Done
  BY <1>1, <1>2 DEF RequestsShape, Others
<1> QED BY <1>1, <1>3 DEF Quiet, LoginPCs, TransactionOps, AccountOps

LEMMA BeginMoves ==
    ASSUME RequestsShape, NEW q \in Requests, NEW op, NEW on, NEW saw, Begin(q, op, on, saw),
           op \in TransactionOps => on \in Logins /\ login[on].state # "none",
           op \in AccountOps \cup {"start"} => on \in Users
    PROVE  Quiet(q) /\ request[q].pc = "new"
<1> DEFINE new == [op |-> op, pc |-> "begun", on |-> on, saw |-> saw, todo |-> {}]
<1>1. IsRequest(new) /\ new.pc = "begun" /\ new.op = op /\ new.on = on
  BY DEF IsRequest
<1>2. request' = [request EXCEPT ![q] = new]
  BY DEF Begin
<1> HIDE DEF new
<1>3. RequestsShape' /\ Others(q) /\ request'[q] = new
  BY <1>1, <1>2 DEF RequestsShape, Others
<1>4. request[q].pc = "new"
  BY DEF Begin, Free
<1> QED BY <1>1, <1>3, <1>4 DEF Quiet, LoginPCs

LEMMA GotoIsQuiet ==
    ASSUME RequestInv, NEW q \in Requests, NEW pc, NEW saw, NEW todo, Goto(q, pc, saw, todo),
           pc \notin LoginPCs \cup {"new", "done"}, request[q].pc # "done"
    PROVE  Quiet(q)
<1>1. /\ RequestsShape' /\ Others(q)
      /\ request'[q].op = request[q].op /\ request'[q].pc = pc /\ request'[q].on = request[q].on
  BY GotoMoves DEF RequestInv
<1> QED BY <1>1 DEF Quiet, RequestInv, RequestIsAbout

\* A quiet step keeps what is known of requests when it gives no session to a
\* request that is still in hand.
LEMMA QuietKeepsRequests ==
    ASSUME RequestInv, NEW q \in Requests, Quiet(q), RowsTyped',
           \A p \in Requests : session[p] = NoSession =>
              session'[p] = NoSession \/ (p = q /\ request'[q].pc = "done")
    PROVE  RequestInv'
<1> SUFFICES ASSUME NEW p \in Requests PROVE RequestIsAbout(p)'
  BY DEF RequestInv, Quiet
<1>1. CASE p # q
  BY <1>1 DEF RequestIsAbout, RequestInv, Quiet, Others
<1>2. CASE p = q
  BY <1>2 DEF RequestIsAbout, RequestInv, Quiet, LoginPCs
<1> QED BY <1>1, <1>2

LEMMA ResolvesQuietly ==
    ASSUME RequestInv, NEW q \in Requests, NEW op, ResolveSession(q, op), op \notin TransactionOps
    PROVE  Quiet(q) /\ AccountsUnchanged
<1>1. PICK s \in Sessions : ~NoRows(GetSessionByTokenHash(s)) /\ Begin(q, op, session[s].user, {})
  BY DEF ResolveSession
<1>2. session[s].state = "live"
  BY <1>1 DEF GetSessionByTokenHash, Returning, NoRows
<1>3. session[s].user \in Users
  BY <1>2 DEF RequestInv, RowsTyped, NoSession
<1> QED BY <1>1, <1>3, BeginMoves DEF ResolveSession, RequestInv

\* The chain before a service changes no row.
LEMMA ChainIsQuiet ==
    ASSUME RequestInv, NEW q \in Requests, ChainStep(q)
    PROVE  Quiet(q) /\ AccessUnchanged
<1> USE DEF AccessUnchanged, AccountsUnchanged
<1>1. ASSUME NEW op \in OrganizationOps, RequireSession(q, op) PROVE Quiet(q) /\ AccessUnchanged
  <2>1. op \notin TransactionOps
    BY DEF OrganizationOps, MemberOps, CredentialOps, NetworkingOps, ScimOps, TransactionOps
  <2> QED BY <1>1, <2>1, ResolvesQuietly DEF RequireSession
<1>2. ASSUME NEW op \in OrganizationOps, RequireAuthenticated(q, op) PROVE Quiet(q) /\ AccessUnchanged
  <2>1. op \notin TransactionOps /\ op \notin AccountOps \cup {"start"}
    BY DEF OrganizationOps, MemberOps, CredentialOps, NetworkingOps, ScimOps, TransactionOps, AccountOps
  <2>2. PICK t \in Tokens : \E row \in GetOrganizationTokenByTokenHash(t) :
           Begin(q, op, t, {IF row.scoped THEN "scoped" ELSE "unscoped"})
    BY <1>2 DEF RequireAuthenticated
  <2>3. PICK row \in GetOrganizationTokenByTokenHash(t) :
           Begin(q, op, t, {IF row.scoped THEN "scoped" ELSE "unscoped"})
    BY <2>2
  <2>4. Quiet(q)
    BY <2>1, <2>3, BeginMoves DEF RequestInv
  <2> QED BY <1>2, <2>4 DEF RequireAuthenticated
<1>3. CASE Require(q) \/ RequireAccess(q) \/ RequireCapability(q)
  <2>1. request[q].pc # "done" /\ AccessUnchanged
    BY <1>3 DEF Require, RequireAccess, RequireCapability
  <2>2. \/ Answer(q)
        \/ Goto(q, "member", request[q].saw, {})
        \/ Goto(q, "member", {row.role : row \in GetOrganizationMember(request[q].on)}, {})
        \/ Goto(q, "access", {}, {})
        \/ Goto(q, "entitled", {}, {})
    BY <1>3 DEF Require, RequireAccess, RequireCapability
  <2>3. \A pc \in {"member", "access", "entitled"} : pc \notin LoginPCs \cup {"new", "done"}
    BY DEF LoginPCs
  <2>4. CASE Answer(q)
    BY <2>1, <2>4, AnswerMoves DEF RequestInv
  <2>5. CASE ~Answer(q)
    BY <2>1, <2>2, <2>3, <2>5, GotoIsQuiet
  <2> QED BY <2>4, <2>5
<1> QED BY <1>1, <1>2, <1>3 DEF ChainStep

\* The services' steps answer, or go on to a step of their own; none touches an account.
LEMMA ServiceIsQuiet ==
    ASSUME RequestInv, NEW q \in Requests, ServiceStep(q)
    PROVE  Quiet(q) /\ UNCHANGED accountVars /\ request[q].pc # "done"
<1>0. RequestsShape
  BY DEF RequestInv
<1>1. CASE \/ CreateOrganization(q) \/ DeletesOrganization(q)
           \/ CreateToken(q) \/ RevokeToken(q) \/ CreatePolicy(q) \/ UpdatePolicy(q) \/ DeletePolicy(q)
  <2>1. Answer(q) /\ UNCHANGED accountVars /\ request[q].pc # "done"
    BY <1>1 DEF CreateOrganization, Free, DeletesOrganization, CreateToken, RevokeToken, SaveSCIM, At,
       CreatePolicy, UpdatePolicy, DeletePolicy, PolicyUnchanged
  <2> QED BY <1>0, <2>1, AnswerMoves
<1>2. CASE requireAdmin(q) \/ requireRole(q) \/ FindTarget(q) \/ FindCredential(q) \/ StartStatement(q)
  <2>1. request[q].pc # "done" /\ UNCHANGED accountVars
    BY <1>2 DEF requireAdmin, requireRole, FindTarget, FindCredential, StartStatement, At, ServiceUnchanged
  <2>2. Answer(q) \/ \E pc \in {"admin", "owner", "target", "statement"} :
           \/ Goto(q, pc, {}, {})
           \/ \E v \in Users \cup Tokens : Goto(q, pc, {}, {v})
           \/ Goto(q, pc, {Snapshot(request[q].on)}, request[q].todo)
    BY <1>2 DEF requireAdmin, requireRole, FindTarget, FindCredential, StartStatement
  <2>3. \A pc \in {"admin", "owner", "target", "statement"} : pc \notin LoginPCs \cup {"new", "done"}
    BY DEF LoginPCs
  <2>4. CASE Answer(q)
    BY <1>0, <2>1, <2>4, AnswerMoves
  <2>5. CASE ~Answer(q)
    BY <2>1, <2>2, <2>3, <2>5, GotoIsQuiet
  <2> QED BY <2>4, <2>5
<1>3. CASE AddMember(q) \/ UpdateMember(q) \/ DeleteMember(q)
  <2>1. Answer(q) /\ UNCHANGED accountVars /\ request[q].pc # "done"
    BY <1>3 DEF AddMember, UpdateMember, DeleteMember, SaveMember, At
  <2> QED BY <1>0, <2>1, AnswerMoves
<1>4. CASE CreateOrgCredential(q) \/ UpdateOrgCredential(q) \/ DisableOrgCredential(q)
  <2>1. Answer(q) /\ UNCHANGED accountVars /\ request[q].pc # "done"
    BY <1>4 DEF CreateOrgCredential, UpdateOrgCredential, DisableOrgCredential, SaveToken, At
  <2> QED BY <1>0, <2>1, AnswerMoves
<1>5. ASSUME NEW capability \in Capabilities, SetEntitlement(q, capability)
      PROVE  Quiet(q) /\ UNCHANGED accountVars /\ request[q].pc # "done"
  <2>1. Answer(q) /\ UNCHANGED accountVars /\ request[q].pc # "done"
    BY <1>5 DEF SetEntitlement, Single, Free
  <2> QED BY <1>0, <2>1, AnswerMoves
<1> QED BY <1>1, <1>2, <1>3, <1>4, <1>5 DEF ServiceStep

-----------------------------------------------------------------------------
\* The rows of members.

LEMMA MemberRows ==
    ASSUME NEW m \in OrganizationMember, NEW role \in AssignableRoles
    PROVE  /\ [m EXCEPT !.role = role] \in OrganizationMember
           /\ [m EXCEPT !.role = role].role # "owner"
           /\ [m EXCEPT !.status = "disabled"] \in OrganizationMember
           /\ [m EXCEPT !.status = "disabled"].role = m.role
           /\ [role |-> role, status |-> "active"] \in OrganizationMember
           /\ [role |-> role, status |-> "active"].role # "owner"
BY DEF OrganizationMember, AssignableRoles

\* A statement that leaves the owner's row alone and makes nobody an owner.
LEMMA OwnerIsKept ==
    ASSUME OwnerInv, member \in [Users -> OrganizationMember], UNCHANGED organization, NEW v, NEW row,
           member' = [member EXCEPT ![v] = row],
           v \in Users => /\ row \in OrganizationMember /\ row.role # "owner"
                          /\ member[v].role # "owner"
    PROVE  OwnerInv' /\ member' \in [Users -> OrganizationMember]
<1>1. member' \in [Users -> OrganizationMember]
  OBVIOUS
<1>2. \A u \in Users : member[u].role # "owner" => member'[u].role # "owner"
  OBVIOUS
<1>3. \A u \in Users : member[u].role = "owner" => member'[u] = member[u]
  OBVIOUS
<1>4. OneOwner'
  <2> SUFFICES ASSUME organization' # "none"
               PROVE  \E u \in Users : /\ member'[u] = [role |-> "owner", status |-> "active"]
                                       /\ \A w \in Users \ {u} : member'[w].role # "owner"
    BY DEF OneOwner
  <2>1. PICK u \in Users : /\ member[u] = [role |-> "owner", status |-> "active"]
                           /\ \A w \in Users \ {u} : member[w].role # "owner"
    BY DEF OwnerInv, OneOwner
  <2>2. member'[u] = member[u]
    BY <2>1, <1>3
  <2> QED BY <2>1, <2>2, <1>2
<1> QED BY <1>1, <1>2, <1>4 DEF OwnerInv

\* What the three statements that change a member's row may write.
LEMMA MemberStatements ==
    ASSUME OwnerInv, member \in [Users -> OrganizationMember], NEW snap, NEW v, NEW role \in AssignableRoles,
           NEW row \in AddOrganizationMember(snap, v, role) \cup UpdateMemberRole(snap, v, role)
                          \cup DisableOrganizationMember(snap, v)
    PROVE  /\ ActorExists(snap)
           /\ v \in Users => /\ row \in OrganizationMember /\ row.role # "owner"
                             /\ member[v].role # "owner"
<1>1. ActorExists(snap) /\ member[v].role # "owner"
  BY DEF AddOrganizationMember, UpdateMemberRole, DisableOrganizationMember, Returning
<1>2. row \in {[role |-> role, status |-> "active"], [member[v] EXCEPT !.role = role],
               [member[v] EXCEPT !.status = "disabled"]}
  BY DEF AddOrganizationMember, UpdateMemberRole, DisableOrganizationMember, Returning
<1>3. ASSUME v \in Users PROVE row \in OrganizationMember /\ row.role # "owner"
  <2>1. member[v] \in OrganizationMember
    BY <1>3
  <2>2. /\ [member[v] EXCEPT !.role = role] \in OrganizationMember
        /\ [member[v] EXCEPT !.role = role].role # "owner"
        /\ [member[v] EXCEPT !.status = "disabled"] \in OrganizationMember
        /\ [member[v] EXCEPT !.status = "disabled"].role = member[v].role
    BY <2>1, MemberRows
  <2>3. /\ [role |-> role, status |-> "active"] \in OrganizationMember
        /\ [role |-> role, status |-> "active"].role # "owner"
    BY <2>1, MemberRows
  <2>4. CASE row = [role |-> role, status |-> "active"]
    BY <2>3, <2>4
  <2>5. CASE row = [member[v] EXCEPT !.role = role]
    BY <2>2, <2>5
  <2>6. CASE row = [member[v] EXCEPT !.status = "disabled"]
    BY <1>1, <2>2, <2>6
  <2> QED BY <1>2, <2>4, <2>5, <2>6
<1> QED BY <1>1, <1>3

\* The actions on members change a row as one of the statements says, or none.
LEMMA MemberActions ==
    ASSUME NEW q \in Requests, AddMember(q) \/ UpdateMember(q) \/ DeleteMember(q)
    PROVE  /\ UNCHANGED <<organization, token, scim>> /\ request[q].pc = "statement"
           /\ \/ UNCHANGED member
              \/ \E snap \in request[q].saw, v \in request[q].todo, role \in AssignableRoles :
                    \E row \in AddOrganizationMember(snap, v, role) \cup UpdateMemberRole(snap, v, role)
                          \cup DisableOrganizationMember(snap, v) :
                       member' = [member EXCEPT ![v] = row]
<1>1. CASE AddMember(q)
  BY <1>1 DEF AddMember, SaveMember, At
<1>2. CASE UpdateMember(q)
  BY <1>2 DEF UpdateMember, SaveMember, At
<1>3. CASE DeleteMember(q)
  <2>1. "member" \in AssignableRoles
    BY DEF AssignableRoles
  <2> QED BY <1>3, <2>1 DEF DeleteMember, SaveMember, At
<1> QED BY <1>1, <1>2, <1>3

LEMMA MembersKeepOwner ==
    ASSUME RequestInv, OwnerInv, NEW q \in Requests, AddMember(q) \/ UpdateMember(q) \/ DeleteMember(q)
    PROVE  /\ OwnerInv' /\ member' \in [Users -> OrganizationMember]
           /\ member' # member => \E snap \in request[q].saw : snap.status = "active" /\ snap.role \in Admin
<1>0. member \in [Users -> OrganizationMember] /\ UNCHANGED organization
  BY MemberActions DEF RequestInv, RowsTyped
<1>1. CASE UNCHANGED member
  BY <1>0, <1>1 DEF OwnerInv, OneOwner
<1>2. CASE ~UNCHANGED member
  <2>1. PICK snap \in request[q].saw, v \in request[q].todo, role \in AssignableRoles :
           \E row \in AddOrganizationMember(snap, v, role) \cup UpdateMemberRole(snap, v, role)
                          \cup DisableOrganizationMember(snap, v) :
                       member' = [member EXCEPT ![v] = row]
    BY <1>2, MemberActions
  <2>2. PICK row \in AddOrganizationMember(snap, v, role) \cup UpdateMemberRole(snap, v, role)
                          \cup DisableOrganizationMember(snap, v) :
                       member' = [member EXCEPT ![v] = row]
    BY <2>1
  <2>3. /\ ActorExists(snap)
        /\ v \in Users => /\ row \in OrganizationMember /\ row.role # "owner"
                          /\ member[v].role # "owner"
    BY <1>0, MemberStatements
  <2>4. OwnerInv' /\ member' \in [Users -> OrganizationMember]
    BY <1>0, <2>2, <2>3, OwnerIsKept
  <2> QED BY <2>3, <2>4 DEF ActorExists
<1> QED BY <1>1, <1>2

-----------------------------------------------------------------------------
\* The rows of credentials.

TokensStayDisabled ==
    /\ token' \in [Tokens -> OrganizationToken]
    /\ \A t \in Tokens : token[t].state = "disabled" => token'[t].state = "disabled"
ScimStaysRevoked == scim' \in ScimToken /\ (scim.state = "revoked" => scim'.state = "revoked")

LEMMA TokenRows ==
    ASSUME NEW r \in OrganizationToken, NEW scoped \in BOOLEAN, NEW over \in BOOLEAN
    PROVE  /\ [state |-> "active", scoped |-> scoped, over |-> FALSE] \in OrganizationToken
           /\ [r EXCEPT !.scoped = scoped, !.over = over] \in OrganizationToken
           /\ [r EXCEPT !.scoped = scoped, !.over = over].state = r.state
           /\ [r EXCEPT !.state = "disabled"] \in OrganizationToken
           /\ [r EXCEPT !.state = "disabled"].state = "disabled"
           /\ [r EXCEPT !.over = TRUE] \in OrganizationToken
           /\ [r EXCEPT !.over = TRUE].state = r.state
BY DEF OrganizationToken

LEMMA TokenStatements ==
    ASSUME token \in [Tokens -> OrganizationToken], NEW snap, NEW t \in Tokens,
           NEW scoped \in BOOLEAN, NEW over \in BOOLEAN,
           NEW row \in CreateOrganizationToken(snap, t, scoped)
                          \cup UpdateOrganizationToken(snap, t, scoped, over)
                          \cup DisableOrganizationToken(snap, t)
    PROVE  row \in OrganizationToken /\ (token[t].state = "disabled" => row.state = "disabled")
<1>0. token[t] \in OrganizationToken
  OBVIOUS
<1>1. CASE row \in CreateOrganizationToken(snap, t, scoped)
  <2>1. token[t].state = "none" /\ row = [state |-> "active", scoped |-> scoped, over |-> FALSE]
    BY <1>1 DEF CreateOrganizationToken, Returning
  <2> QED BY <1>0, <2>1, TokenRows
<1>2. CASE row \in UpdateOrganizationToken(snap, t, scoped, over)
  <2>1. row = [token[t] EXCEPT !.scoped = scoped, !.over = over]
    BY <1>2 DEF UpdateOrganizationToken, Returning
  <2>2. /\ [token[t] EXCEPT !.scoped = scoped, !.over = over] \in OrganizationToken
        /\ [token[t] EXCEPT !.scoped = scoped, !.over = over].state = token[t].state
    BY <1>0, TokenRows
  <2> QED BY <2>1, <2>2
<1>3. CASE row \in DisableOrganizationToken(snap, t)
  <2>1. row = [token[t] EXCEPT !.state = "disabled"]
    BY <1>3 DEF DisableOrganizationToken, Returning
  <2> QED BY <1>0, <2>1, TokenRows
<1> QED BY <1>1, <1>2, <1>3

LEMMA TokenActions ==
    ASSUME NEW q \in Requests, CreateOrgCredential(q) \/ UpdateOrgCredential(q) \/ DisableOrgCredential(q)
    PROVE  /\ UNCHANGED <<organization, member, scim>>
           /\ \/ UNCHANGED token
              \/ \E snap \in request[q].saw, t \in request[q].todo, scoped, over \in BOOLEAN :
                    /\ ActorExists(snap)
                    /\ \E row \in CreateOrganizationToken(snap, t, scoped)
                          \cup UpdateOrganizationToken(snap, t, scoped, over)
                          \cup DisableOrganizationToken(snap, t) : token' = [token EXCEPT ![t] = row]
<1> USE DEF SaveToken
<1>1. CASE CreateOrgCredential(q)
  <2>1. \A snap, t : \A scoped \in BOOLEAN : CreateOrganizationToken(snap, t, scoped) # {} => ActorExists(snap)
    BY DEF CreateOrganizationToken, Returning
  <2> QED BY <1>1, <2>1 DEF CreateOrgCredential
<1>2. CASE UpdateOrgCredential(q)
  <2>1. \A snap, t : \A scoped, over \in BOOLEAN :
           UpdateOrganizationToken(snap, t, scoped, over) # {} => ActorExists(snap)
    BY DEF UpdateOrganizationToken, Returning
  <2> QED BY <1>2, <2>1 DEF UpdateOrgCredential
<1>3. CASE DisableOrgCredential(q)
  <2>1. \A snap, t : DisableOrganizationToken(snap, t) # {} => ActorExists(snap)
    BY DEF DisableOrganizationToken, Returning
  <2> QED BY <1>3, <2>1 DEF DisableOrgCredential
<1> QED BY <1>1, <1>2, <1>3

LEMMA TokensKept ==
    ASSUME RequestInv, NEW q \in Requests, CreateOrgCredential(q) \/ UpdateOrgCredential(q) \/ DisableOrgCredential(q)
    PROVE  /\ TokensStayDisabled
           /\ token' # token => \E snap \in request[q].saw : snap.status = "active" /\ snap.role \in Admin
<1>0. token \in [Tokens -> OrganizationToken]
  BY DEF RequestInv, RowsTyped
<1>1. CASE UNCHANGED token
  BY <1>0, <1>1 DEF TokensStayDisabled
<1>2. CASE ~UNCHANGED token
  <2>1. PICK snap \in request[q].saw, t \in request[q].todo, scoped \in BOOLEAN, over \in BOOLEAN :
           /\ ActorExists(snap)
           /\ \E row \in CreateOrganizationToken(snap, t, scoped)
                 \cup UpdateOrganizationToken(snap, t, scoped, over)
                 \cup DisableOrganizationToken(snap, t) : token' = [token EXCEPT ![t] = row]
    BY <1>2, TokenActions
  <2>2. PICK row \in CreateOrganizationToken(snap, t, scoped)
                 \cup UpdateOrganizationToken(snap, t, scoped, over)
                 \cup DisableOrganizationToken(snap, t) : token' = [token EXCEPT ![t] = row]
    BY <2>1
  <2>3. t \in Tokens
    BY <1>0, <1>2, <2>2
  <2>4. row \in OrganizationToken /\ (token[t].state = "disabled" => row.state = "disabled")
    BY <1>0, <2>3, TokenStatements, ZenonT(60)
  <2>5. TokensStayDisabled
    BY <1>0, <2>2, <2>4 DEF TokensStayDisabled
  <2> QED BY <2>1, <2>5 DEF ActorExists
<1> QED BY <1>1, <1>2

LEMMA ScimKept ==
    ASSUME RequestInv, NEW q \in Requests, CreateToken(q) \/ RevokeToken(q)
    PROVE  ScimStaysRevoked /\ UNCHANGED <<organization, member, token>>
<1>0. scim \in ScimToken
  BY DEF RequestInv, RowsTyped
<1>1. CASE CreateToken(q)
  <2>1. scim' = scim \/ (scim.state = "none" /\ scim' = [state |-> "active", over |-> FALSE])
    BY <1>1 DEF CreateToken, SaveSCIM, CreateSCIMToken, Returning, NoRows
  <2>2. UNCHANGED <<organization, member, token>>
    BY <1>1 DEF CreateToken, SaveSCIM
  <2>3. ScimStaysRevoked
    <3>1. CASE scim' = scim
      BY <1>0, <3>1 DEF ScimStaysRevoked
    <3>2. CASE scim.state = "none" /\ scim' = [state |-> "active", over |-> FALSE]
      <4>1. [state |-> "active", over |-> FALSE] \in ScimToken
        BY DEF ScimToken
      <4> QED BY <3>2, <4>1 DEF ScimStaysRevoked
    <3> QED BY <2>1, <3>1, <3>2
  <2> QED BY <2>2, <2>3
<1>2. CASE RevokeToken(q)
  <2>1. scim' = scim \/ scim' = [scim EXCEPT !.state = "revoked"]
    BY <1>2 DEF RevokeToken, SaveSCIM, RevokeSCIMToken, Returning, NoRows
  <2>2. UNCHANGED <<organization, member, token>>
    BY <1>2 DEF RevokeToken, SaveSCIM
  <2>3. ScimStaysRevoked
    BY <1>0, <2>1 DEF ScimStaysRevoked, ScimToken
  <2> QED BY <2>2, <2>3
<1> QED BY <1>1, <1>2

-----------------------------------------------------------------------------
\* One step of a service, over all the organization's rows.

ActorWasAdmin(q) ==
    request[q].op \in MemberOps \cup CredentialOps /\ (member' # member \/ token' # token) =>
       \E snap \in request[q].saw : snap.status = "active" /\ snap.role \in Admin

OrganizationKept(q) ==
    /\ OwnerInv' /\ member' \in [Users -> OrganizationMember]
    /\ TokensStayDisabled /\ ScimStaysRevoked /\ ActorWasAdmin(q)

LEMMA RowsUnchangedKept ==
    ASSUME RequestInv, OwnerInv, NEW q, UNCHANGED <<organization, member, token, scim>>
    PROVE  OrganizationKept(q)
BY DEF RequestInv, RowsTyped, OwnerInv, OneOwner, OrganizationKept, TokensStayDisabled, ScimStaysRevoked,
   ActorWasAdmin

LEMMA Founding ==
    ASSUME RequestInv, OwnerInv, NEW q \in Requests, CreateOrganization(q)
    PROVE  OrganizationKept(q)
<1>1. PICK s \in Sessions : \E row \in GetSessionByTokenHash(s) :
         member' \in CreateOrganizationWithOwner(row.user)
  BY DEF CreateOrganization
<1>2. PICK row \in GetSessionByTokenHash(s) : member' \in CreateOrganizationWithOwner(row.user)
  BY <1>1
<1> DEFINE u == row.user
<1>3. row = session[s] /\ session[s].state = "live"
  BY <1>2 DEF GetSessionByTokenHash, Returning
<1>4. u \in Users
  BY <1>3 DEF RequestInv, RowsTyped, NoSession
<1> HIDE DEF u
<1>5. organization = "none" /\ member' = [member EXCEPT ![u] = [NoMember EXCEPT !.role = "owner"]]
  BY <1>2 DEF CreateOrganizationWithOwner, Returning, u
<1>6. [NoMember EXCEPT !.role = "owner"] = [role |-> "owner", status |-> "active"]
  BY DEF NoMember
<1>7. /\ member \in [Users -> OrganizationMember] /\ token \in [Tokens -> OrganizationToken]
      /\ scim \in ScimToken
  BY DEF RequestInv, RowsTyped
<1>8. member' \in [Users -> OrganizationMember]
  BY <1>5, <1>6, <1>7 DEF OrganizationMember
<1>9. /\ member'[u] = [role |-> "owner", status |-> "active"]
      /\ \A v \in Users \ {u} : member'[v].role # "owner"
  BY <1>4, <1>5, <1>6, <1>7 DEF OwnerInv
<1>10. OwnerInv'
  BY <1>4, <1>9 DEF OwnerInv, OneOwner, CreateOrganization
<1>11. request[q].op \notin MemberOps \cup CredentialOps
  BY DEF CreateOrganization, Free, RequestInv, RequestIsAbout, MemberOps, CredentialOps
<1>12. TokensStayDisabled /\ ScimStaysRevoked
  BY <1>7 DEF CreateOrganization, TokensStayDisabled, ScimStaysRevoked
<1> QED BY <1>8, <1>10, <1>11, <1>12 DEF OrganizationKept, ActorWasAdmin

LEMMA ServiceKeepsRows ==
    ASSUME RequestInv, OwnerInv, NEW q \in Requests, ServiceStep(q)
    PROVE  OrganizationKept(q)
<1>0. /\ member \in [Users -> OrganizationMember] /\ token \in [Tokens -> OrganizationToken]
      /\ scim \in ScimToken
  BY DEF RequestInv, RowsTyped
<1>1. CASE CreateOrganization(q)
  BY <1>1, Founding
<1>2. CASE DeletesOrganization(q)
  <2>1. (organization' = "none" <=> organization = "none") /\ UNCHANGED <<member, token, scim>>
    BY <1>2 DEF DeletesOrganization, DeleteOrganization, accessVars
  <2>2. OwnerInv'
    BY <2>1 DEF OwnerInv, OneOwner
  <2> QED BY <1>0, <2>1, <2>2 DEF OrganizationKept, TokensStayDisabled, ScimStaysRevoked, ActorWasAdmin
<1>3. CASE AddMember(q) \/ UpdateMember(q) \/ DeleteMember(q)
  <2>1. /\ OwnerInv' /\ member' \in [Users -> OrganizationMember] /\ UNCHANGED <<token, scim>>
        /\ member' # member => \E snap \in request[q].saw : snap.status = "active" /\ snap.role \in Admin
    BY <1>3, MembersKeepOwner, MemberActions
  <2> QED BY <1>0, <2>1 DEF OrganizationKept, TokensStayDisabled, ScimStaysRevoked, ActorWasAdmin
<1>4. CASE CreateOrgCredential(q) \/ UpdateOrgCredential(q) \/ DisableOrgCredential(q)
  <2>1. /\ TokensStayDisabled /\ UNCHANGED <<organization, member, scim>>
        /\ token' # token => \E snap \in request[q].saw : snap.status = "active" /\ snap.role \in Admin
    BY <1>4, TokensKept, TokenActions
  <2>2. OwnerInv' /\ ScimStaysRevoked
    BY <1>0, <2>1 DEF OwnerInv, OneOwner, ScimStaysRevoked
  <2> QED BY <1>0, <2>1, <2>2 DEF OrganizationKept, ActorWasAdmin
<1>5. CASE CreateToken(q) \/ RevokeToken(q)
  <2>1. ScimStaysRevoked /\ UNCHANGED <<organization, member, token>>
    BY <1>5, ScimKept
  <2>2. OwnerInv' /\ TokensStayDisabled
    BY <1>0, <2>1 DEF OwnerInv, OneOwner, TokensStayDisabled
  <2> QED BY <1>0, <2>1, <2>2 DEF OrganizationKept, ActorWasAdmin
<1>6. CASE requireAdmin(q) \/ requireRole(q) \/ FindTarget(q) \/ FindCredential(q) \/ StartStatement(q)
  BY <1>6, RowsUnchangedKept DEF requireAdmin, requireRole, FindTarget, FindCredential, StartStatement,
     ServiceUnchanged, accessVars
<1>7. CASE CreatePolicy(q) \/ UpdatePolicy(q) \/ DeletePolicy(q)
  BY <1>7, RowsUnchangedKept DEF CreatePolicy, UpdatePolicy, DeletePolicy, PolicyUnchanged
<1>8. CASE \E capability \in Capabilities : SetEntitlement(q, capability)
  BY <1>8, RowsUnchangedKept DEF SetEntitlement
<1> QED BY <1>1, <1>2, <1>3, <1>4, <1>5, <1>6, <1>7, <1>8 DEF ServiceStep

-----------------------------------------------------------------------------
\* The rows of accounts: what no step takes back.

UsersKept ==
    /\ user' \in [Users -> User]
    /\ \A u \in Users : user[u].disabled => user'[u].disabled
LoginsKept ==
    /\ login' \in [Logins -> AuthTransaction]
    /\ \A x \in Logins : login[x].state # "none" =>
          /\ login'[x].state # "none" /\ login'[x].user = login[x].user
          /\ login[x].state = "authenticated" => login'[x].state = "authenticated"
AccountsKept == UsersKept /\ LoginsKept

\* Where each session came from, and that revocation lasts.
SessionKept(s) ==
    /\ session'[s].user = session[s].user /\ session'[s].login = session[s].login
    /\ session[s].state = "revoked" => session'[s].state = "revoked"
    /\ session[s].state = "none" <=> session'[s].state = "none"
SessionsKept == session' \in [Sessions -> Session] /\ \A s \in Sessions : SessionKept(s)

LEMMA AccountsUnchangedKept ==
    ASSUME RowsTyped, UNCHANGED accountVars
    PROVE  AccountsKept /\ SessionsKept
BY DEF RowsTyped, accountVars, AccountsKept, UsersKept, LoginsKept, SessionsKept, SessionKept

\* The rows the statements write.
LEMMA UserRows ==
    ASSUME NEW r \in User
    PROVE  /\ [r EXCEPT !.enrolled = TRUE] \in User
           /\ [r EXCEPT !.enrolled = TRUE].disabled = r.disabled
           /\ [r EXCEPT !.disabled = TRUE] \in User /\ [r EXCEPT !.disabled = TRUE].disabled
BY DEF User

LEMMA LoginRows ==
    ASSUME NEW r \in AuthTransaction, NEW st \in {"authenticated", "expired"}, NEW u \in Users
    PROVE  /\ [r EXCEPT !.state = st] \in AuthTransaction
           /\ [r EXCEPT !.state = st].state = st /\ [r EXCEPT !.state = st].user = r.user
           /\ [r EXCEPT !.over = TRUE] \in AuthTransaction
           /\ [r EXCEPT !.over = TRUE].state = r.state /\ [r EXCEPT !.over = TRUE].user = r.user
           /\ CreateAuthTransaction(u) \in AuthTransaction
BY DEF AuthTransaction, CreateAuthTransaction

LEMMA SessionRows ==
    ASSUME NEW r \in Session, NEW st \in {"revoked", "expired"}
    PROVE  /\ [r EXCEPT !.state = st] \in Session /\ [r EXCEPT !.state = st].state = st
           /\ [r EXCEPT !.state = st].user = r.user /\ [r EXCEPT !.state = st].login = r.login
BY DEF Session

\* The same, on the tables.
LEMMA UserSaved ==
    ASSUME RowsTyped, NEW u, NEW row, user' = [user EXCEPT ![u] = row],
           u \in Users => row \in {[user[u] EXCEPT !.enrolled = TRUE], [user[u] EXCEPT !.disabled = TRUE]}
    PROVE  UsersKept
<1>0. user \in [Users -> User]
  BY DEF RowsTyped
<1>1. CASE u \notin Users
  BY <1>0, <1>1 DEF UsersKept
<1>2. CASE u \in Users
  <2>1. user[u] \in User
    BY <1>0, <1>2
  <2>2. row \in User /\ (user[u].disabled => row.disabled)
    <3>1. CASE row = [user[u] EXCEPT !.enrolled = TRUE]
      BY <2>1, <3>1, UserRows
    <3>2. CASE row = [user[u] EXCEPT !.disabled = TRUE]
      BY <2>1, <3>2, UserRows
    <3> QED BY <1>2, <3>1, <3>2
  <2> QED BY <1>0, <1>2, <2>2 DEF UsersKept
<1> QED BY <1>1, <1>2

LEMMA LoginSaved ==
    ASSUME RowsTyped, NEW x \in Logins, NEW row \in AuthTransaction, login' = [login EXCEPT ![x] = row],
           login[x].state # "none" =>
              /\ row.state # "none" /\ row.user = login[x].user
              /\ login[x].state = "authenticated" => row.state = "authenticated"
    PROVE  LoginsKept
BY DEF RowsTyped, LoginsKept

-----------------------------------------------------------------------------
\* One step of a login or of a request about the account.

\* The steps that answer the request or leave it without a session.
LEMMA QuietAccountSteps ==
    ASSUME RequestInv, NEW q \in Requests,
           \/ FindUser(q) \/ Start(q) \/ getValidTransaction(q) \/ ExpireTransaction(q)
           \/ SendOTP(q) \/ VerifyOTP(q) \/ AccountStep(q)
    PROVE  Quiet(q) /\ AccountsKept /\ SessionsKept
<1> USE DEF AccountsUnchanged
<1>0. RequestsShape /\ RowsTyped /\ RequestIsAbout(q)
  BY DEF RequestInv
<1>T. \A op \in AccountOps \cup {"start"} : op \notin TransactionOps
  BY DEF AccountOps, TransactionOps
<1>U. UNCHANGED user => UsersKept
  BY <1>0 DEF RowsTyped, UsersKept
<1>L. UNCHANGED login => LoginsKept
  BY <1>0 DEF RowsTyped, LoginsKept
<1>S. UNCHANGED session => SessionsKept
  BY <1>0 DEF RowsTyped, SessionsKept, SessionKept
<1>1. CASE FindUser(q)
  <2>1. PICK u \in Users : Begin(q, "start", u, {})
    BY <1>1 DEF FindUser
  <2>2. "start" \notin TransactionOps
    BY DEF TransactionOps
  <2>3. Quiet(q)
    BY <1>0, <2>1, <2>2, BeginMoves
  <2> QED BY <1>0, <1>1, <2>3, AccountsUnchangedKept DEF FindUser
<1>2. CASE Start(q)
  <2>0. request[q].on \in Users
    BY <1>0, <1>2 DEF Start, Begun, At, RequestIsAbout
  <2>1. PICK x \in Logins : /\ login[x].state = "none"
                            /\ login' = [login EXCEPT ![x] = CreateAuthTransaction(request[q].on)]
    BY <1>2 DEF Start
  <2>2. CreateAuthTransaction(request[q].on) \in AuthTransaction
    BY <2>0 DEF CreateAuthTransaction, AuthTransaction
  <2>3. LoginsKept
    BY <1>0, <2>1, <2>2, LoginSaved
  <2> QED BY <1>0, <1>2, <2>3, <1>U, <1>S, AnswerMoves DEF Start, AccountsKept
<1>3. CASE getValidTransaction(q)
  <2>1. PICK x \in Logins : /\ ~NoRows(GetAuthTransactionByID(x))
                            /\ \E op \in {"send_otp", "password", "verify"} : Begin(q, op, x, {})
    BY <1>3 DEF getValidTransaction
  <2>2. login[x].state # "none"
    BY <2>1 DEF GetAuthTransactionByID, Returning, NoRows
  <2>3. \A op \in {"send_otp", "password", "verify"} : op \notin AccountOps \cup {"start"}
    BY DEF AccountOps
  <2>4. ASSUME NEW op \in {"send_otp", "password", "verify"}, Begin(q, op, x, {}) PROVE Quiet(q)
    BY <1>0, <2>2, <2>3, <2>4, BeginMoves
  <2>6. Quiet(q)
    BY <2>1, <2>4
  <2> QED BY <1>0, <1>3, <2>6, AccountsUnchangedKept DEF getValidTransaction
<1>4. CASE ExpireTransaction(q)
  <2> DEFINE x == request[q].on
  <2>0. x \in Logins
    BY <1>0, <1>4 DEF ExpireTransaction, Begun, At, RequestIsAbout, TransactionOps
  <2>1. login[x] \in AuthTransaction
    BY <1>0, <2>0 DEF RowsTyped
  <2>2. \/ UNCHANGED login
        \/ login[x].state = "started" /\ login' = [login EXCEPT ![x] = [login[x] EXCEPT !.state = "expired"]]
    BY <1>4 DEF ExpireTransaction, SaveLogin, ExpireAuthTransaction, Returning, NoRows
  <2> DEFINE row == [login[x] EXCEPT !.state = "expired"]
  <2>3. row \in AuthTransaction /\ row.state = "expired" /\ row.user = login[x].user
    BY <2>1 DEF AuthTransaction
  <2> HIDE DEF x, row
  <2>4. \/ UNCHANGED login
        \/ login[x].state = "started" /\ login' = [login EXCEPT ![x] = row]
    BY <2>2 DEF row
  <2>5. LoginsKept
    BY <1>0, <1>L, <2>0, <2>3, <2>4, LoginSaved
  <2> QED BY <1>0, <1>4, <2>5, <1>U, <1>S, AnswerMoves DEF ExpireTransaction, AccountsKept
<1>5. CASE SendOTP(q) \/ VerifyOTP(q)
  BY <1>0, <1>5, AnswerMoves, AccountsUnchangedKept DEF SendOTP, VerifyOTP
<1>6. ASSUME NEW op \in AccountOps, ResolveSession(q, op)
      PROVE  Quiet(q) /\ AccountsKept /\ SessionsKept
  BY <1>0, <1>6, <1>T, ResolvesQuietly, AccountsUnchangedKept DEF RequestInv
<1>7. CASE SetPassword(q) \/ DeleteUser(q)
  <2> DEFINE u == request[q].on
  <2>1. \/ UNCHANGED user
        \/ user' = [user EXCEPT ![u] = [user[u] EXCEPT !.enrolled = TRUE]]
        \/ user' = [user EXCEPT ![u] = [user[u] EXCEPT !.disabled = TRUE]]
    BY <1>7 DEF SetPassword, DeleteUser, SaveUser, SetUserPassword, DisableUser, Returning, NoRows
  <2> HIDE DEF u
  <2>2. UsersKept
    BY <1>0, <1>U, <2>1, UserSaved
  <2>3. Answer(q) /\ UNCHANGED <<login, session>>
    BY <1>7 DEF SetPassword, DeleteUser, SaveUser
  <2> QED BY <1>0, <2>2, <2>3, <1>L, <1>S, AnswerMoves DEF AccountsKept
<1>8. CASE Revoke(q) \/ RevokeAll(q)
  <2> DEFINE u == request[q].on
  <2>0. session \in [Sessions -> Session]
    BY <1>0 DEF RowsTyped
  <2>1. /\ session' \in [Sessions -> {session[s] : s \in Sessions} \cup {RevokeSession(session[s], u) : s \in Sessions}]
        /\ \A s \in Sessions : session'[s] \in {session[s], RevokeSession(session[s], u)}
    BY <1>8, <2>0 DEF Revoke, RevokeAll, RevokeUserSessions
  <2>2. ASSUME NEW s \in Sessions
        PROVE  session'[s] \in Session /\ SessionKept(s)
    <3>1. session[s] \in Session
      BY <2>0
    <3>2. \/ session'[s] = session[s]
          \/ session[s].state # "none" /\ session'[s] = [session[s] EXCEPT !.state = "revoked"]
      BY <2>1 DEF RevokeSession
    <3> QED BY ZenonT(60), <3>1, <3>2, SessionRows DEF SessionKept
  <2>3. SessionsKept
    BY <2>1, <2>2 DEF SessionsKept
  <2>4. Answer(q) /\ UNCHANGED <<user, login>>
    BY <1>8 DEF Revoke, RevokeAll
  <2> QED BY <1>0, <2>3, <2>4, <1>U, <1>L, AnswerMoves DEF AccountsKept
<1> QED BY <1>1, <1>2, <1>3, <1>4, <1>5, <1>6, <1>7, <1>8 DEF AccountStep, AccountOps

LEMMA NoSessionStays ==
    ASSUME RowsTyped, SessionsKept, NEW s \in Sessions, session[s] = NoSession
    PROVE  session'[s] = NoSession
BY DEF RowsTyped, SessionsKept, SessionKept, Session, NoSession

\* The rows of the tables after any step, from what each lemma says of its own.
LEMMA RowsStayTyped ==
    ASSUME RowsTyped, AccountsKept, SessionsKept,
           member' \in [Users -> OrganizationMember], TokensStayDisabled, ScimStaysRevoked
    PROVE  RowsTyped'
<1>1. \A s \in Sessions : session'[s] = NoSession \/ session'[s].user \in Users
  <2> SUFFICES ASSUME NEW s \in Sessions PROVE session'[s] = NoSession \/ session'[s].user \in Users
    OBVIOUS
  <2>1. CASE session[s] = NoSession
    BY <2>1, NoSessionStays
  <2>2. CASE session[s].user \in Users
    BY <2>2 DEF SessionsKept, SessionKept
  <2> QED BY <2>1, <2>2 DEF RowsTyped
<1> QED BY <1>1 DEF RowsTyped, AccountsKept, UsersKept, LoginsKept, SessionsKept,
           TokensStayDisabled, ScimStaysRevoked

LEMMA AccessRowsKept ==
    ASSUME RowsTyped, UNCHANGED accessVars
    PROVE  member' \in [Users -> OrganizationMember] /\ TokensStayDisabled /\ ScimStaysRevoked
BY DEF RowsTyped, accessVars, TokensStayDisabled, ScimStaysRevoked

LEMMA SessionStandsKept ==
    ASSUME RowsTyped, SessionStands, AccountsKept, SessionsKept
    PROVE  SessionStands'
<1> SUFFICES ASSUME NEW s \in Sessions, session'[s].login # NoId
             PROVE  /\ login'[session'[s].login].state = "authenticated"
                    /\ login'[session'[s].login].user = session'[s].user
  BY DEF SessionStands
<1>1. session[s] \in Session /\ SessionKept(s)
  BY DEF RowsTyped, SessionsKept
<1>2. session[s].login \in Logins
  BY <1>1 DEF Session, SessionKept
<1> QED BY <1>1, <1>2 DEF SessionKept, SessionStands, AccountsKept, LoginsKept

\* What is known of logins survives a step that brings no request nearer to a session.
LEMMA QuietKeepsLogins ==
    ASSUME RequestInv, LoginInv, NEW q \in Requests, Quiet(q), AccountsKept, SessionsKept
    PROVE  LoginInv'
<1>3. LoginStands'
  <2> SUFFICES ASSUME NEW p \in Requests
               PROVE  /\ request'[p].op \in TransactionOps => login'[request'[p].on].state # "none"
                      /\ request'[p].pc = "session" => login'[request'[p].on].state = "authenticated"
    BY DEF LoginStands
  <2>1. CASE p # q
    <3>1. request'[p] = request[p] /\ RequestIsAbout(p)
      BY <2>1 DEF Quiet, Others, RequestInv
    <3>2. request[p].op \in TransactionOps =>
             /\ request[p].on \in Logins /\ login[request[p].on].state # "none"
             /\ login[request[p].on].user \in Users
      BY <3>1 DEF RequestIsAbout, LoginInv, LoginStands, RequestInv, RowsTyped, AuthTransaction
    <3>3. request[p].pc \in {"mark", "session"} => request[p].op \in TransactionOps
      BY <3>1 DEF RequestIsAbout, LoginPCs
    <3>4. request[p].op \in TransactionOps =>
             /\ login'[request[p].on].state # "none"
             /\ login'[request[p].on].user = login[request[p].on].user
             /\ login[request[p].on].state = "authenticated" => login'[request[p].on].state = "authenticated"
      BY <3>2 DEF AccountsKept, LoginsKept
    <3> QED BY <3>1, <3>2, <3>3, <3>4 DEF LoginInv, LoginStands, AccountsKept, UsersKept
  <2>2. CASE p = q
    <3>1. request'[q].pc \notin {"mark", "session"}
      BY DEF Quiet, LoginPCs
    <3>2. ASSUME request'[q].op \in TransactionOps PROVE login'[request'[q].on].state # "none"
      <4>1. request'[q].on \in Logins /\ login[request'[q].on].state # "none"
        BY <3>2 DEF Quiet, LoginInv, LoginStands
      <4> QED BY <4>1 DEF AccountsKept, LoginsKept
    <3> QED BY <2>2, <3>1, <3>2
  <2> QED BY <2>1, <2>2
<1>4. SessionStands'
  BY SessionStandsKept DEF RequestInv, LoginInv
<1> QED BY <1>3, <1>4 DEF LoginInv

\* A login's step towards its session: what it has to establish for what it says.
LEMMA LoginMoves ==
    ASSUME RequestInv, LoginInv, NEW q \in Requests, RequestsShape', Others(q),
           request'[q].op = request[q].op, request'[q].on = request[q].on, request[q].op \in TransactionOps,
           request[q].pc # "done", request'[q].pc \in LoginPCs,
           AccountsKept, SessionsKept, UNCHANGED accessVars,
           request'[q].pc = "session" => login'[request[q].on].state = "authenticated"
    PROVE  RequestInv' /\ LoginInv'
<1>1. RequestInv'
  <2>1. RowsTyped'
    BY RowsStayTyped, AccessRowsKept DEF RequestInv
  <2>2. ASSUME NEW p \in Requests PROVE RequestIsAbout(p)'
    <3>0. p \in Sessions /\ (session[p] = NoSession => session'[p] = NoSession)
      BY NoSessionStays DEF Sessions, RequestInv
    <3>1. CASE p # q
      BY <3>0, <3>1 DEF Others, RequestInv, RequestIsAbout
    <3>2. CASE p = q
      BY <3>0, <3>2 DEF RequestInv, RequestIsAbout, LoginPCs
    <3> QED BY <3>1, <3>2
  <2> QED BY <2>1, <2>2 DEF RequestInv
<1>3. LoginStands'
  <2> SUFFICES ASSUME NEW p \in Requests
               PROVE  /\ request'[p].op \in TransactionOps => login'[request'[p].on].state # "none"
                      /\ request'[p].pc = "session" => login'[request'[p].on].state = "authenticated"
    BY DEF LoginStands
  <2>0. RequestIsAbout(p)
    BY DEF RequestInv
  <2>1. request[p].op \in TransactionOps =>
           /\ request[p].on \in Logins /\ login[request[p].on].state # "none"
           /\ login[request[p].on].user \in Users
    BY <2>0 DEF RequestIsAbout, LoginInv, LoginStands, RequestInv, RowsTyped, AuthTransaction
  <2>2. request[p].op \in TransactionOps =>
           /\ login'[request[p].on].state # "none"
           /\ login'[request[p].on].user = login[request[p].on].user
           /\ login[request[p].on].state = "authenticated" => login'[request[p].on].state = "authenticated"
    BY <2>1 DEF AccountsKept, LoginsKept
  <2>3. CASE p # q
    <3>1. request'[p] = request[p]
      BY <2>3 DEF Others
    <3>2. request[p].pc \in {"mark", "session"} => request[p].op \in TransactionOps
      BY <2>0 DEF RequestIsAbout, LoginPCs
    <3> QED BY <2>1, <2>2, <3>1, <3>2 DEF LoginInv, LoginStands, AccountsKept, UsersKept
  <2>4. CASE p = q
    BY <2>2, <2>4
  <2> QED BY <2>3, <2>4
<1>4. SessionStands'
  BY SessionStandsKept DEF RequestInv, LoginInv
<1> QED BY <1>1, <1>3, <1>4 DEF LoginInv

\* The steps that answer: the same conclusion.
LEMMA QuietMoves ==
    ASSUME RequestInv, LoginInv, NEW q \in Requests, Quiet(q), AccountsKept, SessionsKept,
           member' \in [Users -> OrganizationMember], TokensStayDisabled, ScimStaysRevoked
    PROVE  RequestInv' /\ LoginInv'
<1>1. RowsTyped'
  BY RowsStayTyped DEF RequestInv
<1>2. \A p \in Requests : session[p] = NoSession => session'[p] = NoSession
  BY NoSessionStays DEF RequestInv, Sessions
<1> QED BY <1>1, <1>2, QuietKeepsRequests, QuietKeepsLogins

\* The account's tables, each left alone.
LEMMA TablesUnchanged ==
    ASSUME RowsTyped
    PROVE  /\ UNCHANGED user => UsersKept
           /\ UNCHANGED login => LoginsKept
           /\ UNCHANGED session => SessionsKept
BY DEF RowsTyped, UsersKept, LoginsKept, SessionsKept, SessionKept

\* Answer with the tables kept: every early return of a login.
LEMMA AnswersQuietly ==
    ASSUME RequestInv, LoginInv, NEW q \in Requests, Answer(q), AccountsKept, SessionsKept, UNCHANGED accessVars
    PROVE  RequestInv' /\ LoginInv'
BY AnswerMoves, AccessRowsKept, QuietMoves DEF RequestInv

LEMMA PasswordStep ==
    ASSUME RequestInv, LoginInv, NEW q \in Requests, LoginWithPassword(q), UNCHANGED accessVars
    PROVE  RequestInv' /\ LoginInv' /\ AccountsKept /\ SessionsKept
<1>1. RequestsShape /\ RowsTyped /\ UNCHANGED accountVars /\ AccountsKept /\ SessionsKept
  BY AccountsUnchangedKept DEF RequestInv, LoginWithPassword, AccountsUnchanged, accountVars
<1>2. CASE Answer(q)
  BY <1>1, <1>2, AnswersQuietly
<1>3. CASE Goto(q, "mark", {}, {})
  <2>1. /\ RequestsShape' /\ Others(q)
        /\ request'[q].op = request[q].op /\ request'[q].pc = "mark" /\ request'[q].on = request[q].on
    BY <1>1, <1>3, GotoMoves
  <2>2. request[q].op \in TransactionOps /\ request[q].pc # "done"
    BY DEF LoginWithPassword, Begun, At, TransactionOps
  <2> QED BY <1>1, <2>1, <2>2, LoginMoves DEF LoginPCs
<1> QED BY <1>2, <1>3 DEF LoginWithPassword

LEMMA AuthenticatedStep ==
    ASSUME RequestInv, LoginInv, NEW q \in Requests, MarkAuthenticated(q), UNCHANGED accessVars
    PROVE  RequestInv' /\ LoginInv' /\ AccountsKept /\ SessionsKept
<1>0. /\ RequestsShape /\ RowsTyped /\ UsersKept /\ SessionsKept
      /\ request[q].pc = "mark" /\ UNCHANGED <<user, session>>
      /\ RequestIsAbout(q)
  BY TablesUnchanged DEF RequestInv, MarkAuthenticated, At
<1> DEFINE x == request[q].on
           rows == MarkAuthTransactionAuthenticated(x)
<1>1. request[q].op \in TransactionOps /\ x \in Logins /\ login[x] \in AuthTransaction
  BY <1>0 DEF RequestIsAbout, RowsTyped, LoginPCs
<1>2. CASE NoRows(rows)
  <2>1. UNCHANGED login /\ Answer(q)
    BY <1>2 DEF MarkAuthenticated, SaveLogin
  <2>2. AccountsKept
    BY <1>0, <2>1, TablesUnchanged DEF AccountsKept
  <2> QED BY <1>0, <2>1, <2>2, AnswersQuietly
<1>3. CASE ~NoRows(rows)
  <2> DEFINE row == [login[x] EXCEPT !.state = "authenticated"]
  <2>1. login' = [login EXCEPT ![x] = row] /\ Goto(q, "session", {}, {})
    BY <1>3 DEF MarkAuthenticated, SaveLogin, MarkAuthTransactionAuthenticated, Returning, NoRows
  <2>2. row \in AuthTransaction /\ row.state = "authenticated" /\ row.user = login[x].user
    BY <1>1 DEF AuthTransaction
  <2> HIDE DEF row
  <2>3. LoginsKept
    BY <1>0, <1>1, <2>1, <2>2, LoginSaved
  <2>4. login'[x].state = "authenticated" /\ login'[x].user = login[x].user
    BY <1>0, <1>1, <2>1, <2>2 DEF RowsTyped
  <2>5. AccountsKept
    BY <1>0, <2>3 DEF AccountsKept
  <2>6. /\ RequestsShape' /\ Others(q)
        /\ request'[q].op = request[q].op /\ request'[q].pc = "session" /\ request'[q].on = request[q].on
    BY <1>0, <2>1, GotoMoves
  <2> QED BY <1>0, <1>1, <2>4, <2>5, <2>6, LoginMoves DEF LoginPCs
<1> QED BY <1>2, <1>3

\* Revocation lasts, and a session stays its user's.
RevocationKept ==
    \A s \in Sessions : session[s].state # "none" =>
       /\ session'[s].user = session[s].user
       /\ session[s].state = "revoked" => session'[s].state = "revoked"

LEMMA SessionStep ==
    ASSUME RequestInv, LoginInv, NEW q \in Requests, createSession(q), UNCHANGED accessVars
    PROVE  RequestInv' /\ LoginInv' /\ AccountsKept /\ RevocationKept
<1> DEFINE x == request[q].on
<1>0. /\ RequestsShape /\ RowsTyped /\ AccountsKept /\ Answer(q)
      /\ request[q].pc = "session" /\ UNCHANGED <<user, login>>
      /\ RequestIsAbout(q) /\ q \in Sessions
  BY TablesUnchanged DEF RequestInv, createSession, At, AccountsKept, Sessions
<1>1. request[q].op \in TransactionOps /\ x \in Logins /\ login[x] \in AuthTransaction /\ login[x].user \in Users
  BY <1>0 DEF RequestIsAbout, RowsTyped, LoginPCs, AuthTransaction
<1>2. LET rows == CreateSession(login[x].user, x)
      IN  IF NoRows(rows) THEN UNCHANGED session
          ELSE \E row \in rows : session' = [session EXCEPT ![q] = row]
  BY DEF createSession
<1>4. CASE UNCHANGED session
  <2>1. SessionsKept
    BY <1>0, <1>4, TablesUnchanged
  <2> QED BY <1>0, <1>4, <2>1, AnswersQuietly DEF RevocationKept
<1>5. CASE ~UNCHANGED session
  <2> DEFINE row == [state |-> "live", user |-> login[x].user, login |-> x]
  <2>1. session' = [session EXCEPT ![q] = row]
    BY <1>2, <1>5 DEF CreateSession, Returning, NoRows
  <2>2. row \in Session /\ row.login = x /\ row.user = login[x].user
    BY <1>1 DEF Session
  <2> HIDE DEF row
  <2>3. /\ session \in [Sessions -> Session] /\ session' \in [Sessions -> Session] /\ session'[q] = row
        /\ \A s \in Sessions \ {q} : session'[s] = session[s]
    BY <1>0, <2>1, <2>2 DEF RowsTyped
  <2>4. session[q] = NoSession
    BY <1>0 DEF RequestIsAbout
  <2>5. RevocationKept
    BY <2>3, <2>4 DEF RevocationKept, NoSession
  <2>6. Quiet(q) /\ request'[q].pc = "done" /\ request'[q].op = "none"
    BY <1>0, AnswerMoves
  <2>7. RowsTyped'
    BY <1>0, <1>1, <2>2, <2>3, AccessRowsKept DEF RowsTyped, AccountsKept, UsersKept, LoginsKept,
       TokensStayDisabled, ScimStaysRevoked
  <2>8. RequestInv'
    BY <2>3, <2>6, <2>7, QuietKeepsRequests DEF Sessions
  <2>12. LoginStands'
    <3> SUFFICES ASSUME NEW p \in Requests
                 PROVE  /\ request'[p].op \in TransactionOps => login'[request'[p].on].state # "none"
                        /\ request'[p].pc = "session" => login'[request'[p].on].state = "authenticated"
      BY DEF LoginStands
    <3>1. CASE p # q
      <4>1. request'[p] = request[p]
        BY <2>6, <3>1 DEF Quiet, Others
      <4> QED BY <1>0, <4>1 DEF LoginInv, LoginStands
    <3>2. CASE p = q
      BY <2>6, <3>2 DEF TransactionOps
    <3> QED BY <3>1, <3>2
  <2>13. SessionStands'
    <3>1. login[x].state = "authenticated"
      BY <1>0 DEF LoginInv, LoginStands
    <3> QED BY <1>0, <2>2, <2>3, <3>1 DEF LoginInv, SessionStands
  <2> QED BY <1>0, <2>5, <2>8, <2>12, <2>13 DEF LoginInv
<1> QED BY <1>4, <1>5

\* Expiry times pass: a step of no request.
LEMMA ClockStep ==
    ASSUME RowsTyped,
           \/ \E x \in Logins : LoginExpires(x)
           \/ \E s \in Sessions : SessionExpires(s)
    PROVE  AccountsKept /\ SessionsKept /\ UNCHANGED request
<1>1. ASSUME NEW x \in Logins, LoginExpires(x) PROVE AccountsKept /\ SessionsKept /\ UNCHANGED request
  <2> DEFINE row == [login[x] EXCEPT !.over = TRUE]
  <2>1. login[x] \in AuthTransaction
    BY DEF RowsTyped
  <2>2. row \in AuthTransaction /\ row.state = login[x].state /\ row.user = login[x].user
    BY <2>1 DEF AuthTransaction
  <2>3. login' = [login EXCEPT ![x] = row]
    BY <1>1 DEF LoginExpires
  <2> HIDE DEF row
  <2>4. LoginsKept
    BY <2>2, <2>3, LoginSaved
  <2> QED BY <1>1, <2>4, TablesUnchanged DEF LoginExpires, AccountsKept
<1>3. ASSUME NEW s \in Sessions, SessionExpires(s) PROVE AccountsKept /\ SessionsKept /\ UNCHANGED request
  <2> DEFINE row == [session[s] EXCEPT !.state = "expired"]
  <2>1. session \in [Sessions -> Session] /\ session[s] \in Session
    BY DEF RowsTyped
  <2>2. /\ row \in Session /\ row.state = "expired" /\ row.user = session[s].user
        /\ row.login = session[s].login
    BY <2>1 DEF Session
  <2>3. session' = [session EXCEPT ![s] = row] /\ session[s].state = "live"
    BY <1>3 DEF SessionExpires
  <2> HIDE DEF row
  <2>4. SessionsKept
    BY <2>1, <2>2, <2>3 DEF SessionsKept, SessionKept
  <2> QED BY <1>3, <2>4, TablesUnchanged DEF SessionExpires, AccountsKept
<1> QED BY <1>1, <1>3

-----------------------------------------------------------------------------
\* All the steps together.

TenancyInv == RequestInv /\ OwnerInv /\ LoginInv

StepKept ==
    /\ OwnerInv' /\ AccountsKept /\ RevocationKept /\ TokensStayDisabled /\ ScimStaysRevoked
    /\ \A q \in Requests : request'[q] # request[q] => ActorWasAdmin(q)

LEMMA SessionsKeptRevoked == SessionsKept => RevocationKept
BY DEF SessionsKept, SessionKept, RevocationKept

LEMMA AccountStepFrame ==
    ASSUME NEW q \in Requests, LoginStep(q) \/ AccountStep(q)
    PROVE  UNCHANGED organization
BY DEF LoginStep, AccountStep, FindUser, Start, getValidTransaction, ExpireTransaction, SendOTP,
   LoginWithPassword, VerifyOTP, MarkAuthenticated, createSession,
   ResolveSession, SetPassword, DeleteUser, SaveUser, Revoke, RevokeAll, AccountsUnchanged

LEMMA LoginStepKeeps ==
    ASSUME TenancyInv, NEW q \in Requests, LoginStep(q) \/ AccountStep(q), UNCHANGED accessVars
    PROVE  TenancyInv' /\ StepKept
<1>0. RequestInv /\ LoginInv /\ OwnerInv /\ RowsTyped
  BY DEF TenancyInv, RequestInv
<1>1. RequestInv' /\ LoginInv' /\ AccountsKept /\ RevocationKept
  <2>1. CASE \/ FindUser(q) \/ Start(q) \/ getValidTransaction(q) \/ ExpireTransaction(q)
             \/ SendOTP(q) \/ VerifyOTP(q) \/ AccountStep(q)
    BY <1>0, <2>1, QuietAccountSteps, AccessRowsKept, QuietMoves, SessionsKeptRevoked
  <2>2. CASE LoginWithPassword(q)
    BY <1>0, <2>2, PasswordStep, SessionsKeptRevoked
  <2>6. CASE MarkAuthenticated(q)
    BY <1>0, <2>6, AuthenticatedStep, SessionsKeptRevoked
  <2>7. CASE createSession(q)
    BY <1>0, <2>7, SessionStep
  <2> QED BY <2>1, <2>2, <2>6, <2>7 DEF LoginStep
<1>2. UNCHANGED <<organization, member, token, scim>>
  BY AccountStepFrame DEF accessVars
<1>3. OrganizationKept(q)
  BY <1>0, <1>2, RowsUnchangedKept
<1>4. \A p \in Requests : ActorWasAdmin(p)
  BY <1>2 DEF ActorWasAdmin
<1> QED BY <1>1, <1>3, <1>4 DEF TenancyInv, StepKept, OrganizationKept

\* A quiet step of a request that leaves the accounts alone.
LEMMA OrganizationStepKeeps ==
    ASSUME TenancyInv, NEW q \in Requests, Quiet(q), UNCHANGED accountVars, OrganizationKept(q)
    PROVE  TenancyInv' /\ StepKept
<1>0. RequestInv /\ LoginInv /\ OwnerInv /\ RowsTyped
  BY DEF TenancyInv, RequestInv
<1>1. AccountsKept /\ SessionsKept
  BY <1>0, AccountsUnchangedKept
<1>2. RequestInv' /\ LoginInv'
  BY <1>0, <1>1, QuietMoves DEF OrganizationKept
<1>3. \A p \in Requests : request'[p] # request[p] => p = q
  BY DEF Quiet, Others
<1> QED BY <1>1, <1>2, <1>3, SessionsKeptRevoked DEF TenancyInv, StepKept, OrganizationKept

\* A step of no request keeps what is known of requests.
LEMMA NoRequestStepKeeps ==
    ASSUME TenancyInv, UNCHANGED <<request, organization, member>>, AccountsKept, SessionsKept,
           TokensStayDisabled, ScimStaysRevoked
    PROVE  TenancyInv' /\ StepKept
<1>0. RequestInv /\ LoginInv /\ OwnerInv /\ RowsTyped
  BY DEF TenancyInv, RequestInv
<1>1. OwnerInv' /\ member' \in [Users -> OrganizationMember]
  BY <1>0 DEF OwnerInv, OneOwner, RowsTyped
<1>2. RowsTyped'
  BY <1>0, <1>1, RowsStayTyped
<1>3. RequestInv'
  <2>1. RequestsShape'
    BY <1>0 DEF RequestInv, RequestsShape
  <2>2. ASSUME NEW p \in Requests PROVE RequestIsAbout(p)'
    <3>1. session[p] = NoSession => session'[p] = NoSession
      BY <1>0, NoSessionStays DEF Sessions
    <3> QED BY <1>0, <3>1 DEF RequestInv, RequestIsAbout
  <2> QED BY <1>2, <2>1, <2>2 DEF RequestInv
<1>5. LoginStands'
  <2> SUFFICES ASSUME NEW p \in Requests
               PROVE  /\ request[p].op \in TransactionOps => login'[request[p].on].state # "none"
                      /\ request[p].pc = "session" => login'[request[p].on].state = "authenticated"
    BY DEF LoginStands
  <2>0. RequestIsAbout(p)
    BY <1>0 DEF RequestInv
  <2>1. request[p].op \in TransactionOps =>
           /\ request[p].on \in Logins /\ login[request[p].on].state # "none"
           /\ login[request[p].on].user \in Users
    BY <1>0, <2>0 DEF RequestIsAbout, LoginInv, LoginStands, RowsTyped, AuthTransaction
  <2>2. request[p].op \in TransactionOps =>
           /\ login'[request[p].on].state # "none"
           /\ login'[request[p].on].user = login[request[p].on].user
           /\ login[request[p].on].state = "authenticated" => login'[request[p].on].state = "authenticated"
    BY <2>1 DEF AccountsKept, LoginsKept
  <2>3. request[p].pc \in {"mark", "session"} => request[p].op \in TransactionOps
    BY <2>0 DEF RequestIsAbout, LoginPCs
  <2> QED BY <1>0, <2>1, <2>2, <2>3 DEF LoginInv, LoginStands, AccountsKept, UsersKept
<1>6. SessionStands'
  BY <1>0, SessionStandsKept DEF LoginInv
<1> QED BY <1>1, <1>3, <1>5, <1>6, SessionsKeptRevoked DEF TenancyInv, LoginInv, StepKept

LEMMA TenancyStep ==
    ASSUME TenancyInv, [TenancyNext]_tenancyVars
    PROVE  TenancyInv' /\ StepKept
<1>0. RequestInv /\ LoginInv /\ OwnerInv /\ RowsTyped
  BY DEF TenancyInv, RequestInv
<1>1. ASSUME NEW q \in Requests, LoginStep(q) \/ AccountStep(q), UNCHANGED accessVars
      PROVE  TenancyInv' /\ StepKept
  BY <1>1, LoginStepKeeps
<1>2. ASSUME NEW q \in Requests, ChainStep(q) PROVE TenancyInv' /\ StepKept
  <2>1. Quiet(q) /\ UNCHANGED accountVars /\ UNCHANGED <<organization, member, token, scim>>
    BY <1>0, <1>2, ChainIsQuiet DEF AccessUnchanged, accessVars
  <2>2. OrganizationKept(q)
    BY <1>0, <2>1, RowsUnchangedKept
  <2> QED BY <2>1, <2>2, OrganizationStepKeeps
<1>3. ASSUME NEW q \in Requests, ServiceStep(q) PROVE TenancyInv' /\ StepKept
  BY <1>0, <1>3, ServiceIsQuiet, ServiceKeepsRows, OrganizationStepKeeps
<1>4. CASE \/ \E x \in Logins : LoginExpires(x) /\ UNCHANGED accessVars
           \/ \E s \in Sessions : SessionExpires(s) /\ UNCHANGED accessVars
  <2>1. AccountsKept /\ SessionsKept /\ UNCHANGED request
    BY <1>0, <1>4, ClockStep
  <2>2. UNCHANGED organization /\ UNCHANGED accessVars
    BY <1>4 DEF LoginExpires, SessionExpires
  <2>3. TokensStayDisabled /\ ScimStaysRevoked /\ UNCHANGED member
    BY <1>0, <2>2, AccessRowsKept DEF accessVars
  <2> QED BY <2>1, <2>2, <2>3, NoRequestStepKeeps
<1>5. ASSUME NEW t \in Tokens, TokenExpires(t) PROVE TenancyInv' /\ StepKept
  <2> DEFINE row == [token[t] EXCEPT !.over = TRUE]
  <2>1. token \in [Tokens -> OrganizationToken] /\ token[t] \in OrganizationToken
    BY <1>0 DEF RowsTyped
  <2>2. row \in OrganizationToken /\ row.state = token[t].state
    BY <2>1 DEF OrganizationToken
  <2>3. token' = [token EXCEPT ![t] = row]
    BY <1>5 DEF TokenExpires
  <2> HIDE DEF row
  <2>4. TokensStayDisabled
    BY <2>1, <2>2, <2>3 DEF TokensStayDisabled
  <2>5. UNCHANGED <<request, organization, member>> /\ UNCHANGED accountVars /\ UNCHANGED scim
    BY <1>5 DEF TokenExpires
  <2>6. ScimStaysRevoked
    BY <1>0, <2>5 DEF RowsTyped, ScimStaysRevoked
  <2>7. AccountsKept /\ SessionsKept
    BY <1>0, <2>5, AccountsUnchangedKept
  <2> QED BY <2>4, <2>5, <2>6, <2>7, NoRequestStepKeeps
<1>6. CASE ScimExpires
  <2>1. scim \in ScimToken
    BY <1>0 DEF RowsTyped
  <2>2. ScimStaysRevoked
    BY <1>6, <2>1 DEF ScimExpires, ScimStaysRevoked, ScimToken
  <2>3. UNCHANGED <<request, organization, member>> /\ UNCHANGED accountVars /\ UNCHANGED token
    BY <1>6 DEF ScimExpires
  <2>4. TokensStayDisabled
    BY <1>0, <2>3 DEF RowsTyped, TokensStayDisabled
  <2>5. AccountsKept /\ SessionsKept
    BY <1>0, <2>3, AccountsUnchangedKept
  <2> QED BY <2>2, <2>3, <2>4, <2>5, NoRequestStepKeeps
<1>7. CASE UNCHANGED tenancyVars
  <2>1. UNCHANGED <<request, organization>> /\ UNCHANGED accountVars /\ UNCHANGED accessVars
    BY <1>7 DEF tenancyVars
  <2>2. AccountsKept /\ SessionsKept /\ TokensStayDisabled /\ ScimStaysRevoked /\ UNCHANGED member
    BY <1>0, <2>1, AccountsUnchangedKept, AccessRowsKept DEF accessVars
  <2> QED BY <2>1, <2>2, NoRequestStepKeeps
<1> QED BY <1>1, <1>2, <1>3, <1>4, <1>5, <1>6, <1>7 DEF TenancyNext

LEMMA TenancyInvInit == TenancyInit => TenancyInv
<1> SUFFICES ASSUME TenancyInit PROVE TenancyInv
  OBVIOUS
<1>1. IsRequest(Unbegun) /\ Unbegun.pc = "new" /\ Unbegun.op = "none"
  BY DEF IsRequest, Unbegun
<1>2. RequestsShape /\ \A q \in Requests : request[q] = Unbegun
  BY <1>1 DEF TenancyInit, RequestsShape
<1>3. RowsTyped
  BY DEF TenancyInit, TenancyTypeOK, RowsTyped
<1>4. \A q \in Requests : q \in Sessions /\ session[q] = NoSession
  BY AccountsAssumption DEF TenancyInit, Sessions
<1>5. RequestInv
  BY <1>1, <1>2, <1>3, <1>4 DEF RequestInv, RequestIsAbout, TransactionOps, AccountOps, LoginPCs
<1>6. OwnerInv
  BY DEF TenancyInit, OwnerInv
<1>8. LoginInv
  BY <1>1, <1>2 DEF TenancyInit, LoginInv, LoginStands, SessionStands, TransactionOps
<1> QED BY <1>5, <1>6, <1>8 DEF TenancyInv

LEMMA TenancyAlways == TenancySpec => []TenancyInv
BY TenancyInvInit, TenancyStep, PTL DEF TenancySpec

\* For any number of users, requests and transactions: a session is of the user of
\* its transaction, which was authenticated and is never expired after that.
THEOREM SessionsFollowLogins == TenancySpec => []SessionFollowsLogin
<1>1. TenancyInv => SessionFollowsLogin
  BY DEF TenancyInv, LoginInv, SessionStands, SessionFollowsLogin
<1> QED BY <1>1, TenancyAlways, PTL

\* For any number of requests: members and credentials are changed by active owners
\* and admins alone, as of the statement that changes them, and the organization
\* keeps its one owner.
THEOREM OnlyAdminsAct == TenancySpec => AdminsAct
<1>1. ASSUME TenancyInv, [TenancyNext]_tenancyVars
      PROVE  [/\ OneOwner'
              /\ \A q \in Requests :
                 request'[q] # request[q] /\ request[q].op \in MemberOps \cup CredentialOps
                    /\ (member' # member \/ token' # token) =>
                       \E snap \in request[q].saw : snap.status = "active" /\ snap.role \in Admin]_tenancyVars
  BY <1>1, TenancyStep DEF StepKept, OwnerInv, ActorWasAdmin
<1> QED BY <1>1, TenancyAlways, PTL DEF TenancySpec, AdminsAct

\* For any number of requests: what was revoked or disabled never resolves again.
THEOREM RevokedStayOut == TenancySpec => RevokedStaysOut
<1> DEFINE A == /\ \A s \in Sessions :
                      session[s].state = "revoked" \/ (session[s].state # "none" /\ ~Enabled(session[s].user))
                         => GetSessionByTokenHash(s)' = {}
                /\ \A t \in Tokens : token[t].state = "disabled" => GetOrganizationTokenByTokenHash(t)' = {}
                /\ scim.state = "revoked" => GetActiveSCIMTokenByHash' = {}
<1>1. ASSUME TenancyInv, [TenancyNext]_tenancyVars PROVE A
  <2>0. StepKept /\ RowsTyped
    BY <1>1, TenancyStep DEF TenancyInv, RequestInv
  <2>1. ASSUME NEW s \in Sessions,
               session[s].state = "revoked" \/ (session[s].state # "none" /\ ~Enabled(session[s].user))
        PROVE  GetSessionByTokenHash(s)' = {}
    <3>1. session'[s].user = session[s].user /\ session[s].user \in Users
      BY <2>0, <2>1 DEF StepKept, RevocationKept, RowsTyped, NoSession
    <3>2. CASE session[s].state = "revoked"
      BY <2>0, <3>2 DEF StepKept, RevocationKept, GetSessionByTokenHash, Returning
    <3>3. CASE ~Enabled(session[s].user)
      <4>1. user'[session[s].user].disabled
        BY <2>0, <3>1, <3>3 DEF StepKept, AccountsKept, UsersKept, Enabled
      <4> QED BY <3>1, <4>1 DEF GetSessionByTokenHash, Returning, Enabled
    <3> QED BY <2>1, <3>2, <3>3
  <2>2. ASSUME NEW t \in Tokens, token[t].state = "disabled" PROVE GetOrganizationTokenByTokenHash(t)' = {}
    BY <2>0, <2>2 DEF StepKept, TokensStayDisabled, GetOrganizationTokenByTokenHash, Returning
  <2>3. ASSUME scim.state = "revoked" PROVE GetActiveSCIMTokenByHash' = {}
    BY <2>0, <2>3 DEF StepKept, ScimStaysRevoked, GetActiveSCIMTokenByHash, Returning
  <2> QED BY <2>1, <2>2, <2>3
<1>2. TenancyInv /\ [TenancyNext]_tenancyVars => [A]_tenancyVars
  BY <1>1
<1> QED BY <1>2, TenancyAlways, PTL DEF TenancySpec, RevokedStaysOut

\* Network policies.

\* A nonempty set of naturals has a least element.
LEMMA LeastNat ==
    ASSUME NEW T, T \subseteq Nat, T # {}
    PROVE  \E x \in T : \A y \in T : x <= y
<1> DEFINE R == OpToRel(<, Nat)
<1>1. PICK x \in T : \A y \in T : ~(<<y, x>> \in R)
  BY NatLessThanWellFounded, WFMin
<1>2. \A u, y \in Nat : (<<y, u>> \in R) <=> y < u
  BY DEF OpToRel
<1> HIDE DEF R
<1>3. ASSUME NEW y \in T PROVE x <= y
  <2>1. x \in Nat /\ y \in Nat /\ ~(<<y, x>> \in R)
    BY <1>1
  <2>2. ~(y < x)
    BY <1>2, <2>1
  <2> QED BY <2>1, <2>2
<1> QED BY <1>3

\* The loop is defined for policy lists of any length: the shortest prefix that
\* had no evaluation would have one, from the evaluation of the prefix before.
EvaluationUpTo(policies, address, n, f) ==
    f = [i \in 0 .. n |-> IF i = 0 THEN Unevaluated
                          ELSE Evaluate(f[i - 1], policies[i], address)]

LEMMA EvaluationExists ==
    ASSUME NEW policies, NEW address, NEW n \in Nat
    PROVE  \E f : EvaluationUpTo(policies, address, n, f)
<1> DEFINE Without == {m \in Nat : ~\E f : EvaluationUpTo(policies, address, m, f)}
<1> SUFFICES ASSUME Without # {} PROVE FALSE
  OBVIOUS
<1>1. PICK m \in Without : \A k \in Without : m <= k
  <2> HIDE DEF Without
  <2>1. Without \subseteq Nat
    BY DEF Without
  <2> QED BY <2>1, LeastNat
<1>2. m # 0
  <2> DEFINE f == [i \in 0 .. 0 |-> Unevaluated]
  <2>1. f = [i \in 0 .. 0 |-> IF i = 0 THEN Unevaluated
                              ELSE Evaluate(f[i - 1], policies[i], address)]
    <3>1. \A i \in 0 .. 0 : i = 0
      OBVIOUS
    <3> HIDE DEF Unevaluated
    <3> QED BY <3>1
  <2>2. EvaluationUpTo(policies, address, 0, f)
    <3> HIDE DEF f
    <3> QED BY <2>1 DEF EvaluationUpTo
  <2> QED BY <2>2
<1>3. m \in Nat /\ m - 1 \in Nat /\ m - 1 \notin Without
  BY <1>1, <1>2
<1>4. PICK g : EvaluationUpTo(policies, address, m - 1, g)
  BY <1>3
<1>5. g = [i \in 0 .. m - 1 |-> IF i = 0 THEN Unevaluated
                                ELSE Evaluate(g[i - 1], policies[i], address)]
  BY <1>4 DEF EvaluationUpTo
<1>6. \A i \in 0 .. m - 1 : g[i] = IF i = 0 THEN Unevaluated
                                   ELSE Evaluate(g[i - 1], policies[i], address)
  BY <1>5
<1> DEFINE last == Evaluate(g[m - 1], policies[m], address)
           f == [i \in 0 .. m |-> IF i = m THEN last ELSE g[i]]
<1>7. ASSUME NEW i \in 0 .. m
      PROVE  f[i] = IF i = 0 THEN Unevaluated ELSE Evaluate(f[i - 1], policies[i], address)
  <2>0. f[i] = IF i = m THEN last ELSE g[i]
    OBVIOUS
  <2>1. CASE i = 0
    <3>1. f[i] = g[i] /\ i \in 0 .. m - 1
      BY <1>2, <1>3, <2>0, <2>1
    <3> HIDE DEF f
    <3> QED BY <1>6, <2>1, <3>1
  <2>2. CASE i # 0
    <3>1. i - 1 \in 0 .. m /\ i - 1 # m /\ i \in Nat
      BY <1>3, <2>2
    <3>2. f[i - 1] = g[i - 1]
      BY <3>1
    <3>3. CASE i = m
      <4> HIDE DEF f
      <4> QED BY <2>0, <2>2, <3>2, <3>3
    <3>4. CASE i # m
      <4>1. i \in 0 .. m - 1
        BY <1>3, <3>4
      <4> HIDE DEF f
      <4> QED BY <1>6, <2>0, <2>2, <3>2, <3>4, <4>1
    <3> QED BY <3>3, <3>4
  <2> QED BY <2>1, <2>2
<1>8. EvaluationUpTo(policies, address, m, f)
  <2>1. f = [i \in 0 .. m |-> f[i]]
    OBVIOUS
  <2> HIDE DEF f
  <2>2. f = [i \in 0 .. m |-> IF i = 0 THEN Unevaluated
                              ELSE Evaluate(f[i - 1], policies[i], address)]
    BY <1>7, <2>1
  <2> QED BY <2>2 DEF EvaluationUpTo
<1> QED BY <1>1, <1>8

LEMMA EvaluationUnfolds ==
    ASSUME NEW policies, NEW address, Len(policies) \in Nat
    PROVE  \A i \in 0 .. Len(policies) :
              Evaluation(policies, address)[i] =
                 IF i = 0 THEN Unevaluated
                 ELSE Evaluate(Evaluation(policies, address)[i - 1], policies[i], address)
<1> DEFINE F(f) == f = [i \in 0 .. Len(policies) |->
                          IF i = 0 THEN Unevaluated ELSE Evaluate(f[i - 1], policies[i], address)]
<1>1. Evaluation(policies, address) = CHOOSE f : F(f)
  BY DEF Evaluation
<1>2. \E f : F(f)
  <2>1. PICK f : EvaluationUpTo(policies, address, Len(policies), f)
    BY EvaluationExists
  <2>2. F(f)
    BY <2>1 DEF EvaluationUpTo
  <2> HIDE DEF F
  <2> QED BY <2>2
<1>3. F(Evaluation(policies, address))
  <2> HIDE DEF F
  <2> QED BY <1>1, <1>2
<1> DEFINE e == Evaluation(policies, address)
<1>4. e = [i \in 0 .. Len(policies) |->
                          IF i = 0 THEN Unevaluated ELSE Evaluate(e[i - 1], policies[i], address)]
  BY <1>3
<1> HIDE DEF e
<1>5. \A i \in 0 .. Len(policies) :
         e[i] = IF i = 0 THEN Unevaluated ELSE Evaluate(e[i - 1], policies[i], address)
  BY <1>4
<1> QED BY <1>5 DEF e

\* What is known after i policies: whether one of them denied the address, and
\* otherwise whether one allows at all and one allows it.
Active(policies, j, action) == policies[j].status = "active" /\ policies[j].action = action
Matches(policies, j, action, address) == Active(policies, j, action) /\ address \in policies[j].net
KnownAfter(policies, address, so, i) ==
    /\ so.denied <=> \E j \in 1 .. i : Matches(policies, j, "deny", address)
    /\ ~so.denied =>
          /\ so.hasAllow <=> \E j \in 1 .. i : Active(policies, j, "allow")
          /\ so.matchedAllow <=> \E j \in 1 .. i : Matches(policies, j, "allow", address)

LEMMA EvaluateKnows ==
    ASSUME NEW policies, NEW address, NEW i \in Nat, i # 0, NEW so,
           KnownAfter(policies, address, so, i - 1)
    PROVE  KnownAfter(policies, address, Evaluate(so, policies[i], address), i)
<1> DEFINE p == policies[i]
           new == Evaluate(so, p, address)
<1>1. \A j : j \in 1 .. i <=> j \in 1 .. (i - 1) \/ j = i
  OBVIOUS
<1>2. \A j \in 1 .. (i - 1) : j \in 1 .. i
  OBVIOUS
<1>3. i \in 1 .. i
  OBVIOUS
<1>4. CASE so.denied
  <2>1. new = so
    BY <1>4 DEF Evaluate
  <2>2. \E j \in 1 .. i : Matches(policies, j, "deny", address)
    BY <1>2, <1>4 DEF KnownAfter
  <2> HIDE DEF new
  <2>3. KnownAfter(policies, address, new, i)
    BY <1>4, <2>1, <2>2 DEF KnownAfter
  <2> QED BY <2>3 DEF new
<1>5. CASE ~so.denied /\ p.status # "active"
  <2>1. new = so
    BY <1>5 DEF Evaluate
  <2>2. \A action : ~Active(policies, i, action) /\ ~Matches(policies, i, action, address)
    BY <1>5 DEF Active, Matches
  <2>3. \A action : /\ (\E j \in 1 .. i : Active(policies, j, action))
                          <=> \E j \in 1 .. (i - 1) : Active(policies, j, action)
                    /\ (\E j \in 1 .. i : Matches(policies, j, action, address))
                          <=> \E j \in 1 .. (i - 1) : Matches(policies, j, action, address)
    BY <1>1, <1>2, <2>2
  <2> HIDE DEF new
  <2>4. KnownAfter(policies, address, new, i)
    BY <1>5, <2>1, <2>3 DEF KnownAfter
  <2> QED BY <2>4 DEF new
<1>6. CASE ~so.denied /\ p.status = "active"
  <2>1. new = [hasAllow |-> so.hasAllow \/ p.action = "allow",
               matchedAllow |-> so.matchedAllow \/ (p.action = "allow" /\ address \in p.net),
               denied |-> p.action = "deny" /\ address \in p.net]
    BY <1>6 DEF Evaluate
  <2>2. /\ new.hasAllow <=> so.hasAllow \/ p.action = "allow"
        /\ new.matchedAllow <=> so.matchedAllow \/ (p.action = "allow" /\ address \in p.net)
        /\ new.denied <=> p.action = "deny" /\ address \in p.net
    <3> DEFINE has == so.hasAllow \/ p.action = "allow"
               matched == so.matchedAllow \/ (p.action = "allow" /\ address \in p.net)
               denies == p.action = "deny" /\ address \in p.net
    <3>1. new = [hasAllow |-> has, matchedAllow |-> matched, denied |-> denies]
      BY <2>1
    <3> HIDE DEF new, has, matched, denies
    <3>2. new.hasAllow = has /\ new.matchedAllow = matched /\ new.denied = denies
      BY <3>1
    <3> QED BY <3>2 DEF has, matched, denies
  <2>3. \A action : /\ Active(policies, i, action) <=> p.action = action
                    /\ Matches(policies, i, action, address) <=> p.action = action /\ address \in p.net
    BY <1>6 DEF Active, Matches
  <2>4. \A action : /\ (\E j \in 1 .. i : Active(policies, j, action))
                          <=> p.action = action \/ \E j \in 1 .. (i - 1) : Active(policies, j, action)
                    /\ (\E j \in 1 .. i : Matches(policies, j, action, address))
                          <=> \/ p.action = action /\ address \in p.net
                              \/ \E j \in 1 .. (i - 1) : Matches(policies, j, action, address)
    BY <1>1, <1>3, <2>3
  <2> HIDE DEF new, p
  <2>5. KnownAfter(policies, address, new, i)
    BY <1>6, <2>2, <2>4 DEF KnownAfter
  <2> QED BY <2>5 DEF new, p
<1> QED BY <1>4, <1>5, <1>6

LEMMA EvaluationKnows ==
    ASSUME NEW policies, NEW address, Len(policies) \in Nat
    PROVE  \A i \in 0 .. Len(policies) :
              KnownAfter(policies, address, Evaluation(policies, address)[i], i)
<1> DEFINE e == Evaluation(policies, address)
           Wrong == {i \in 0 .. Len(policies) : ~KnownAfter(policies, address, e[i], i)}
<1> SUFFICES ASSUME Wrong # {} PROVE FALSE
  OBVIOUS
<1>0. \A i \in 0 .. Len(policies) :
         e[i] = IF i = 0 THEN Unevaluated ELSE Evaluate(e[i - 1], policies[i], address)
  BY EvaluationUnfolds
<1> HIDE DEF e
<1>1. PICK i \in Wrong : \A k \in Wrong : i <= k
  <2>1. Wrong \subseteq Nat
    OBVIOUS
  <2> HIDE DEF Wrong
  <2> QED BY <2>1, LeastNat
<1>2. i \in 0 .. Len(policies) /\ i \in Nat
  BY <1>1
<1>3. CASE i = 0
  <2>1. e[i] = Unevaluated
    BY <1>0, <1>2, <1>3
  <2>2. ~e[i].denied /\ ~e[i].hasAllow /\ ~e[i].matchedAllow
    BY <2>1 DEF Unevaluated
  <2>3. \A j : j \notin 1 .. i
    BY <1>3
  <2>4. KnownAfter(policies, address, e[i], i)
    BY <2>2, <2>3 DEF KnownAfter
  <2> QED BY <1>1, <2>4
<1>4. CASE i # 0
  <2>1. i - 1 \in 0 .. Len(policies) /\ ~(i <= i - 1)
    BY <1>2, <1>4
  <2>2. KnownAfter(policies, address, e[i - 1], i - 1)
    BY <1>1, <2>1
  <2>3. e[i] = Evaluate(e[i - 1], policies[i], address)
    BY <1>0, <1>2, <1>4
  <2>4. KnownAfter(policies, address, e[i], i)
    BY <1>2, <1>4, <2>2, <2>3, EvaluateKnows
  <2> QED BY <1>1, <2>4
<1> QED BY <1>3, <1>4

\* For a list of any length: its one pass decides as the comment says.
LEMMA AllowsByPrecedence ==
    ASSUME NEW policies \in Seq(NetworkPolicy), NEW address
    PROVE  LET active == {p \in ToSet(policies) : p.status = "active"}
               Matching(action) == \E p \in active : p.action = action /\ address \in p.net
           IN  Allows(policies, address) <=>
                  /\ ~Matching("deny")
                  /\ Matching("allow") \/ \A p \in active : p.action # "allow"
<1> DEFINE n == Len(policies)
           end == Evaluation(policies, address)[n]
           active == {p \in ToSet(policies) : p.status = "active"}
<1>0. n \in Nat /\ DOMAIN policies = 1 .. n /\ n \in 0 .. n
  OBVIOUS
<1>1. KnownAfter(policies, address, end, n)
  BY <1>0, EvaluationKnows
<1>2. \A p : p \in active <=> \E j \in 1 .. n : p = policies[j] /\ policies[j].status = "active"
  BY <1>0 DEF ToSet
<1>3. \A action : (\E p \in active : p.action = action /\ address \in p.net)
                     <=> \E j \in 1 .. n : Matches(policies, j, action, address)
  BY <1>2 DEF Matches, Active
<1>4. (\A p \in active : p.action # "allow") <=> ~\E j \in 1 .. n : Active(policies, j, "allow")
  BY <1>2 DEF Active
<1>5. Allows(policies, address) <=> ~end.denied /\ (end.matchedAllow \/ ~end.hasAllow)
  BY DEF Allows
<1> HIDE DEF n, end, active
<1>6. Allows(policies, address) <=>
         /\ ~\E p \in active : p.action = "deny" /\ address \in p.net
         /\ \/ \E p \in active : p.action = "allow" /\ address \in p.net
            \/ \A p \in active : p.action # "allow"
  BY <1>1, <1>3, <1>4, <1>5 DEF KnownAfter
<1> QED BY <1>6 DEF active

\* The rows of network_policies keep their shape.
PoliciesTyped == policy \in Seq(NetworkPolicy)

LEMMA PoliciesTypedStep ==
    ASSUME PoliciesTyped, [TenancyNext]_tenancyVars
    PROVE  PoliciesTyped'
<1> USE DEF PoliciesTyped
<1>1. ASSUME NEW q \in Requests, CreatePolicy(q) PROVE policy' \in Seq(NetworkPolicy)
  <2>1. PICK action \in {"allow", "deny"}, net \in Networks : policy' = CreateNetworkPolicy(q, action, net)
    BY <1>1 DEF CreatePolicy
  <2> DEFINE new == [id |-> q, action |-> action, net |-> net, status |-> "active"]
  <2>2. new \in NetworkPolicy
    BY DEF NetworkPolicy
  <2>3. policy' = <<new>> \o policy
    BY <2>1 DEF CreateNetworkPolicy
  <2> HIDE DEF new
  <2> QED BY <2>2, <2>3
<1>2. ASSUME NEW q \in Requests, UpdatePolicy(q) PROVE policy' \in Seq(NetworkPolicy)
  <2>1. PICK i \in DOMAIN policy, action \in {"allow", "deny"}, net \in Networks,
             status \in {"active", "disabled"} : policy' = UpdateNetworkPolicy(i, action, net, status)
    BY <1>2 DEF UpdatePolicy
  <2> DEFINE new == [policy[i] EXCEPT !.action = action, !.net = net, !.status = status]
  <2>2. policy[i] \in NetworkPolicy
    OBVIOUS
  <2>3. new \in NetworkPolicy
    BY <2>2 DEF NetworkPolicy
  <2>4. policy' = [policy EXCEPT ![i] = new]
    BY <2>1 DEF UpdateNetworkPolicy
  <2> HIDE DEF new
  <2> QED BY <2>3, <2>4
<1>3. ASSUME NEW q \in Requests, DeletePolicy(q) PROVE policy' \in Seq(NetworkPolicy)
  <2>1. PICK i \in DOMAIN policy : policy' = RemoveAt(policy, i)
    BY <1>3 DEF DeletePolicy, DeleteNetworkPolicy
  <2>2. i \in 1 .. Len(policy) /\ Len(policy) \in Nat
    OBVIOUS
  <2>3. SubSeq(policy, 1, i - 1) \in Seq(NetworkPolicy)
    BY <2>2
  <2>4. SubSeq(policy, i + 1, Len(policy)) \in Seq(NetworkPolicy)
    BY <2>2
  <2> QED BY <2>1, <2>3, <2>4 DEF RemoveAt
<1>4. ASSUME NEW q \in Requests, ServiceStep(q), ~(CreatePolicy(q) \/ UpdatePolicy(q) \/ DeletePolicy(q))
      PROVE  UNCHANGED policy
  BY <1>4 DEF ServiceStep, CreateOrganization, requireAdmin, requireRole, DeletesOrganization, FindTarget,
     FindCredential, StartStatement, AddMember, UpdateMember, DeleteMember, CreateOrgCredential,
     UpdateOrgCredential, DisableOrgCredential, CreateToken, RevokeToken, SetEntitlement, SaveMember,
     SaveToken, SaveSCIM, ServiceUnchanged, accessVars
<1>5. ASSUME NEW q \in Requests, ChainStep(q) PROVE UNCHANGED policy
  BY <1>5 DEF ChainStep, RequireSession, RequireAuthenticated, Require, RequireAccess, RequireCapability,
     AccessUnchanged, accessVars
<1> QED BY <1>1, <1>2, <1>3, <1>4, <1>5 DEF TenancyNext, TokenExpires, ScimExpires, tenancyVars, accessVars

\* However the policies are created, changed and removed meanwhile, a request's
\* address is judged as the comment of Allows says, for a list of any length.
THEOREM PoliciesDecideByPrecedence == TenancySpec => []PolicyPrecedence
<1>1. TenancyInit => PoliciesTyped
  BY DEF TenancyInit, TenancyTypeOK, PoliciesTyped
<1>2. PoliciesTyped => PolicyPrecedence
  BY AllowsByPrecedence DEF PolicyPrecedence, PoliciesTyped
<1> QED BY <1>1, <1>2, PoliciesTypedStep, PTL DEF TenancySpec

-----------------------------------------------------------------------------
\* Numbers, with Trunks and AgentConfig.

OnePerRole(creds) == \A c, d \in creds : RoleOf[c] = RoleOf[d] => c = d

TrunkTypes == trunk \in Trunk /\ digest \in [{"inbound", "outbound"} -> TrunkDigestCredential]
AgentTypes == agent \in VoiceAgent /\ binding \subseteq Credentials

\* While the method says digest there is a row OpenSIPS can read.
MethodHasRow == trunk.inAuth = "digest" => digest["inbound"] # NoId

\* What a request for bindings has yet to bind, and what the snapshot of an
\* activation saw: rows that were bound together once, whatever is bound now.
BindsCredentials(r) ==
    /\ r.op = "bind" => r.saw \subseteq Credentials /\ (r.pc = "upsert" => r.on \in Credentials)
    /\ r.op = "activate" /\ r.pc = "activating" =>
          r.saw \subseteq Credentials /\ OnePerRole(r.saw) /\ r.todo \subseteq Tools

TrunkInv == TrunkTypes /\ MethodHasRow
AgentInv == AgentTypes /\ OnePerRole(binding) /\ ActiveIsComplete
HeldInv == RequestsShape /\ \A q \in Requests : BindsCredentials(request[q])
TelInv == TrunkInv /\ AgentInv /\ HeldInv

-----------------------------------------------------------------------------
\* Steps of requests.

LEMMA HeldAfter ==
    ASSUME HeldInv, NEW q \in Requests, RequestsShape', Others(q), BindsCredentials(request'[q])
    PROVE  HeldInv'
<1>1. \A p \in Requests : BindsCredentials(request'[p])
  BY DEF HeldInv, Others
<1> QED BY <1>1 DEF HeldInv, BindsCredentials, OnePerRole

LEMMA HeldAfterAnswer == ASSUME HeldInv, NEW q \in Requests, Answer(q) PROVE HeldInv'
<1>1. RequestsShape' /\ Others(q) /\ request'[q].op = "none"
  BY AnswerMoves DEF HeldInv, Quiet
<1> QED BY <1>1, HeldAfter DEF BindsCredentials

LEMMA HeldAfterNew ==
    ASSUME HeldInv, NEW q \in Requests, NEW r, IsRequest(r), request' = [request EXCEPT ![q] = r],
           BindsCredentials(r)
    PROVE  HeldInv'
<1>1. RequestsShape' /\ Others(q) /\ request'[q] = r
  BY DEF HeldInv, RequestsShape, Others
<1> QED BY <1>1, HeldAfter

LEMMA HeldAfterBegin ==
    ASSUME HeldInv, NEW q \in Requests, NEW op, NEW on, NEW saw, Begin(q, op, on, saw), op # "bind"
    PROVE  HeldInv'
<1> DEFINE r == [op |-> op, pc |-> "begun", on |-> on, saw |-> saw, todo |-> {}]
<1>1. IsRequest(r) /\ r.op = op /\ r.pc = "begun"
  BY DEF IsRequest
<1>2. request' = [request EXCEPT ![q] = r]
  BY DEF Begin
<1> HIDE DEF r
<1> QED BY <1>1, <1>2, HeldAfterNew DEF BindsCredentials

\* A request for bindings that is about to list them (replace) or to bind (begun).
LEMMA HeldAfterBind ==
    ASSUME HeldInv, NEW q \in Requests, NEW creds \in SUBSET Credentials, NEW pc \in {"begun", "replace"},
           request' = [request EXCEPT ![q] = [Unbegun EXCEPT !.op = "bind", !.pc = pc, !.saw = creds]]
    PROVE  HeldInv'
<1> DEFINE r == [Unbegun EXCEPT !.op = "bind", !.pc = pc, !.saw = creds]
<1>1. IsRequest(r) /\ r.op = "bind" /\ r.pc = pc /\ r.saw = creds
  BY DEF IsRequest, Unbegun
<1>2. request' = [request EXCEPT ![q] = r]
  OBVIOUS
<1> HIDE DEF r
<1>3. BindsCredentials(r)
  BY <1>1 DEF BindsCredentials
<1> QED BY <1>1, <1>2, <1>3, HeldAfterNew

-----------------------------------------------------------------------------
\* Trunks.

LEMMA TrunkStays == ASSUME TrunkInv, UNCHANGED <<trunk, digest>> PROVE TrunkInv'
BY DEF TrunkInv, TrunkTypes, MethodHasRow

\* A step that keeps the method and the digest rows, and one that changes the rows of a side.
LEMMA SavedTrunkKeeps ==
    ASSUME TrunkInv, trunk' \in Trunk, trunk'.inAuth = trunk.inAuth, digest' = digest
    PROVE  TrunkInv'
BY DEF TrunkInv, TrunkTypes, MethodHasRow

LEMMA TrunkRows ==
    ASSUME TrunkInv
    PROVE  /\ \A status \in {"active", "disabled"}, direction \in Directions, inbound \in BOOLEAN :
                 \A t \in UpdateTrunk(trunk, status, direction, inbound) :
                    t \in Trunk /\ t.inAuth = trunk.inAuth
           /\ \A t \in DisableTrunk(trunk) : t \in Trunk /\ t.inAuth = trunk.inAuth
BY DEF TrunkInv, TrunkTypes, Trunk, UpdateTrunk, DisableTrunk, Returning

LEMMA CreateKeeps == ASSUME TelInv, NEW q \in Requests, Create(q) PROVE TrunkInv' /\ HeldInv'
<1>1. HeldInv'
  BY HeldAfterAnswer DEF Create, Single, TelInv
<1>2. PICK asked \in CreateRequest :
          /\ normalizeCreate(asked) /\ trunk' \in CreateTrunk(trunk, asked)
          /\ digest' = InsertTrunkDigestCredential(digest, q,
                          (IF asked.outCredential THEN {"outbound"} ELSE {})
                          \cup (IF asked.inCredential THEN {"inbound"} ELSE {}))
  BY DEF Create
<1>3. trunk' \in Trunk /\ trunk'.inAuth = asked.inAuth
  BY <1>2 DEF CreateTrunk, CreateRequest, Returning, Trunk
<1>4. digest' \in [{"inbound", "outbound"} -> TrunkDigestCredential]
  BY <1>2 DEF InsertTrunkDigestCredential, TelInv, TrunkInv, TrunkTypes, TrunkDigestCredential
<1>5. asked.inAuth = "digest" => digest'["inbound"] = q
  BY <1>2 DEF InsertTrunkDigestCredential, TelInv, TrunkInv, TrunkTypes, normalizeCreate, CreateRequest
<1>6. q # NoId
  BY TrunksAssumption
<1> QED BY <1>1, <1>3, <1>4, <1>5, <1>6 DEF TrunkInv, TrunkTypes, MethodHasRow

LEMMA AuthKeeps ==
    ASSUME TelInv, NEW q \in Requests,
           SetOutboundAuth(q) \/ ClearOutboundAuth(q) \/ SetInboundAuth(q) \/ ClearInboundAuth(q)
    PROVE  TrunkInv' /\ HeldInv'
<1>1. HeldInv'
  BY HeldAfterAnswer DEF SetOutboundAuth, ClearOutboundAuth, SetInboundAuth, ClearInboundAuth, TelInv
<1>2. trunk \in Trunk /\ digest \in [{"inbound", "outbound"} -> TrunkDigestCredential] /\ q # NoId
      /\ NoId \in TrunkDigestCredential /\ q \in TrunkDigestCredential
  BY TrunksAssumption DEF TelInv, TrunkInv, TrunkTypes, TrunkDigestCredential
<1>3. CASE SetOutboundAuth(q)
  <2>1. trunk' \in Trunk /\ trunk'.inAuth = trunk.inAuth
    BY <1>2, <1>3 DEF SetOutboundAuth, SetTrunkOutboundDigestAuth, Trunk
  <2>2. digest' \in [{"inbound", "outbound"} -> TrunkDigestCredential] /\ digest'["inbound"] = digest["inbound"]
    BY <1>2, <1>3 DEF SetOutboundAuth, SetTrunkOutboundDigestAuth, Upserted
  <2> QED BY <1>1, <2>1, <2>2 DEF TelInv, TrunkInv, TrunkTypes, MethodHasRow
<1>4. CASE ClearOutboundAuth(q)
  <2>1. trunk' \in Trunk /\ trunk'.inAuth = trunk.inAuth
    BY <1>2, <1>4 DEF ClearOutboundAuth, ClearTrunkOutboundAuth, Trunk
  <2>2. digest' \in [{"inbound", "outbound"} -> TrunkDigestCredential] /\ digest'["inbound"] = digest["inbound"]
    BY <1>2, <1>4 DEF ClearOutboundAuth, ClearTrunkOutboundAuth, Deleted
  <2> QED BY <1>1, <2>1, <2>2 DEF TelInv, TrunkInv, TrunkTypes, MethodHasRow
<1>5. CASE SetInboundAuth(q)
  <2>1. trunk' \in Trunk
    BY <1>2, <1>5 DEF SetInboundAuth, SetTrunkInboundDigestAuth, Trunk
  <2>2. digest' \in [{"inbound", "outbound"} -> TrunkDigestCredential] /\ digest'["inbound"] # NoId
    BY <1>2, <1>5 DEF SetInboundAuth, SetTrunkInboundDigestAuth, Upserted
  <2> QED BY <1>1, <2>1, <2>2 DEF TrunkInv, TrunkTypes, MethodHasRow
<1>6. CASE ClearInboundAuth(q)
  <2>1. trunk' \in Trunk /\ trunk'.inAuth = "ip"
    BY <1>2, <1>6 DEF ClearInboundAuth, SetTrunkInboundIPAuth, Trunk
  <2>2. digest' \in [{"inbound", "outbound"} -> TrunkDigestCredential]
    BY <1>2, <1>6 DEF ClearInboundAuth, SetTrunkInboundIPAuth, Deleted
  <2> QED BY <1>1, <2>1, <2>2 DEF TrunkInv, TrunkTypes, MethodHasRow
<1> QED BY <1>3, <1>4, <1>5, <1>6

LEMMA TrunkStepKeeps == ASSUME TelInv, NEW q \in Requests, TrunkStep(q) PROVE TrunkInv' /\ HeldInv'
<1>1. CASE Update(q) \/ Delete(q)
  <2>1. HeldInv' /\ digest' = digest
    BY <1>1, HeldAfterAnswer DEF Update, Delete, mutateTrunk, TelInv
  <2>2. trunk' = trunk \/ (trunk' \in Trunk /\ trunk'.inAuth = trunk.inAuth)
    BY <1>1, TrunkRows DEF Update, Delete, mutateTrunk, NoRows, TelInv
  <2> QED BY <2>1, <2>2, TrunkStays, SavedTrunkKeeps DEF TelInv
<1>2. ASSUME NEW op \in {"update", "delete", "set_out", "clear_out", "set_in", "clear_in",
                         "add_ip", "delete_ip", "create_endpoint"}, Get(q, op)
      PROVE  TrunkInv' /\ HeldInv'
  <2>1. PICK saw : Begin(q, op, NoId, saw)
    BY <1>2 DEF Get
  <2>2. HeldInv'
    BY <2>1, HeldAfterBegin DEF TelInv
  <2> QED BY <1>2, <2>2, TrunkStays DEF Get, trunkVars, TelInv
<1>3. ASSUME NEW op \in {"update_endpoint", "delete_endpoint"}, NEW e \in Endpoints, GetEndpoint(q, op, e)
      PROVE  TrunkInv' /\ HeldInv'
  <2>1. HeldInv'
    BY <1>3, HeldAfterBegin DEF GetEndpoint, TelInv
  <2> QED BY <1>3, <2>1, TrunkStays DEF GetEndpoint, trunkVars, TelInv
<1>4. CASE \/ CreateSourceIP(q) \/ DeleteSourceIP(q) \/ OtherTrunk(q)
           \/ CreateEndpoint(q) \/ UpdateEndpoint(q) \/ DeleteEndpoint(q)
  <2>1. Answer(q) /\ UNCHANGED <<trunk, digest>>
    BY <1>4 DEF CreateSourceIP, DeleteSourceIP, OtherTrunk, Single, CreateEndpoint, UpdateEndpoint, DeleteEndpoint,
                mutateEndpoint, EndpointUnchanged
  <2> QED BY <2>1, HeldAfterAnswer, TrunkStays DEF TelInv
<1> QED BY <1>1, <1>2, <1>3, <1>4, CreateKeeps, AuthKeeps DEF TrunkStep

-----------------------------------------------------------------------------
\* AgentConfig.

LEMMA AgentStays == ASSUME AgentInv, UNCHANGED <<agent, binding>> PROVE AgentInv'
BY DEF AgentInv, AgentTypes, OnePerRole, ActiveIsComplete

\* The draft changes and the active revision does not.
DraftSaved == agent' \in VoiceAgent /\ (agent'.active = agent.active \/ agent'.active = Never)

LEMMA DraftKeeps ==
    ASSUME AgentInv, DraftSaved, binding' \subseteq Credentials, OnePerRole(binding')
    PROVE  AgentInv'
<1>1. ActiveIsComplete'
  BY DEF AgentInv, DraftSaved, ActiveIsComplete, Never, RolesOf, expectedProviders
<1> QED BY <1>1 DEF AgentInv, AgentTypes, DraftSaved, OnePerRole

LEMMA DraftRows ==
    ASSUME AgentInv
    PROVE  /\ \A engine \in Engines : \A a \in CreateVoiceAgent(agent, engine) :
                 a \in VoiceAgent /\ a.active = Never
           /\ \A engine \in Engines : \A a \in UpdateVoiceAgent(agent, engine) :
                 a \in VoiceAgent /\ a.active = agent.active
           /\ \A a \in DisableVoiceAgent(agent) : a \in VoiceAgent /\ a.active = agent.active
           /\ bump_voice_agent_configuration_revision \in VoiceAgent
           /\ bump_voice_agent_configuration_revision.active = agent.active
<1>0. agent \in VoiceAgent /\ "active" \in {"none", "active", "disabled"}
  BY DEF AgentInv, AgentTypes
<1>1. \A engine \in Engines : \A a \in CreateVoiceAgent(agent, engine) : a \in VoiceAgent /\ a.active = Never
  BY DEF CreateVoiceAgent, Returning, VoiceAgent, Never, Engines
<1>2. \A engine \in Engines : \A a \in UpdateVoiceAgent(agent, engine) : a \in VoiceAgent /\ a.active = agent.active
  <2> SUFFICES ASSUME NEW engine \in Engines, NEW a \in UpdateVoiceAgent(agent, engine)
               PROVE  a \in VoiceAgent /\ a.active = agent.active
    OBVIOUS
  <2>1. a = [agent EXCEPT !.engine = engine, !.revision = @ + 1]
    BY DEF UpdateVoiceAgent, Returning
  <2>2. agent.revision + 1 \in Nat
    BY <1>0 DEF VoiceAgent
  <2> QED BY <1>0, <2>1, <2>2 DEF VoiceAgent
<1>3. \A a \in DisableVoiceAgent(agent) : a \in VoiceAgent /\ a.active = agent.active
  BY <1>0 DEF DisableVoiceAgent, Returning, VoiceAgent
<1>4. /\ bump_voice_agent_configuration_revision \in VoiceAgent
      /\ bump_voice_agent_configuration_revision.active = agent.active
  BY <1>0 DEF bump_voice_agent_configuration_revision, VoiceAgent
<1> QED BY <1>1, <1>2, <1>3, <1>4

LEMMA BindingRows ==
    ASSUME AgentInv
    PROVE  /\ \A role : /\ DeleteVoiceAgentProviderBinding(role) \subseteq Credentials
                        /\ OnePerRole(DeleteVoiceAgentProviderBinding(role))
           /\ \A c \in Credentials : \A rows \in UpsertVoiceAgentProviderBinding(c) :
                 rows \subseteq Credentials /\ OnePerRole(rows)
BY DEF AgentInv, AgentTypes, DeleteVoiceAgentProviderBinding, UpsertVoiceAgentProviderBinding, Returning, OnePerRole

LEMMA DraftStepKeeps ==
    ASSUME TelInv, NEW q \in Requests, CreateAgent(q) \/ UpdateAgent(q) \/ DisableAgent(q)
    PROVE  AgentInv' /\ HeldInv'
<1>0. AgentInv /\ HeldInv /\ binding \subseteq Credentials /\ OnePerRole(binding) /\ binding' = binding
  BY DEF TelInv, AgentInv, AgentTypes, CreateAgent, UpdateAgent, DisableAgent
<1>1. CASE CreateAgent(q)
  <2>1. DraftSaved
    BY <1>0, <1>1, DraftRows DEF CreateAgent, DraftSaved
  <2>2. PICK creds \in BindingRequests :
            request' = [request EXCEPT ![q] = [Unbegun EXCEPT !.op = "bind", !.pc = "begun", !.saw = creds]]
    BY <1>1 DEF CreateAgent
  <2>3. HeldInv'
    BY <1>0, <2>2, AgentAssumption, HeldAfterBind
  <2> QED BY <1>0, <2>1, <2>3, DraftKeeps
<1>2. CASE UpdateAgent(q)
  <2>1. DraftSaved
    BY <1>0, <1>2, DraftRows DEF UpdateAgent, DraftSaved
  <2>2. \/ Answer(q)
        \/ \E creds \in BindingRequests :
              request' = [request EXCEPT ![q] = [Unbegun EXCEPT !.op = "bind", !.pc = "replace", !.saw = creds]]
    BY <1>2 DEF UpdateAgent, Answer
  <2>3. HeldInv'
    BY <1>0, <2>2, AgentAssumption, HeldAfterBind, HeldAfterAnswer
  <2> QED BY <1>0, <2>1, <2>3, DraftKeeps
<1>3. CASE DisableAgent(q)
  <2>1. agent' = agent \/ DraftSaved
    BY <1>0, <1>3, DraftRows DEF DisableAgent, DraftSaved, NoRows
  <2>2. HeldInv'
    BY <1>0, <1>3, HeldAfterAnswer DEF DisableAgent
  <2> QED BY <1>0, <2>1, <2>2, DraftKeeps, AgentStays
<1> QED BY <1>1, <1>2, <1>3

LEMMA BindStepKeeps ==
    ASSUME TelInv, NEW q \in Requests,
           applyBindings(q) \/ DeleteUnrequested(q) \/ RequestBinding(q) \/ BindCredential(q)
           \/ UpsertBinding(q) \/ DeleteBinding(q)
    PROVE  AgentInv' /\ HeldInv'
<1>0. AgentInv /\ HeldInv /\ RequestsShape /\ binding \subseteq Credentials /\ OnePerRole(binding)
      /\ BindsCredentials(request[q])
  BY DEF TelInv, AgentInv, AgentTypes, HeldInv
<1>1. CASE applyBindings(q)
  <2>1. request[q].op = "bind" /\ (\E todo : Goto(q, "delete", request[q].saw, todo)) /\ UNCHANGED <<agent, binding>>
    BY <1>1 DEF applyBindings, At, agentVars
  <2>2. /\ RequestsShape' /\ Others(q) /\ request'[q].op = "bind" /\ request'[q].pc = "delete"
        /\ request'[q].saw = request[q].saw
    BY <1>0, <2>1, GotoMoves
  <2>3. HeldInv'
    BY <1>0, <2>1, <2>2, HeldAfter DEF BindsCredentials
  <2> QED BY <1>0, <2>1, <2>3, AgentStays
<1>2. CASE DeleteUnrequested(q)
  <2>1. PICK pc \in {"begun", "delete"} : request[q].op = "bind" /\ \E todo : Goto(q, pc, request[q].saw, todo)
    BY <1>2 DEF DeleteUnrequested, At
  <2>2. /\ RequestsShape' /\ Others(q) /\ request'[q].op = "bind" /\ request'[q].pc = pc
        /\ request'[q].saw = request[q].saw
    BY <1>0, <2>1, GotoMoves
  <2>3. HeldInv'
    BY <1>0, <2>1, <2>2, HeldAfter DEF BindsCredentials
  <2>4. /\ \/ binding' = binding
           \/ \E role : binding' = DeleteVoiceAgentProviderBinding(role)
        /\ agent' = agent \/ agent' = bump_voice_agent_configuration_revision
    BY <1>2 DEF DeleteUnrequested
  <2>5. binding' \subseteq Credentials /\ OnePerRole(binding')
    BY <1>0, <2>4, BindingRows
  <2>6. DraftSaved
    BY <1>0, <2>4, DraftRows DEF DraftSaved, AgentInv, AgentTypes
  <2> QED BY <1>0, <2>3, <2>5, <2>6, DraftKeeps
<1>3. CASE RequestBinding(q)
  <2>1. PICK c \in Credentials :
            request' = [request EXCEPT ![q] = [Unbegun EXCEPT !.op = "bind", !.pc = "begun", !.saw = {c}]]
    BY <1>3 DEF RequestBinding
  <2>2. HeldInv'
    BY <1>0, <2>1, HeldAfterBind
  <2> QED BY <1>0, <1>3, <2>2, AgentStays DEF RequestBinding, agentVars
<1>4. CASE BindCredential(q)
  <2>1. request[q].op = "bind" /\ request[q].saw \subseteq Credentials /\ UNCHANGED <<agent, binding>>
    BY <1>0, <1>4 DEF BindCredential, Begun, At, BindsCredentials, agentVars
  <2>2. CASE Answer(q)
    BY <1>0, <2>1, <2>2, HeldAfterAnswer, AgentStays
  <2>3. ASSUME NEW c \in request[q].saw,
               request' = [request EXCEPT ![q].pc = "upsert", ![q].on = c, ![q].saw = @ \ {c}]
        PROVE  AgentInv' /\ HeldInv'
    <3>1. /\ RequestsShape' /\ Others(q) /\ request'[q].op = "bind" /\ request'[q].on = c
          /\ request'[q].saw = request[q].saw \ {c} /\ request'[q].pc = "upsert"
      BY <1>0, <2>1, <2>3 DEF RequestsShape, IsRequest, Others
    <3>2. BindsCredentials(request'[q])
      BY <2>1, <2>3, <3>1 DEF BindsCredentials
    <3> QED BY <1>0, <2>1, <3>1, <3>2, HeldAfter, AgentStays
  <2> QED BY <1>4, <2>2, <2>3 DEF BindCredential
<1>5. CASE UpsertBinding(q)
  <2>1. request[q].op = "bind" /\ request[q].saw \subseteq Credentials /\ request[q].on \in Credentials
    BY <1>0, <1>5 DEF UpsertBinding, At, BindsCredentials
  <2>2. CASE Answer(q) /\ UNCHANGED <<agent, binding>>
    BY <1>0, <2>2, HeldAfterAnswer, AgentStays
  <2>3. CASE /\ binding' \in UpsertVoiceAgentProviderBinding(request[q].on)
             /\ agent' = bump_voice_agent_configuration_revision
             /\ Goto(q, "begun", request[q].saw, {})
    <3>1. RequestsShape' /\ Others(q) /\ request'[q].op = "bind" /\ request'[q].pc = "begun"
          /\ request'[q].saw = request[q].saw
      BY <1>0, <2>1, <2>3, GotoMoves
    <3>2. HeldInv'
      BY <1>0, <2>1, <3>1, HeldAfter DEF BindsCredentials
    <3>3. binding' \subseteq Credentials /\ OnePerRole(binding')
      BY <1>0, <2>1, <2>3, BindingRows
    <3>4. DraftSaved
      BY <1>0, <2>3, DraftRows DEF DraftSaved
    <3> QED BY <1>0, <3>2, <3>3, <3>4, DraftKeeps
  <2> QED BY <1>5, <2>2, <2>3 DEF UpsertBinding
<1>6. CASE DeleteBinding(q)
  <2>1. PICK role : binding' = DeleteVoiceAgentProviderBinding(role)
    BY <1>6 DEF DeleteBinding
  <2>2. DraftSaved
    BY <1>0, <1>6, DraftRows DEF DraftSaved, DeleteBinding
  <2>3. HeldInv'
    BY <1>0, <1>6, HeldAfterAnswer DEF DeleteBinding, Single
  <2> QED BY <1>0, <2>1, <2>2, <2>3, BindingRows, DraftKeeps
<1> QED BY <1>1, <1>2, <1>3, <1>4, <1>5, <1>6

\* What is activated comes from one snapshot of the bindings.
LEMMA ActivateStepKeeps ==
    ASSUME TelInv, NEW q \in Requests, Readiness(q) \/ BindingStatuses(q) \/ Activate(q) \/ Activates(q)
    PROVE  AgentInv' /\ HeldInv'
<1>0. AgentInv /\ HeldInv /\ RequestsShape /\ agent \in VoiceAgent /\ binding \subseteq Credentials /\ OnePerRole(binding)
      /\ BindsCredentials(request[q])
  BY DEF TelInv, AgentInv, AgentTypes, HeldInv
<1>1. CASE Readiness(q) \/ BindingStatuses(q)
  <2>1. UNCHANGED <<agent, binding>> /\ request[q].op = "activate"
        /\ (Answer(q) \/ \E pc \in {"statuses", "ready"} : \E saw : Goto(q, pc, saw, {}))
    BY <1>1 DEF Readiness, BindingStatuses, Begun, At, agentVars
  <2>2. ASSUME NEW pc \in {"statuses", "ready"}, NEW saw, Goto(q, pc, saw, {}) PROVE HeldInv'
    <3>1. RequestsShape' /\ Others(q) /\ request'[q].op = "activate" /\ request'[q].pc = pc
      BY <1>0, <2>1, <2>2, GotoMoves
    <3> QED BY <1>0, <3>1, HeldAfter DEF BindsCredentials
  <2> QED BY <1>0, <2>1, <2>2, HeldAfterAnswer, AgentStays
<1>2. CASE Activate(q)
  <2>1. UNCHANGED <<agent, binding>> /\ request[q].op = "activate"
        /\ (Answer(q) \/ Goto(q, "activating", binding, EnabledTools))
    BY <1>2 DEF Activate, At, agentVars
  <2>2. CASE Goto(q, "activating", binding, EnabledTools)
    <3>1. /\ RequestsShape' /\ Others(q) /\ request'[q].op = "activate" /\ request'[q].pc = "activating"
          /\ request'[q].saw = binding /\ request'[q].todo = EnabledTools
      BY <1>0, <2>1, <2>2, GotoMoves
    <3>2. EnabledTools \subseteq Tools
      BY DEF EnabledTools
    <3>3. BindsCredentials(request'[q])
      BY <1>0, <3>1, <3>2 DEF BindsCredentials
    <3> QED BY <1>0, <2>1, <3>1, <3>3, HeldAfter, AgentStays
  <2> QED BY <1>0, <2>1, <2>2, HeldAfterAnswer, AgentStays
<1>3. CASE Activates(q)
  <2>1. /\ request[q].saw \subseteq Credentials /\ OnePerRole(request[q].saw) /\ request[q].todo \subseteq Tools
        /\ Answer(q) /\ binding' = binding
    BY <1>0, <1>3 DEF Activates, At, BindsCredentials
  <2>2. HeldInv'
    BY <1>0, <2>1, HeldAfterAnswer
  <2>3. CASE agent' = agent
    BY <1>0, <2>1, <2>2, <2>3, AgentStays
  <2>4. CASE agent' \in ActivateVoiceAgent(agent, request[q].saw, request[q].todo)
    <3>1. /\ agent' = Activated(agent, request[q].saw, request[q].todo)
          /\ expectedProviders(agent.engine) = RolesOf(request[q].saw)
      BY <2>4 DEF ActivateVoiceAgent, Returning
    <3>2. /\ agent' \in VoiceAgent /\ agent'.active.bindings = request[q].saw
          /\ agent'.active.engine = agent.engine
      BY <1>0, <2>1, <3>1 DEF Activated, VoiceAgent
    <3>3. ActiveIsComplete'
      BY <2>1, <3>1, <3>2 DEF ActiveIsComplete, OnePerRole, RolesOf, expectedProviders
    <3> QED BY <1>0, <2>1, <2>2, <3>2, <3>3 DEF AgentInv, AgentTypes, OnePerRole
  <2> QED BY <1>3, <2>3, <2>4 DEF Activates
<1> QED BY <1>1, <1>2, <1>3

LEMMA AgentStepKeeps == ASSUME TelInv, NEW q \in Requests, AgentStep(q) PROVE AgentInv' /\ HeldInv'
<1>0. AgentInv /\ HeldInv /\ binding \subseteq Credentials /\ OnePerRole(binding)
  BY DEF TelInv, AgentInv, AgentTypes
<1>1. CASE \/ CreateCredential(q) \/ DeleteCredential(q) \/ VerifyIntegration(q) \/ RotateCredential(q)
           \/ CreateTool(q) \/ UpdateTool(q) \/ DeleteTool(q)
  <2>1. Answer(q) /\ binding' = binding /\ (agent' = agent \/ agent' = bump_voice_agent_configuration_revision)
    BY <1>1 DEF CreateCredential, DeleteCredential, VerifyIntegration, RotateCredential, Save, Single,
                CreateTool, UpdateTool, DeleteTool, SaveTool
  <2>2. agent' = agent \/ DraftSaved
    BY <1>0, <2>1, DraftRows DEF DraftSaved
  <2> QED BY <1>0, <2>1, <2>2, HeldAfterAnswer, AgentStays, DraftKeeps
<1>2. CASE \/ \E op \in {"disable_agent", "activate"} : GetAgent(q, op)
           \/ \E op \in {"verify", "rotate"}, c \in Credentials : GetCredentialCiphertext(q, op, c)
           \/ \E t \in Tools : GetTool(q, t)
  <2>1. /\ UNCHANGED <<agent, binding>>
        /\ \E op, on, saw : op # "bind" /\ Begin(q, op, on, saw)
    BY <1>2 DEF GetAgent, GetCredentialCiphertext, GetTool, agentVars
  <2>2. HeldInv'
    BY <1>0, <2>1, HeldAfterBegin
  <2> QED BY <1>0, <2>1, <2>2, AgentStays
<1> QED BY <1>1, <1>2, DraftStepKeeps, BindStepKeeps, ActivateStepKeeps DEF AgentStep

-----------------------------------------------------------------------------
LEMMA NumberStepKeeps == ASSUME TelInv, NEW q \in Requests, NumberStep(q) PROVE TelInv'
<1>1. UNCHANGED <<trunk, digest, agent, binding>>
  BY DEF NumberStep, CreateNumber, UpdateNumber, SetTrunk, GetNumber, DeleteNumber, CreateBinding, UnbindNumber,
         SaveNumber, NumberUnchanged, trunkVars, agentVars
<1>2. Answer(q) \/ \E n \in Numbers : Begin(q, "release_number", n, {})
  BY DEF NumberStep, CreateNumber, UpdateNumber, SetTrunk, GetNumber, DeleteNumber, CreateBinding, UnbindNumber,
         SaveNumber, Single
<1>3. HeldInv'
  BY <1>2, HeldAfterAnswer, HeldAfterBegin DEF TelInv
<1> QED BY <1>1, <1>3, TrunkStays, AgentStays DEF TelInv

LEMMA TelInvInit == TelInit => TelInv
<1> SUFFICES ASSUME TelInit PROVE TelInv
  OBVIOUS
<1>1. TrunkInv
  BY DEF TelInit, TrunkInv, TrunkTypes, MethodHasRow, TrunkDigestCredential
<1>2. AgentInv
  BY DEF TelInit, AgentInv, AgentTypes, OnePerRole, ActiveIsComplete, Never, VoiceAgentProviderBinding
<1>3. IsRequest(Unbegun) /\ Unbegun.op = "none"
  BY DEF IsRequest, Unbegun
<1>4. HeldInv
  BY <1>3 DEF TelInit, RequestInit, HeldInv, RequestsShape, BindsCredentials
<1> QED BY <1>1, <1>2, <1>4 DEF TelInv

LEMMA TelInvStep == TelInv /\ [TelNext]_telVars => TelInv'
<1> SUFFICES ASSUME TelInv, [TelNext]_telVars PROVE TelInv'
  OBVIOUS
<1>0. TrunkInv /\ AgentInv /\ HeldInv
  BY DEF TelInv
<1>1. ASSUME NEW q \in Requests, NumberStep(q) PROVE TelInv'
  BY <1>1, NumberStepKeeps
<1>2. ASSUME NEW q \in Requests, TrunkStep(q), UNCHANGED <<agentVars, numberVars>> PROVE TelInv'
  BY <1>0, <1>2, TrunkStepKeeps, AgentStays DEF TelInv, agentVars
<1>3. ASSUME NEW q \in Requests, AgentStep(q), UNCHANGED <<trunkVars, numberVars>> PROVE TelInv'
  BY <1>0, <1>3, AgentStepKeeps, TrunkStays DEF TelInv, trunkVars
<1>4. ASSUME NEW q \in Requests, OrganizationDeleted(q) PROVE TelInv'
  BY <1>0, <1>4, HeldAfterAnswer, TrunkStays, AgentStays DEF TelInv, OrganizationDeleted, Single, trunkVars, agentVars
<1>5. ASSUME UNCHANGED <<trunk, digest, agent, binding, request>> PROVE TelInv'
  <2>1. HeldInv'
    BY <1>0, <1>5 DEF HeldInv, RequestsShape, BindsCredentials, OnePerRole
  <2> QED BY <1>0, <1>5, <2>1, TrunkStays, AgentStays DEF TelInv
<1>6. ASSUME NEW c \in Checkers, CheckStep(c) \/ Crash(c), JobUnchanged PROVE TelInv'
  BY <1>5, <1>6 DEF JobUnchanged, CheckStep, Check, Probe, Mark, Crash, CheckerUnchanged, agentVars
<1>7. ASSUME NEW e \in Endpoints, Tick(e) \/ Flap(e), JobUnchanged PROVE TelInv'
  BY <1>5, <1>7 DEF JobUnchanged, Tick, Flap, CheckerUnchanged, agentVars
<1>8. CASE UNCHANGED telVars
  BY <1>5, <1>8 DEF telVars, trunkVars, agentVars
<1>9. ASSUME NEW i \in Invites, InviteStep(i) PROVE TelInv'
  BY <1>5, <1>9 DEF InviteStep, OpenSipsRoute, GetInboundContext, ResolveInbound, Decides, RowsUnchanged,
                    trunkVars, agentVars
<1> QED BY <1>1, <1>2, <1>3, <1>4, <1>6, <1>7, <1>8, <1>9 DEF TelNext, RequestStep

LEMMA TelInvHolds == TelSpec => []TelInv
BY TelInvInit, TelInvStep, PTL DEF TelSpec

\* What Validate accepts OpenSIPS serves, whatever Set and Clear requests are
\* under way, whatever their snapshots saw and whichever CIDRs other trunks have
\* (trunks.Service.Validate).
THEOREM ValidTrunksAreServed == TelSpec => []ValidIsServed
<1>1. TelInv /\ sources \subseteq SourceIPs /\ rivals \subseteq SourceIPs => ValidIsServed
  <2> SUFFICES ASSUME TelInv, sources \subseteq SourceIPs, rivals \subseteq SourceIPs,
                      Validate, trunk.status = "active", trunk.inbound, OrganizationActive
               PROVE  \/ opensips_inbound_trunk_credentials # {}
                      \/ trunk.inAuth = "ip" /\ (SourceIPIngress # {} \/ Contested)
    BY DEF ValidIsServed
  <2>1. CASE trunk.inAuth = "digest"
    BY <2>1 DEF TelInv, TrunkInv, MethodHasRow, opensips_inbound_trunk_credentials, Returning
  <2>2. CASE trunk.inAuth = "ip" /\ ~Contested
    <3>1. PICK c \in sources : \E h \in c : \A d \in rivals : ~(h \in d /\ d \subseteq c)
      BY <2>2 DEF Contested
    <3>2. PICK h \in c : \A d \in rivals : ~(h \in d /\ d \subseteq c)
      BY <3>1
    <3>3. h \in Hosts
      BY TrunksAssumption
    <3>4. ASSUME NEW d \in rivals, h \in d PROVE c \subseteq d /\ c # d
      BY <3>2, <3>4, TrunksAssumption
    <3> QED BY <2>2, <3>2, <3>3, <3>4 DEF SourceIPIngress
  <2> QED BY <2>1, <2>2 DEF Validate
<1>2. TelInit => sources \subseteq SourceIPs /\ rivals \subseteq SourceIPs
  BY DEF TelInit, TrunkSourceIp
<1>3. sources \subseteq SourceIPs /\ rivals \subseteq SourceIPs /\ [TelNext]_telVars
      => (sources \subseteq SourceIPs /\ rivals \subseteq SourceIPs)'
  <2> SUFFICES ASSUME sources \subseteq SourceIPs, rivals \subseteq SourceIPs, [TelNext]_telVars
               PROVE  sources' \subseteq SourceIPs /\ rivals' \subseteq SourceIPs
    OBVIOUS
  <2>1. ASSUME NEW q \in Requests, TrunkStep(q) PROVE sources' \subseteq SourceIPs /\ rivals' \subseteq SourceIPs
    <3>1. CASE CreateSourceIP(q) \/ DeleteSourceIP(q) \/ OtherTrunk(q)
      BY <3>1 DEF CreateSourceIP, DeleteSourceIP, OtherTrunk, CreateTrunkSourceIP, DeleteTrunkSourceIP, Returning, NoRows
    <3>2. CASE ~(CreateSourceIP(q) \/ DeleteSourceIP(q) \/ OtherTrunk(q))
      <4>1. UNCHANGED <<sources, rivals>>
        BY <2>1, <3>2 DEF TrunkStep, Create, Update, Delete, Get, SetOutboundAuth, ClearOutboundAuth, SetInboundAuth,
                          ClearInboundAuth, GetEndpoint, CreateEndpoint, UpdateEndpoint, DeleteEndpoint,
                          TrunkUnchanged, EndpointUnchanged, trunkVars
      <4> QED BY <4>1
    <3> QED BY <3>1, <3>2
  <2>2. ASSUME UNCHANGED <<sources, rivals>> PROVE sources' \subseteq SourceIPs /\ rivals' \subseteq SourceIPs
    BY <2>2
  <2>3. ASSUME NEW q \in Requests, NumberStep(q) \/ OrganizationDeleted(q) \/ UNCHANGED trunkVars PROVE UNCHANGED <<sources, rivals>>
    BY <2>3 DEF NumberStep, CreateNumber, UpdateNumber, SetTrunk, GetNumber, DeleteNumber, CreateBinding, UnbindNumber,
                SaveNumber, NumberUnchanged, OrganizationDeleted, trunkVars
  <2>4. ASSUME NEW i \in Invites, InviteStep(i) PROVE UNCHANGED <<sources, rivals>>
    BY <2>4 DEF InviteStep, OpenSipsRoute, GetInboundContext, ResolveInbound, Decides, RowsUnchanged, trunkVars
  <2>5. ASSUME NEW c \in Checkers, CheckStep(c) \/ Crash(c) PROVE UNCHANGED <<sources, rivals>>
    BY <2>5 DEF CheckStep, Check, Probe, Mark, Crash, CheckerUnchanged
  <2>6. ASSUME NEW e \in Endpoints, Tick(e) \/ Flap(e) PROVE UNCHANGED <<sources, rivals>>
    BY <2>6 DEF Tick, Flap, CheckerUnchanged
  <2>7. CASE UNCHANGED telVars
    BY <2>7 DEF telVars, trunkVars
  <2> QED BY <2>1, <2>2, <2>3, <2>4, <2>5, <2>6, <2>7 DEF TelNext, RequestStep
<1>4. TelSpec => [](sources \subseteq SourceIPs /\ rivals \subseteq SourceIPs)
  BY <1>2, <1>3, PTL DEF TelSpec
<1> QED BY <1>1, <1>4, TelInvHolds, PTL

\* An activated revision has exactly the bindings its engine needs, for any
\* number of requests that bind, unbind, rotate and activate meanwhile
\* (agents.Service.Activate).
THEOREM ActivatedIsComplete == TelSpec => []ActiveIsComplete
<1>1. TelInv => ActiveIsComplete
  BY DEF TelInv, AgentInv
<1> QED BY <1>1, TelInvHolds, PTL

\* A tuple that is eligible while the worker holds its binding has been noted as such.
WitnessInv ==
    /\ DOMAIN invite = Invites
    /\ \A i \in Invites : invite[i].pc \in {"new", "routed", "found", "admitted", "rejected"}
    /\ \A i \in Invites : invite[i] = NewInvite \/ invite[i].binding # NoId
    /\ Witnessed \subseteq whole
    /\ AdmittedWasWhole

\* An admitted call's ids were all in order at one moment since the worker began to
\* revalidate them, for any number of INVITEs and of requests that change the rows
\* meanwhile (routing.Service.ResolveInbound).
THEOREM AdmittedWereWhole == TelSpec => []AdmittedWasWhole
<1>1. TelInit => WitnessInv
  BY DEF TelInit, WitnessInv, Witnessed, AdmittedWasWhole, NewInvite
<1>2. WitnessInv /\ [TelNext]_telVars => WitnessInv'
  <2> SUFFICES ASSUME WitnessInv, [TelNext]_telVars PROVE WitnessInv'
    OBVIOUS
  <2>1. ASSUME UNCHANGED invite, Witness PROVE WitnessInv'
    BY <2>1 DEF Witness, WitnessInv, AdmittedWasWhole
  <2>2. ASSUME NEW i \in Invites, InviteStep(i), Witness PROVE WitnessInv'
    <3>1. CASE OpenSipsRoute(i)
      <4>1. PICK n \in Numbers : /\ bound[n] # NoId
                                 /\ invite' = [invite EXCEPT ![i] = [pc |-> "routed", number |-> n,
                                                                     binding |-> bound[n]]]
        BY <3>1 DEF OpenSipsRoute, Eligible
      <4> QED BY <2>2, <4>1 DEF Witness, WitnessInv, AdmittedWasWhole
    <3>2. CASE GetInboundContext(i)
      <4>1. PICK pc2 \in {"found", "rejected"} : invite' = [invite EXCEPT ![i].pc = pc2]
        BY <3>2 DEF GetInboundContext, Decides
      <4>2. invite[i].pc = "routed"
        BY <3>2 DEF GetInboundContext, Decides
      <4>3. DOMAIN invite' = Invites /\ \A j \in Invites : j # i => invite'[j] = invite[j]
        BY <4>1 DEF WitnessInv
      <4>4. invite'[i].pc = pc2 /\ invite'[i].binding = invite[i].binding
        BY <4>1, <4>2 DEF WitnessInv
      <4> QED BY <2>2, <4>2, <4>3, <4>4 DEF Witness, WitnessInv, AdmittedWasWhole, NewInvite
    <3>3. CASE ResolveInbound(i)
      <4> DEFINE rows == GetInboundCallContext(invite[i].number, invite[i].binding)
                 pc2 == IF NoRows(rows) THEN "rejected" ELSE "admitted"
      <4>1. invite[i].pc = "found" /\ invite' = [invite EXCEPT ![i].pc = pc2]
        BY <3>3 DEF ResolveInbound, Decides
      <4>2. invite[i].binding # NoId
        BY <4>1 DEF WitnessInv, NewInvite
      <4>3. pc2 = "admitted" => i \in whole
        BY <4>1, <4>2 DEF NoRows, GetInboundCallContext, Returning, WitnessInv, Witnessed, Eligible
      <4>4. pc2 \in {"rejected", "admitted"}
        OBVIOUS
      <4> HIDE DEF pc2
      <4>5. DOMAIN invite' = Invites /\ \A j \in Invites : j # i => invite'[j] = invite[j]
        BY <4>1 DEF WitnessInv
      <4>6. invite'[i].pc = pc2 /\ invite'[i].binding = invite[i].binding
        BY <4>1 DEF WitnessInv
      <4> QED BY <2>2, <4>2, <4>3, <4>4, <4>5, <4>6 DEF Witness, WitnessInv, AdmittedWasWhole
    <3> QED BY <2>2, <3>1, <3>2, <3>3 DEF InviteStep
  <2>3. ASSUME UNCHANGED <<invite, whole, number, bound, organization>>,
               UNCHANGED <<trunk, agent>>
        PROVE  WitnessInv'
    BY <2>3 DEF WitnessInv, Witnessed, Eligible, OrganizationActive, AdmittedWasWhole
  <2>4. ASSUME NEW c \in Checkers, CheckStep(c) \/ Crash(c), JobUnchanged PROVE WitnessInv'
    BY <2>3, <2>4 DEF JobUnchanged, CheckStep, Check, Probe, Mark, Crash, CheckerUnchanged, agentVars, numberVars, inviteVars
  <2>5. ASSUME NEW e \in Endpoints, Tick(e) \/ Flap(e), JobUnchanged PROVE WitnessInv'
    BY <2>3, <2>5 DEF JobUnchanged, Tick, Flap, CheckerUnchanged, agentVars, numberVars, inviteVars
  <2>6. CASE UNCHANGED telVars
    BY <2>3, <2>6 DEF telVars, trunkVars, agentVars, numberVars, inviteVars
  <2> QED BY <2>1, <2>2, <2>4, <2>5, <2>6 DEF TelNext
<1>3. WitnessInv => AdmittedWasWhole
  BY DEF WitnessInv
<1> QED BY <1>1, <1>2, <1>3, PTL DEF TelSpec
=============================================================================
