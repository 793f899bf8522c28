---------------------------- MODULE Idempotency -----------------------------
(***************************************************************************)
(* The idempotency middleware of the call API and its table.               *)
(*                                                                         *)
(* A request claims its key with one upsert, runs the handler and stores   *)
(* the response; another request with the key is refused while the first   *)
(* one runs and gets its response afterwards.  The lease is the row's      *)
(* locked_until: it is new for every claim, so it is named here by the     *)
(* request that wrote it.  Nobody extends it: once it has lapsed another   *)
(* request with the key takes the row over, whether its holder has died    *)
(* or is only slow.                                                        *)
(***************************************************************************)
EXTENDS Naturals, FiniteSets

CONSTANTS
    KeyedRequests, \* HTTP requests that carry an idempotency key
    Keys,         \* (scope, idempotency key)
    Prints,       \* method, path and body hash
    KeyOf,        \* the key of each request
    PrintOf,      \* the method, path and body hash of each request
    NoRequest

ASSUME IdempotencyAssumption ==
    /\ KeyOf \in [KeyedRequests -> Keys]
    /\ PrintOf \in [KeyedRequests -> Prints]
    /\ NoRequest \notin KeyedRequests

VARIABLES
    record,    \* the idempotency table
    req,       \* control state of each request
    answer,    \* the execution whose response the client was given
    executed,  \* requests whose handler has run
    takeovers  \* per key: how often a lease lapsed or a record expired

idemVars == <<record, req, answer, executed, takeovers>>

NoRecord == [st |-> "none", holder |-> NoRequest, lapsed |-> FALSE, expired |-> FALSE]

IdemInit ==
    /\ record = [k \in Keys |-> NoRecord]
    /\ req = [r \in KeyedRequests |-> "claim"]
    /\ answer = [r \in KeyedRequests |-> NoRequest]
    /\ executed = {}
    /\ takeovers = [k \in Keys |-> 0]

SamePrint(r, s) == PrintOf[r] = PrintOf[s]

\* Mutant: a processing record can be claimed before its lease has lapsed.
CanClaimRunning(r) ==
    LET row == record[KeyOf[r]]
    IN  \/ row.st = "none"
        \/ row.expired
        \/ row.st = "processing" /\ SamePrint(r, row.holder)

\* The INSERT, or the conflict branch's WHERE.
CanClaim(r) ==
    LET row == record[KeyOf[r]]
    IN  \/ row.st = "none"
        \/ row.expired
        \/ row.st = "processing" /\ row.lapsed /\ SamePrint(r, row.holder)

Claimed(r) == [st |-> "processing", holder |-> r, lapsed |-> FALSE, expired |-> FALSE]

\* ClaimIdempotencyKey; a database error answers 503 whether or not it committed.
ClaimKey(r) ==
    /\ req[r] = "claim"
    /\ \/ /\ CanClaim(r)
          /\ record' = [record EXCEPT ![KeyOf[r]] = Claimed(r)]
          /\ \E pc \in {"run", "error"} : req' = [req EXCEPT ![r] = pc]
       \/ /\ ~CanClaim(r)
          /\ req' = [req EXCEPT ![r] = "get"]
          /\ UNCHANGED record
    /\ UNCHANGED <<answer, executed, takeovers>>

\* Mutant: the stored response is replayed whatever the request was.
GetAnyPrint(r) ==
    LET row == record[KeyOf[r]]
    IN  /\ req[r] = "get" /\ row.st = "completed"
        /\ req' = [req EXCEPT ![r] = "done"]
        /\ answer' = [answer EXCEPT ![r] = row.holder]
        /\ UNCHANGED <<record, executed, takeovers>>

\* GetIdempotencyKey, a second statement, and what Claim makes of the row.
GetKey(r) ==
    LET row == record[KeyOf[r]]
        Ends(pc) == req' = [req EXCEPT ![r] = pc]
        replays == row.st = "completed" /\ SamePrint(r, row.holder)
    IN  /\ req[r] = "get"
        /\ \/ row.st = "none" /\ Ends("error")
           \/ row.st # "none" /\ ~SamePrint(r, row.holder) /\ Ends("conflict")
           \/ row.st = "processing" /\ SamePrint(r, row.holder) /\ Ends("busy")
           \/ replays /\ Ends("done")
        /\ answer' = IF replays THEN [answer EXCEPT ![r] = row.holder] ELSE answer
        /\ UNCHANGED <<record, executed, takeovers>>

\* next.ServeHTTP: the handler runs, or panics or dies before or after its effect.
Execute(r) ==
    /\ req[r] = "run"
    /\ \/ executed' = executed \cup {r} /\ req' = [req EXCEPT ![r] = "complete"]
       \/ executed' \in {executed, executed \cup {r}} /\ req' = [req EXCEPT ![r] = "error"]
    /\ UNCHANGED <<record, answer, takeovers>>

\* CompleteIdempotencyKey under the lease.  Its error is ignored: after a
\* disconnect nothing is stored, and the response is written all the same.
Complete(r) ==
    LET row == record[KeyOf[r]]
    IN  /\ req[r] = "complete"
        /\ \/ /\ row.st = "processing" /\ row.holder = r
              /\ record' = [record EXCEPT ![KeyOf[r]] =
                    [row EXCEPT !.st = "completed", !.lapsed = TRUE]]
           \/ UNCHANGED record
        /\ req' = [req EXCEPT ![r] = "done"]
        /\ answer' = [answer EXCEPT ![r] = r]
        /\ UNCHANGED <<executed, takeovers>>

-----------------------------------------------------------------------------
\* LockTTL and then RecordTTL pass.
LeaseLapses(k) ==
    /\ record[k].st = "processing" /\ ~record[k].lapsed
    /\ record' = [record EXCEPT ![k].lapsed = TRUE]
    /\ takeovers' = [takeovers EXCEPT ![k] = @ + 1]
    /\ UNCHANGED <<req, answer, executed>>

RecordExpires(k) ==
    /\ record[k].lapsed /\ ~record[k].expired
    /\ record' = [record EXCEPT ![k].expired = TRUE]
    /\ takeovers' = [takeovers EXCEPT ![k] = @ + 1]
    /\ UNCHANGED <<req, answer, executed>>

\* CleanupJob: DeleteExpiredIdempotencyKeys.
DeleteExpired ==
    /\ \E k \in Keys : record[k].expired
    /\ record' = [k \in Keys |-> IF record[k].expired THEN NoRecord ELSE record[k]]
    /\ UNCHANGED <<req, answer, executed, takeovers>>

IdemNext ==
    \/ \E r \in KeyedRequests : ClaimKey(r) \/ GetKey(r) \/ Execute(r) \/ Complete(r)
    \/ \E k \in Keys : LeaseLapses(k) \/ RecordExpires(k)
    \/ DeleteExpired

IdemSpec == IdemInit /\ [][IdemNext]_idemVars
-----------------------------------------------------------------------------
\* An answered request got the response of a handler that really ran, for the same
\* key, method, path and body: its own or the one its key stored.
AnswerIsOwn ==
    \A r \in KeyedRequests : req[r] = "done" =>
       /\ answer[r] \in executed
       /\ KeyOf[answer[r]] = KeyOf[r] /\ SamePrint(r, answer[r])

\* A key's handler runs once, and once more per lease that lapsed or record that
\* expired: concurrent duplicates alone never run it twice.
OneExecutionPerLease ==
    \A k \in Keys :
       Cardinality({r \in KeyedRequests : KeyOf[r] = k /\ (req[r] = "run" \/ r \in executed)})
          <= 1 + takeovers[k]
=============================================================================
