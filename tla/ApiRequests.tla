---------------------------- MODULE ApiRequests ----------------------------
(***************************************************************************)
(* The API requests of one organization that are in flight.  The handler   *)
(* of each runs in a goroutine of its own and issues its statements one by  *)
(* one, each a transaction unless the service opens one; between two of     *)
(* them any other request may run.  request[q] is what request q has begun, *)
(* the row it is about, what it has read and still holds, and what it has   *)
(* left to do.  A traffic mix says which operations each request of a       *)
(* behaviour may be for; every mix is explored.                             *)
(***************************************************************************)
EXTENDS SqlRows

CONSTANTS Requests,
          NoId,              \* uuid.Nil
          Traffic            \* the mixes: a set of operations for each request

VARIABLES request,
          traffic,           \* this behaviour's mix
          organization       \* the organization's row: "active" or "deleted"

Unbegun == [op |-> "none", pc |-> "new", on |-> NoId, saw |-> {}, todo |-> {}]
Done == [Unbegun EXCEPT !.pc = "done"]

RequestInit == /\ request = [q \in Requests |-> Unbegun]
               /\ traffic \in Traffic
               /\ organization = "active"

OrganizationActive == organization = "active"   \* o.status = 'active' AND deleted_at IS NULL

Free(q, op) == request[q].pc = "new" /\ op \in traffic[q]

\* A request begins with its reads, holding what it saw; ends with an answer.
Begin(q, op, on, saw) ==
    /\ Free(q, op)
    /\ request' = [request EXCEPT ![q] = [op |-> op, pc |-> "begun", on |-> on, saw |-> saw,
                                          todo |-> {}]]
    /\ UNCHANGED traffic
At(q, op, pc) == request[q].op = op /\ request[q].pc = pc
Begun(q, op) == At(q, op, "begun")
Goto(q, pc, saw, todo) ==
    /\ request' = [request EXCEPT ![q].pc = pc, ![q].saw = saw, ![q].todo = todo]
    /\ UNCHANGED traffic
Answer(q) == request' = [request EXCEPT ![q] = Done] /\ UNCHANGED traffic

\* A request of a single statement.
Single(q, op) == Free(q, op) /\ Answer(q)
=============================================================================
