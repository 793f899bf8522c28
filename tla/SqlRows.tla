------------------------------ MODULE SqlRows ------------------------------
(***************************************************************************)
(* What one SQL statement hands back to the Go code.  A ":one" statement   *)
(* returns the row it wrote or read, or pgx.ErrNoRows when its WHERE       *)
(* clause, its FROM clause or its INSERT ... SELECT found nothing: here the *)
(* set of the rows returned, empty for ErrNoRows.  The services branch on   *)
(* exactly that, so a statement is an operator from the row it addresses    *)
(* to such a set, and PostgreSQL runs each of them atomically.              *)
(***************************************************************************)

\* RETURNING: the row written, when the WHERE clause let the statement write.
Returning(where, new) == IF where THEN {new} ELSE {}
NoRows(rows) == rows = {}

\* COALESCE($n, column) for a column whose NULL is the value null.
Coalesce(new, old, null) == IF new = null THEN old ELSE new
=============================================================================
