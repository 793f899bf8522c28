---------------------------- MODULE MCRecordings ----------------------------
(* Two workers, each with a retention pass, and one request beside them.     *)
EXTENDS Retention, TLC

CONSTANTS w1, w2, c1, h1, h2
HandlesValue == (h1 :> "RECORD_START") @@ (h2 :> "RECORD_STOP")
CleanupOfValue == (c1 :> w1)
=============
