---------------------------- MODULE MCEslClient -----------------------------
(* The client of a worker: a caller, the subscription and two breaks.        *)
EXTENDS EslClient

OrderValue == <<"k1", "k2", "k3", "k4">>
=============================================================================
