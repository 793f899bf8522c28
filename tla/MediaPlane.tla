----------------------------- MODULE MediaPlane -----------------------------
(***************************************************************************)
(* What a media worker promises to whoever asks it for a session: a session *)
(* is created at most once at a time, below the worker's capacity and only  *)
(* while it is not draining; at most one connection ever attaches to it;    *)
(* once it is closing nothing attaches any more; and it leaves the worker   *)
(* only through closing, that is with its resources released.  The manager  *)
(* of media/session is shown to implement this (MediaSession), and the      *)
(* agent runtime is checked on top of it (AgentRuntime).                    *)
(***************************************************************************)
EXTENDS Naturals, FiniteSets

CONSTANTS Sessions, Capacity
VARIABLES phase,             \* of each session id, as the worker's map has it
          draining

planeVars == <<phase, draining>>

PlaneTypeOK == /\ phase \in [Sessions -> {"absent", "waiting", "attached", "closing"}]
               /\ draining \in BOOLEAN
PlaneInit == phase = [s \in Sessions |-> "absent"] /\ draining = FALSE

Present == {s \in Sessions : phase[s] # "absent"}
To(s, p) == phase' = [phase EXCEPT ![s] = p] /\ UNCHANGED draining

CreateSession(s) == /\ ~draining /\ phase[s] = "absent"
                    /\ Cardinality(Present) < Capacity
                    /\ To(s, "waiting")
AttachSession(s) == phase[s] = "waiting" /\ To(s, "attached")
CloseSession(s) == phase[s] \in {"waiting", "attached"} /\ To(s, "closing")
LeaveSession(s) == phase[s] = "closing" /\ To(s, "absent")
DrainPlane == draining' = TRUE /\ UNCHANGED phase

PlaneNext == \/ DrainPlane
             \/ \E s \in Sessions : \/ CreateSession(s) \/ AttachSession(s)
                                    \/ CloseSession(s) \/ LeaveSession(s)
PlaneSpec == PlaneInit /\ [][PlaneNext]_planeVars
=============================================================================
