---------------------------- MODULE MCMediaNodes ----------------------------
(***************************************************************************)
(* Instances of MediaNodes.                                                *)
(*   drain   the placers of two sessions meet at the only slot of a node   *)
(*           that beats and drains                                         *)
(*   move    two placers of one session and two nodes with a slot each:    *)
(*           the owner key lapses and the other placer moves the session   *)
(***************************************************************************)
EXTENDS MediaNodes

CONSTANTS p1, p2, p3, s1, s2, n1, n2

VARIABLE scene

mcVars == <<scene, mediaVars>>

SessionOfValue == [p \in Placers |-> IF p = p3 THEN s2 ELSE s1]

MCInit ==
    /\ scene \in {"drain", "move"}
    /\ MediaInit
    /\ \A n \in Nodes : node[n] = "up" <=> scene = "move" \/ n = n1

MCNext ==
    /\ UNCHANGED scene
    /\ \/ \E n \in Nodes :
            Heartbeat(n) \/ SessionEnds(n) \/ (scene = "drain" /\ (Drain(n) \/ NodeEnds(n)))
       \/ \E p \in Placers : p # (IF scene = "move" THEN p3 ELSE p2) /\ PlacerStep(p)
       \/ \E s \in Sessions : OwnerLapses(s) \/ \E n \in Nodes : EntryLapses(n, s)

MCSpec == MCInit /\ [][MCNext]_mcVars /\ MediaFairness
=============================================================================
