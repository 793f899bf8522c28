-------------------------- MODULE MCEventPipeline ---------------------------
(***************************************************************************)
(* Instances of EventPipeline.  A behaviour shows one of two scenes: the   *)
(* pipeline from the commit of an event on, or, with the event already in  *)
(* the stream, the webhook component alone under the endpoint operations   *)
(* of the API and manual retries.                                          *)
(***************************************************************************)
EXTENDS EventPipeline

VARIABLE scene

mcVars == <<pipelineVars, scene>>

PublishedRow == [NoEventRow EXCEPT !.st = "published"]

MCInit ==
    \/ scene = "pipeline" /\ PipelineInit
    \/ /\ scene = "endpoints" /\ Hooks!WebhookInit
       /\ outbox = [e \in Events |-> PublishedRow] /\ stream = Events
       /\ publisher = [w \in Workers |-> Down]

MCNext ==
    /\ \/ scene = "pipeline" /\ PipelineNext
       \/ scene = "endpoints" /\ Hooks!WebhookNext /\ UNCHANGED <<outbox, publisher, stream>>
    /\ UNCHANGED scene

MCSpec == MCInit /\ [][MCNext]_mcVars /\ PipelineFairness
=============================================================================
