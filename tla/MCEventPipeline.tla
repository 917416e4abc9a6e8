-------------------------- MODULE MCEventPipeline --------------------------
(* EventPipeline for TLC.                                                  *)
EXTENDS EventPipeline, TLC

CONSTANTS s1

(* All events are of one session. *)
OneSession == [n \in Numbers |-> s1]

=============================================================================
