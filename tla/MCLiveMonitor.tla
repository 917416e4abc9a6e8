--------------------------- MODULE MCLiveMonitor ---------------------------
(* LiveMonitor for TLC.                                                    *)
EXTENDS LiveMonitor, TLC

CONSTANTS s1

(* All events in one session. *)
OneSession == [n \in Numbers |-> s1]

=============================================================================
