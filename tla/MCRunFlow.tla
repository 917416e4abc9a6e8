----------------------------- MODULE MCRunFlow -----------------------------
(* RunFlow for TLC.                                                        *)
EXTENDS RunFlow, TLC

CONSTANTS s1, r1, r2

(* Two runs of one session. *)
OneSession == r1 :> s1 @@ r2 :> s1

=============================================================================
