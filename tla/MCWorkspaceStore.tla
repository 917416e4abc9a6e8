-------------------------- MODULE MCWorkspaceStore --------------------------
(* WorkspaceStore for TLC.                                                 *)
EXTENDS WorkspaceStore, TLC

CONSTANTS i1, v1, v2

(* Two sessions of one interview, and an interview with one session. *)
OneInterview == v1 :> i1 @@ v2 :> i1
OneSession   == v1 :> i1

(* Workers, and relays, are interchangeable. *)
Symmetry == Permutations(Workers) \cup Permutations(Relays)

=============================================================================
