--------------------------- MODULE MCPromptStream ---------------------------
(* PromptStream for TLC.                                                   *)
EXTENDS PromptStream

CONSTANTS p1

=============================================================================
