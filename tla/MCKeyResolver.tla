--------------------------- MODULE MCKeyResolver ---------------------------
(* KeyResolver for TLC.                                                    *)
EXTENDS KeyResolver, TLC

=============================================================================
