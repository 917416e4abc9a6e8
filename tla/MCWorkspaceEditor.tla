------------------------- MODULE MCWorkspaceEditor -------------------------
(* WorkspaceEditor for TLC.                                                *)
EXTENDS WorkspaceEditor, TLC

CONSTANTS py, js, x, y, open

(* Texts with a common beginning, without a newline at the end, and one    *)
(* whose replacement is too long a patch.                                  *)
FewTexts == {<<x>>, <<x, y>>, <<y, open>>}
Starters == [p \in Paths |-> <<x>>]

=============================================================================
