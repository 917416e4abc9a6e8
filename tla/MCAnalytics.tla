---------------------------- MODULE MCAnalytics ----------------------------
(* Analytics for TLC.                                                      *)
EXTENDS Analytics

CONSTANTS e1, e2, e3

(* A session over the end of a month: a managed completion that fails, a   *)
(* run stamped by a clock that is behind, and a suggestion applied.        *)
Blank == [seq |-> 0, at |-> 0, type |-> "session.started", period |-> 2, status |-> "",
          mode |-> "", origin |-> "", input |-> 0, output |-> 0, added |-> 0, removed |-> 0]

Session == [e \in Events |->
    CASE e = e1 -> [Blank EXCEPT !.seq = 1, !.at = 5, !.type = "ai.response.completed",
                                 !.status = "error", !.mode = "managed", !.input = 2, !.output = 3]
      [] e = e2 -> [Blank EXCEPT !.seq = 2, !.at = 3, !.type = "execution.completed", !.period = 1,
                                 !.status = "succeeded"]
      [] e = e3 -> [Blank EXCEPT !.seq = 3, !.at = 7, !.type = "code.diff",
                                 !.origin = "ai_applied", !.added = 2, !.removed = 1]]

FourViews == <<"mv_session_metrics", "mv_task_daily", "mv_funnel", "mv_billing_usage">>

=============================================================================
