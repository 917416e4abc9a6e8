---------------------------- MODULE MCAdminApi -----------------------------
(* AdminApi for TLC.                                                       *)
EXTENDS AdminApi, TLC

CONSTANTS c1, c2, o1, a1, r1, n1, i1, i2, i3, t1, q1, q2, h1

(* One company with an owner, an admin, a member to come and interviews;   *)
(* another with a recruiter, a task and an interview.                      *)
TwoCompanies == [r \in Rows |-> IF r \in {r1, t1, i3} THEN c2 ELSE c1]

Founders ==
    [u \in Users |-> CASE u = o1 -> "owner" [] u = a1 -> "admin" [] u = r1 -> "recruiter" [] OTHER -> "none"]

SymmetricRequests == Permutations(Requests)

=============================================================================
