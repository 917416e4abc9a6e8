----------------------------- MODULE MCBilling -----------------------------
(* Billing for TLC.                                                        *)
EXTENDS Billing

CONSTANTS c1, c2, j1, j2

Table == [BaseFeeCents |-> 2, IncludedSessions |-> 1, SessionCents |-> 3,
          ManagedInputPerMillionCents |-> 3, ManagedOutputPerMillionCents |-> 5,
          IncludedRuns |-> 0, RunCents |-> 0]

(* The second company's price table is broken. *)
Plans == [c \in Companies |-> IF c = c1 THEN Table ELSE BadPlan]

(* A first reading, and one with another session and its tokens. *)
TwoReadings == [c \in Companies |->
    IF c = c2 THEN <<[Sessions |-> 1, ManagedInputTokens |-> 0, ManagedOutputTokens |-> 0, Runs |-> 0]>>
    ELSE <<[Sessions |-> 1, ManagedInputTokens |-> 0, ManagedOutputTokens |-> 0, Runs |-> 1],
          [Sessions |-> 2, ManagedInputTokens |-> 400000, ManagedOutputTokens |-> 0, Runs |-> 2]>>]

(* One credit that never expires, and one that expires in month 2. *)
TwoCredits == [k \in Credits |->
    IF k = 1 THEN [company |-> c1, amount |-> 3, granted |-> 0, expires |-> Never]
              ELSE [company |-> c1, amount |-> 2, granted |-> 1, expires |-> 3]]

=============================================================================
