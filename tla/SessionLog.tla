----------------------------- MODULE SessionLog -----------------------------
(***************************************************************************)
(* Kafka's session-events topic as the consumers of one interview see it.  *)
(* The key is the session: the log of a session keeps its order, the logs  *)
(* of two sessions are unrelated.  An event is its sequence number.        *)
(*                                                                         *)
(* WorkspaceStore shows what fills the logs: a relay delivers the outbox   *)
(* events of a session in order (DeliveredInOrder); the AI gateway writes  *)
(* a prompt's completion itself, at any time or never.  Either may write   *)
(* an event again, later than its successors.                              *)
(***************************************************************************)
EXTENDS Integers, Sequences, FiniteSets

CONSTANTS
    Sessions,      \* the interview's sessions
    N,             \* the events of the interview are 1..N
    SessionOf,     \* the session of each event
    Completions,   \* the events that are completions
    MaxCopies      \* bound: copies of an event

Numbers == 1..N

ASSUME SessionOfAssumption == N \in Nat /\ SessionOf \in [Numbers -> Sessions]
ASSUME CompletionsAssumption == Completions \subseteq Numbers
ASSUME MaxCopiesAssumption == MaxCopies \in Nat

VARIABLE log

EmptyLog == [s \in Sessions |-> << >>]

InLog(n) == \E k \in DOMAIN log[SessionOf[n]] : log[SessionOf[n]][k] = n

Copies(n) == Cardinality({k \in DOMAIN log[SessionOf[n]] : log[SessionOf[n]][k] = n})

(* Every earlier outbox event of the session is in its log. *)
PredecessorsIn(n) ==
    \A m \in Numbers \ Completions :
        m < n /\ SessionOf[m] = SessionOf[n] => InLog(m)

(* A completion waits for nothing: its prompt may still be in the outbox. *)
MayAppend(n) ==
    /\ Copies(n) < MaxCopies
    /\ n \in Completions \/ PredecessorsIn(n)

AppendEvent(n) ==
    /\ MayAppend(n)
    /\ log' = [log EXCEPT ![SessionOf[n]] = Append(@, n)]

=============================================================================
