---------------------------- MODULE SessionStream ----------------------------
(***************************************************************************)
(* What the platform promises a consumer of session events, without the    *)
(* transactions, the outbox and the relays that provide it.  An interview  *)
(* numbers its events consecutively; each session's stream receives the    *)
(* recorded events of the session in that order; a prompt's completion     *)
(* joins under the number the prompt reserved, at any later time or never. *)
(***************************************************************************)
EXTENDS Integers

CONSTANTS Interviews, Invites, InterviewOf

VARIABLES
    lastSeq,    \* the last number each interview has given out
    recorded,   \* the events recorded for good
    delivered   \* the events each session's stream has received

vars == <<lastSeq, recorded, delivered>>

Init ==
    /\ lastSeq = [i \in Interviews |-> 0]
    /\ recorded = {}
    /\ delivered = [v \in Invites |-> {}]

(* An event is recorded under the next number; a prompt takes two. *)
Record(e) ==
    LET i == InterviewOf[e.v]
    IN  /\ e.op # "completion"
        /\ e.seq = lastSeq[i] + 1
        /\ lastSeq' = [lastSeq EXCEPT ![i] = IF e.op = "prompt" THEN e.seq + 1 ELSE e.seq]
        /\ recorded' = recorded \cup {e}
        /\ UNCHANGED delivered

(* The stream of a session receives its first missing event. *)
Deliver(e) ==
    /\ e \in recorded
    /\ e \notin delivered[e.v]
    /\ \A f \in recorded : f.v = e.v /\ f.seq < e.seq => f \in delivered[e.v]
    /\ delivered' = [delivered EXCEPT ![e.v] = @ \cup {e}]
    /\ UNCHANGED <<lastSeq, recorded>>

(* A recorded prompt is answered under the number it reserved. *)
Complete(e) ==
    /\ e.op = "completion"
    /\ \E p \in recorded : /\ p.op = "prompt" /\ p.id = e.id /\ p.v = e.v
                           /\ e.seq = p.seq + 1
    /\ e \notin delivered[e.v]
    /\ delivered' = [delivered EXCEPT ![e.v] = @ \cup {e}]
    /\ UNCHANGED <<lastSeq, recorded>>

Next ==
    \/ \E e \in recorded' : Record(e)
    \/ \E e \in recorded : Deliver(e)
    \/ \E v \in Invites : \E e \in delivered'[v] : Complete(e)

Spec == Init /\ [][Next]_vars

=============================================================================
