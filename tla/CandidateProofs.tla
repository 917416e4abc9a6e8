--------------------------- MODULE CandidateProofs --------------------------
(***************************************************************************)
(* Proofs about what a candidate does: PromptStream, for any number of     *)
(* prompts, any length of the answers and any number of faults, and        *)
(* WorkspaceEditor, for any files, texts, inputs and losses.               *)
(***************************************************************************)
EXTENDS PromptStream, WorkspaceEditor, SequenceTheorems, WellFoundedInduction, TLAPS

(* What travels from the gateway to the workspace. *)
Events == Statuses \cup {"delta"}

(* What the gateway's handler may be. *)
GwRecord == [pc : {"idle", "key", "stream", "emit", "reply", "ended", "dead"},
             text : 0..MaxDeltas, status : Statuses \cup {"none"}]

IInv == TypeOK /\ \A p \in Prompts : PromptInv(p)

-----------------------------------------------------------------------------
(* Streams: a run of deltas, and a status at the end or none.              *)

(* All of a stream's events but the last are deltas. *)
Streamed(u) == \A k \in 1..Len(u) : u[k] # "delta" => k = Len(u)

(* An empty stream holds no delta. *)
LEMMA NoDeltas == \A u : Len(u) = 0 => DeltasIn(u) = 0
  BY DEF DeltasIn, Ends

(* A stream that goes on counts the delta it is given. *)
LEMMA AppendDelta ==
    ASSUME NEW u \in Seq(Events), \A k \in 1..Len(u) : u[k] = "delta"
    PROVE  /\ Append(u, "delta") \in Seq(Events)
           /\ \A k \in 1..Len(Append(u, "delta")) : Append(u, "delta")[k] = "delta"
           /\ DeltasIn(Append(u, "delta")) = DeltasIn(u) + 1
  BY DEF DeltasIn, Ends, Events

(* A status at the end of a stream is no delta. *)
LEMMA AppendStatus ==
    ASSUME NEW u \in Seq(Events), NEW s \in Statuses, \A k \in 1..Len(u) : u[k] = "delta"
    PROVE  /\ Append(u, s) \in Seq(Events)
           /\ \A k \in 1..Len(Append(u, s)) :
                 Append(u, s)[k] # "delta" => k = Len(Append(u, s)) /\ Append(u, s)[k] = s
           /\ DeltasIn(Append(u, s)) = DeltasIn(u)
<1>1. s \in Events /\ s # "delta"
  BY DEF Events, Statuses
<1> QED
  BY <1>1, AppendProperties DEF DeltasIn, Ends

(* What is left of a stream once its first event is read. *)
LEMMA TailOfStream ==
    ASSUME NEW u \in Seq(Events), u # <<>>, Streamed(u)
    PROVE  /\ Tail(u) \in Seq(Events)
           /\ \A k \in 1..Len(Tail(u)) : Tail(u)[k] = u[k + 1]
           /\ Len(Tail(u)) = Len(u) - 1
           /\ Head(u) = "delta" => DeltasIn(Tail(u)) = DeltasIn(u) - 1 /\ (Ends(Tail(u)) => Ends(u))
           /\ Head(u) # "delta" => Len(u) = 1 /\ Tail(u) = <<>> /\ DeltasIn(u) = 0 /\ Ends(u)
<1>1. /\ Len(u) \in Nat /\ Len(u) > 0 /\ Head(u) = u[1]
      /\ Tail(u) \in Seq(Events) /\ Len(Tail(u)) = Len(u) - 1
      /\ \A k \in 1..Len(Tail(u)) : Tail(u)[k] = u[k + 1]
  OBVIOUS
<1>2. ASSUME Head(u) = "delta" PROVE DeltasIn(Tail(u)) = DeltasIn(u) - 1
  <2>1. CASE Len(u) = 1
    <3>1. u[Len(u)] = "delta"
      BY <1>1, <1>2, <2>1
    <3>2. DeltasIn(u) = 1
      BY <2>1, <3>1 DEF DeltasIn, Ends
    <3>3. Len(Tail(u)) = 0
      BY <1>1, <2>1
    <3>4. DeltasIn(Tail(u)) = 0
      BY <3>3, NoDeltas
    <3> QED
      BY <3>2, <3>4
  <2>2. CASE Len(u) > 1
    <3>1. Len(u) - 1 \in 1..Len(Tail(u)) /\ Len(u) - 1 + 1 = Len(u)
      BY <1>1, <2>2
    <3>2. Tail(u)[Len(u) - 1] = u[Len(u)]
      BY <1>1, <3>1
    <3> QED
      BY <1>1, <2>2, <3>2 DEF DeltasIn, Ends
  <2> QED
    BY <1>1, <2>1, <2>2
<1>3. ASSUME Head(u) # "delta" PROVE Len(u) = 1 /\ Tail(u) = <<>> /\ DeltasIn(u) = 0 /\ Ends(u)
  <2>1. Len(u) = 1
    <3>1. 1 \in 1..Len(u) /\ u[1] # "delta"
      BY <1>1, <1>3
    <3> QED
      BY <3>1 DEF Streamed
  <2>2. Tail(u) = <<>>
    <3>1. Tail(u) \in Seq(Events) /\ ~(Len(Tail(u)) \in Nat \ {0})
      BY <1>1, <2>1
    <3> QED
      BY <3>1, EmptySeq, Zenon
  <2> QED
    BY <1>1, <1>3, <2>1, <2>2 DEF DeltasIn, Ends
<1>4. Ends(Tail(u)) => Ends(u)
  <2> SUFFICES ASSUME Ends(Tail(u)) PROVE Ends(u)
    OBVIOUS
  <2>1. Len(u) - 1 \in 1..Len(Tail(u)) /\ Len(u) - 1 + 1 = Len(u) /\ Tail(u)[Len(u) - 1] # "delta"
    BY <1>1 DEF Ends
  <2>2. Tail(u)[Len(u) - 1] = u[Len(u)]
    BY <1>1, <2>1
  <2> QED
    BY <1>1, <2>1, <2>2 DEF Ends
<1> QED
  BY <1>1, <1>2, <1>3, <1>4

(* A stream of deltas has no end. *)
LEMMA NoEnd == \A u : Len(u) \in Nat /\ (\A k \in 1..Len(u) : u[k] = "delta") => ~Ends(u)
  BY DEF Ends

(* What arrives of a stream that is cut off: its end only with all of it.  *)
LEMMA CutStream ==
    ASSUME NEW u \in Seq(Events), NEW n \in 0..Len(u), Streamed(u)
    PROVE  /\ SubSeq(u, 1, n) \in Seq(Events)
           /\ Len(SubSeq(u, 1, n)) = n
           /\ \A k \in 1..n : SubSeq(u, 1, n)[k] = u[k]
           /\ DeltasIn(SubSeq(u, 1, n)) <= DeltasIn(u)
           /\ Ends(SubSeq(u, 1, n)) => Ends(u) /\ n = Len(u) /\ DeltasIn(SubSeq(u, 1, n)) = DeltasIn(u)
<1>1. SubSeq(u, 1, n) \in Seq(Events) /\ Len(SubSeq(u, 1, n)) = n
  BY SubSeqProperties
<1>2. \A k \in 1..n : SubSeq(u, 1, n)[k] = u[k]
  BY SubSeqProperties
<1>3. Len(u) \in Nat /\ n \in Nat /\ n <= Len(u)
  OBVIOUS
<1>4. Ends(SubSeq(u, 1, n)) => Ends(u) /\ n = Len(u)
  <2> SUFFICES ASSUME Ends(SubSeq(u, 1, n)) PROVE Ends(u) /\ n = Len(u)
    OBVIOUS
  <2>1. n \in 1..n /\ n \in 1..Len(u) /\ SubSeq(u, 1, n)[n] # "delta"
    BY <1>1, <1>3 DEF Ends
  <2>2. u[n] # "delta"
    BY <1>2, <2>1
  <2>3. n = Len(u)
    BY <2>1, <2>2 DEF Streamed
  <2> QED
    BY <1>3, <2>1, <2>2, <2>3 DEF Ends
<1>5. Ends(u) /\ n = Len(u) => Ends(SubSeq(u, 1, n))
  <2> SUFFICES ASSUME Ends(u), n = Len(u) PROVE Ends(SubSeq(u, 1, n))
    OBVIOUS
  <2>1. n \in 1..n /\ u[n] # "delta"
    BY <1>3 DEF Ends
  <2> QED
    BY <1>1, <1>2, <1>3, <2>1 DEF Ends
<1>6. DeltasIn(SubSeq(u, 1, n)) = IF Ends(SubSeq(u, 1, n)) THEN n - 1 ELSE n
  BY <1>1 DEF DeltasIn
<1>7. DeltasIn(u) = IF Ends(u) THEN Len(u) - 1 ELSE Len(u)
  BY DEF DeltasIn
<1> QED
  BY <1>1, <1>2, <1>3, <1>4, <1>5, <1>6, <1>7

(* What arrives of a run of deltas that is cut off. *)
LEMMA PartOfStream ==
    ASSUME NEW u \in Seq(Events), NEW n \in 0..Len(u), \A k \in 1..Len(u) : u[k] = "delta"
    PROVE  /\ SubSeq(u, 1, n) \in Seq(Events)
           /\ \A k \in 1..Len(SubSeq(u, 1, n)) : SubSeq(u, 1, n)[k] = "delta"
           /\ DeltasIn(SubSeq(u, 1, n)) <= DeltasIn(u)
<1>1. SubSeq(u, 1, n) \in Seq(Events) /\ Len(SubSeq(u, 1, n)) = n
  BY SubSeqProperties
<1>2. \A k \in 1..n : SubSeq(u, 1, n)[k] = u[k]
  BY SubSeqProperties
<1> QED
  BY <1>1, <1>2 DEF DeltasIn, Ends

-----------------------------------------------------------------------------
(* Type correctness.                                                       *)

(* Where the gateway's handler may be. *)
Pcs == {"idle", "key", "stream", "emit", "reply", "ended", "dead"}

(* The handler that moves on keeps its type, its text and its status. *)
LEMMA GwGo ==
    ASSUME TypeOK, NEW p \in Prompts, NEW c \in Pcs, gw' = [gw EXCEPT ![p].pc = c]
    PROVE  /\ gw' \in [Prompts -> GwRecord]
           /\ gw'[p].pc = c /\ gw'[p].text = gw[p].text /\ gw'[p].status = gw[p].status
           /\ \A q \in Prompts \ {p} : gw'[q] = gw[q]
<1>1. gw[p] \in GwRecord
  BY DEF TypeOK, GwRecord
<1>2. [gw[p] EXCEPT !.pc = c] \in GwRecord
  BY <1>1 DEF GwRecord, Pcs
<1>3. gw' = [gw EXCEPT ![p] = [gw[p] EXCEPT !.pc = c]]
  BY DEF TypeOK
<1> QED
  BY <1>1, <1>2, <1>3 DEF TypeOK, GwRecord

(* One that ends its call also gets its status. *)
LEMMA GwEnd ==
    ASSUME TypeOK, NEW p \in Prompts, NEW s \in Statuses, Finish(p, s)
    PROVE  /\ gw' \in [Prompts -> GwRecord]
           /\ gw'[p].pc = "emit" /\ gw'[p].text = gw[p].text /\ gw'[p].status = s
           /\ \A q \in Prompts \ {p} : gw'[q] = gw[q]
           /\ key' \in [Prompts -> BOOLEAN]
<1>1. gw[p] \in GwRecord
  BY DEF TypeOK, GwRecord
<1>2. [gw[p] EXCEPT !.pc = "emit", !.status = s] \in GwRecord
  BY <1>1 DEF GwRecord
<1>3. gw' = [gw EXCEPT ![p] = [gw[p] EXCEPT !.pc = "emit", !.status = s]]
  BY DEF TypeOK, Finish
<1>4. key' \in [Prompts -> BOOLEAN]
  BY DEF TypeOK, Finish
<1> QED
  BY <1>1, <1>2, <1>3, <1>4 DEF TypeOK, GwRecord

(* The initial states have their types. *)
LEMMA InitType == Init => TypeOK
  BY BoundsAssumption DEF Init, TypeOK, Idle, NoRecord, Statuses

(* What a candidate may have been told. *)
Told == Statuses \cup {"none", "rejected", "unavailable"}

(* The handler's end keeps the types of what it sets. *)
LEMMA DoneTyped ==
    ASSUME TypeOK, NEW p \in Prompts, NEW s \in Told, SendDone(p, s)
    PROVE  /\ told' \in [Prompts -> Told]
           /\ ws' \in [Prompts -> {"submit", "accepted", "call", "relay", "ended"}]
           /\ open' \in [Prompts -> BOOLEAN]
           /\ UNCHANGED <<here, shown>>
  BY DEF TypeOK, SendDone, Return, Told

(* So does a fault. *)
LEMMA FaultTyped == TypeOK /\ Fault => faults' \in 0..MaxFaults
  BY BoundsAssumption DEF TypeOK, Fault

(* The candidate and the workspace. *)
LEMMA WorkspaceType ==
    ASSUME TypeOK, NEW p \in Prompts,
           Submit(p) \/ Accepted(p) \/ CallFails(p) \/ RelayFails(p) \/ WorkspaceDies(p) \/ Leave(p)
    PROVE  TypeOK'
<1>0. "rejected" \in Told /\ "unavailable" \in Told
  BY DEF Told
<1>1. CASE Submit(p)
  <2>1. CASE SendDone(p, "rejected")
    BY <1>0, <1>1, <2>1, DoneTyped DEF TypeOK, Submit, record, Told
  <2>2. CASE ws' = [ws EXCEPT ![p] = "accepted"] /\ UNCHANGED <<candidate, open>>
    BY <1>1, <2>2 DEF TypeOK, Submit, candidate, record
  <2> QED
    BY <1>1, <2>1, <2>2 DEF Submit
<1>2. CASE Accepted(p)
  <2>1. CASE SendDone(p, "unavailable")
    BY <1>0, <1>2, <2>1, DoneTyped DEF TypeOK, Accepted, record, Told
  <2>2. CASE ws' = [ws EXCEPT ![p] = "call"] /\ UNCHANGED <<candidate, open>>
    BY <1>2, <2>2 DEF TypeOK, Accepted, candidate, record
  <2> QED
    BY <1>2, <2>1, <2>2 DEF Accepted
<1>3. CASE CallFails(p)
  <2>1. faults' \in 0..MaxFaults
    BY <1>3, FaultTyped DEF CallFails, TypeOK
  <2> QED
    BY <1>0, <1>3, <2>1, DoneTyped DEF TypeOK, CallFails, record, Told
<1>4. CASE RelayFails(p)
  BY <1>0, <1>4, DoneTyped DEF TypeOK, RelayFails, record, Told
<1>5. CASE WorkspaceDies(p)
  BY <1>5, FaultTyped DEF TypeOK, WorkspaceDies, Return, record
<1>6. CASE Leave(p)
  BY <1>6 DEF TypeOK, Leave, record
<1> QED
  BY <1>1, <1>2, <1>3, <1>4, <1>5, <1>6

-----------------------------------------------------------------------------
(* The invariant, action by action.                                        *)

(* All of a prompt's state but the keys. *)
PromptState(q) == <<here[q], shown[q], told[q], ws[q], open[q], up[q], gw[q], kafka[q], lost[q]>>

(* A step of one prompt leaves what holds of the others. *)
LEMMA Frame ==
    ASSUME IInv, NEW p \in Prompts, TypeOK', PromptInv(p)',
           \A q \in Prompts \ {p} : UNCHANGED PromptState(q)
    PROVE  IInv'
<1> SUFFICES ASSUME NEW q \in Prompts, q # p
             PROVE  PromptInv(q)'
  BY DEF IInv
<1>1. PromptInv(q) /\ UNCHANGED PromptState(q)
  BY DEF IInv
<1> QED
  BY <1>1 DEF PromptInv, PromptState, Recorded, Answer

(* A prompt that has reached no gateway has neither answer nor record. *)
LEMMA Untouched ==
    ASSUME IInv, NEW p \in Prompts, gw[p].pc = "idle",
           UNCHANGED <<shown, up, gw, kafka, lost>>, ~open'[p],
           ws'[p] \in {"accepted", "call", "ended"},
           told'[p] \notin Statuses,
           told'[p] # "none" => ws'[p] = "ended"
    PROVE  PromptInv(p)'
<1>1. PromptInv(p)
  BY DEF IInv
<1>2. /\ gw'[p] = Idle /\ up'[p] = <<>> /\ shown'[p] = 0 /\ ~lost'[p] /\ kafka'[p] = NoRecord
      /\ gw'[p].pc = "idle" /\ gw'[p].text = 0 /\ Len(up'[p]) = 0 /\ DeltasIn(up'[p]) = 0
  BY <1>1, NoDeltas DEF PromptInv, Idle
<1> QED
  BY <1>2 DEF PromptInv, Recorded

(* The prompt is recorded, or turned down. *)
LEMMA SubmitInv == ASSUME IInv, NEW p \in Prompts, Submit(p) PROVE IInv'
<1>1. TypeOK'
  BY WorkspaceType DEF IInv
<1>2. \A q \in Prompts \ {p} : UNCHANGED PromptState(q)
  BY DEF IInv, TypeOK, Submit, SendDone, Return, PromptState, candidate, record
<1>3. gw[p].pc = "idle" /\ ~open[p] /\ told[p] = "none"
  BY DEF IInv, PromptInv, Submit
<1>4. /\ ~open'[p] /\ ws'[p] \in {"accepted", "call", "ended"}
      /\ told'[p] \notin Statuses /\ (told'[p] # "none" => ws'[p] = "ended")
  BY <1>3 DEF IInv, TypeOK, Submit, SendDone, Return, candidate, Statuses
<1>5. PromptInv(p)'
  BY <1>3, <1>4, Untouched DEF Submit, SendDone, candidate, record
<1> QED
  BY <1>1, <1>2, <1>5, Frame

(* The candidate is told, or has left. *)
LEMMA AcceptedInv == ASSUME IInv, NEW p \in Prompts, Accepted(p) PROVE IInv'
<1>1. TypeOK'
  BY WorkspaceType DEF IInv
<1>2. \A q \in Prompts \ {p} : UNCHANGED PromptState(q)
  BY DEF IInv, TypeOK, Accepted, SendDone, Return, PromptState, candidate, record
<1>3. gw[p].pc = "idle" /\ ~open[p] /\ told[p] = "none"
  BY DEF IInv, PromptInv, Accepted
<1>4. /\ ~open'[p] /\ ws'[p] \in {"accepted", "call", "ended"}
      /\ told'[p] \notin Statuses /\ (told'[p] # "none" => ws'[p] = "ended")
  BY <1>3 DEF IInv, TypeOK, Accepted, SendDone, Return, candidate, Statuses
<1>5. PromptInv(p)'
  BY <1>3, <1>4, Untouched DEF Accepted, SendDone, candidate, record
<1> QED
  BY <1>1, <1>2, <1>5, Frame

(* The call to the gateway fails. *)
LEMMA CallFailsInv == ASSUME IInv, NEW p \in Prompts, CallFails(p) PROVE IInv'
<1>1. TypeOK'
  BY WorkspaceType DEF IInv
<1>2. \A q \in Prompts \ {p} : UNCHANGED PromptState(q)
  BY DEF IInv, TypeOK, CallFails, SendDone, Return, PromptState, candidate, record
<1>3. gw[p].pc = "idle" /\ ~open[p] /\ told[p] = "none"
  BY DEF IInv, PromptInv, CallFails
<1>4. /\ ~open'[p] /\ ws'[p] \in {"accepted", "call", "ended"}
      /\ told'[p] \notin Statuses /\ (told'[p] # "none" => ws'[p] = "ended")
  BY <1>3 DEF IInv, TypeOK, CallFails, SendDone, Return, candidate, Statuses
<1>5. PromptInv(p)'
  BY <1>3, <1>4, Untouched DEF CallFails, SendDone, candidate, record
<1> QED
  BY <1>1, <1>2, <1>5, Frame

(* The call reaches the gateway. *)
LEMMA CallInv == ASSUME IInv, NEW p \in Prompts, Call(p) PROVE IInv'
<1>1. PICK c \in {"key", "stream"} : gw' = [gw EXCEPT ![p].pc = c]
  BY DEF Call
<1>4. /\ gw' \in [Prompts -> GwRecord]
      /\ gw'[p].pc = c /\ gw'[p].text = gw[p].text
      /\ \A q \in Prompts \ {p} : gw'[q] = gw[q]
  BY <1>1, GwGo DEF IInv, Pcs
<1>5. TypeOK'
  BY <1>4 DEF IInv, TypeOK, Call, candidate, record, GwRecord
<1>6. \A q \in Prompts \ {p} : UNCHANGED PromptState(q)
  BY <1>4 DEF IInv, TypeOK, Call, PromptState, candidate, record
<1>7. PromptInv(p)
  BY DEF IInv
<1>8. /\ gw[p] = Idle /\ up[p] = <<>> /\ shown[p] = 0 /\ ~lost[p] /\ kafka[p] = NoRecord
      /\ told[p] = "none"
  BY <1>7 DEF PromptInv, Call
<1>9. /\ gw'[p].pc = c /\ gw'[p].text = 0 /\ up'[p] = <<>> /\ Len(up'[p]) = 0
      /\ DeltasIn(up'[p]) = 0 /\ shown'[p] = 0 /\ kafka'[p] = NoRecord /\ told'[p] = "none"
      /\ ws'[p] = "relay" /\ open'[p]
  BY <1>4, <1>8, NoDeltas DEF IInv, TypeOK, Call, candidate, record, Idle
<1>10. PromptInv(p)'
  BY <1>9 DEF PromptInv, Recorded, Statuses
<1> QED
  BY <1>5, <1>6, <1>10, Frame

(* A delta reaches a candidate, or the workspace finds that they left. *)
LEMMA RelayDeltaInv == ASSUME IInv, NEW p \in Prompts, RelayDelta(p) PROVE IInv'
<1>1. PromptInv(p)
  BY DEF IInv
<1>2. /\ up[p] \in Seq(Events) /\ up[p] # <<>> /\ Streamed(up[p]) /\ Head(up[p]) = "delta"
      /\ up' = [up EXCEPT ![p] = Tail(up[p])]
  BY <1>1 DEF IInv, TypeOK, PromptInv, RelayDelta, Events, Streamed
<1>3. /\ Tail(up[p]) \in Seq(Events) /\ DeltasIn(Tail(up[p])) = DeltasIn(up[p]) - 1
      /\ Ends(Tail(up[p])) => Ends(up[p])
      /\ Len(Tail(up[p])) = Len(up[p]) - 1
      /\ \A k \in 1..Len(Tail(up[p])) : Tail(up[p])[k] = up[p][k + 1]
  BY <1>2, TailOfStream
<1>4. /\ up' \in [Prompts -> Seq(Events)] /\ up'[p] = Tail(up[p])
      /\ \A q \in Prompts \ {p} : up'[q] = up[q]
  BY <1>2, <1>3 DEF IInv, TypeOK, Events
<1>5. Len(up[p]) \in Nat /\ DeltasIn(up[p]) \in Int /\ DeltasIn(up[p]) >= 1
  BY <1>2, <1>3 DEF DeltasIn, Ends
<1>6. shown[p] \in Nat /\ gw[p].text \in 0..MaxDeltas /\ shown[p] + DeltasIn(up[p]) <= gw[p].text
  BY <1>1 DEF IInv, TypeOK, PromptInv
<1>7. shown[p] + 1 \in 0..MaxDeltas
  BY <1>5, <1>6, BoundsAssumption
<1>8. \A k \in 1..Len(up'[p]) : up'[p][k] # "delta" =>
         k = Len(up'[p]) /\ gw[p].pc = "ended" /\ up'[p][k] = gw[p].status
  <2> SUFFICES ASSUME NEW k \in 1..Len(up'[p]), up'[p][k] # "delta"
               PROVE  k = Len(up'[p]) /\ gw[p].pc = "ended" /\ up'[p][k] = gw[p].status
    OBVIOUS
  <2>1. k + 1 \in 1..Len(up[p]) /\ up[p][k + 1] = up'[p][k]
    BY <1>3, <1>4, <1>5
  <2>2. k + 1 = Len(up[p]) /\ gw[p].pc = "ended" /\ up[p][k + 1] = gw[p].status
    BY <1>1, <2>1 DEF PromptInv
  <2> QED
    BY <1>3, <1>4, <1>5, <2>1, <2>2
<1>9. UNCHANGED <<gw, key, kafka, lost, faults>> /\ ws[p] = "relay" /\ told[p] = "none"
  BY <1>1 DEF RelayDelta, record, PromptInv
<1>10. CASE here[p] /\ shown' = [shown EXCEPT ![p] = @ + 1] /\ UNCHANGED <<here, told, ws, open>>
  <2>1. TypeOK'
    BY <1>4, <1>7, <1>9, <1>10 DEF IInv, TypeOK, Events
  <2>2. \A q \in Prompts \ {p} : UNCHANGED PromptState(q)
    BY <1>4, <1>9, <1>10 DEF IInv, TypeOK, PromptState
  <2>3. shown'[p] = shown[p] + 1 /\ DeltasIn(up'[p]) = DeltasIn(up[p]) - 1
    BY <1>3, <1>4, <1>10 DEF IInv, TypeOK
  <2>4. shown'[p] + DeltasIn(up'[p]) = shown[p] + DeltasIn(up[p])
    BY <2>3, <1>5, <1>6
  <2>5. Ends(up'[p]) => Ends(up[p])
    BY <1>3, <1>4
  <2>6. PromptInv(p)'
    BY <1>1, <1>8, <1>9, <1>10, <2>4, <2>5, <1>6 DEF PromptInv, Recorded, Answer, Statuses
  <2> QED
    BY <2>1, <2>2, <2>6, Frame
<1>11. CASE ~here[p] /\ UNCHANGED <<candidate, ws, open>>
  <2>1. TypeOK'
    BY <1>4, <1>9, <1>11 DEF IInv, TypeOK, Events, candidate
  <2>2. \A q \in Prompts \ {p} : UNCHANGED PromptState(q)
    BY <1>4, <1>9, <1>11 DEF IInv, TypeOK, PromptState, candidate
  <2>3. shown'[p] + DeltasIn(up'[p]) <= gw[p].text
    BY <1>3, <1>4, <1>5, <1>6, <1>11 DEF candidate
  <2>5. PromptInv(p)'
    BY <1>1, <1>8, <1>9, <1>11, <2>3, <1>6 DEF PromptInv, Recorded, Answer, candidate, Statuses
  <2> QED
    BY <2>1, <2>2, <2>5, Frame
<1>12. CASE ~here[p] /\ SendDone(p, "unavailable")
  <2>1. TypeOK'
    BY <1>4, <1>9, <1>12, DoneTyped DEF IInv, TypeOK, Events, Told
  <2>2. \A q \in Prompts \ {p} : UNCHANGED PromptState(q)
    BY <1>4, <1>9, <1>12 DEF IInv, TypeOK, PromptState, SendDone, Return
  <2>3. shown'[p] + DeltasIn(up'[p]) <= gw[p].text
    BY <1>3, <1>4, <1>5, <1>6, <1>12 DEF SendDone
  <2>4. ws'[p] = "ended" /\ ~open'[p] /\ told' = told
    BY <1>12 DEF SendDone, Return, IInv, TypeOK
  <2>5. PromptInv(p)'
    BY <1>1, <1>8, <1>9, <2>3, <2>4, <1>6 DEF PromptInv, Recorded, Answer, Statuses
  <2> QED
    BY <2>1, <2>2, <2>5, Frame
<1> QED
  BY <1>10, <1>11, <1>12 DEF RelayDelta, candidate

(* The done event reaches a candidate who has been shown the whole answer. *)
LEMMA RelayDoneInv == ASSUME IInv, NEW p \in Prompts, RelayDone(p) PROVE IInv'
<1>1. PromptInv(p)
  BY DEF IInv
<1>2. /\ up[p] \in Seq(Events) /\ up[p] # <<>> /\ Streamed(up[p])
      /\ Head(up[p]) \in Statuses /\ Head(up[p]) # "delta"
      /\ up' = [up EXCEPT ![p] = Tail(up[p])]
  BY <1>1 DEF IInv, TypeOK, PromptInv, RelayDone, Events, Streamed, Statuses
<1>3. /\ Len(up[p]) = 1 /\ Tail(up[p]) = <<>> /\ DeltasIn(up[p]) = 0 /\ Ends(up[p])
      /\ Tail(up[p]) \in Seq(Events)
  BY <1>2, TailOfStream
<1>4. /\ up' \in [Prompts -> Seq(Events)] /\ up'[p] = <<>> /\ Len(up'[p]) = 0 /\ DeltasIn(up'[p]) = 0
      /\ \A q \in Prompts \ {p} : up'[q] = up[q]
  BY <1>2, <1>3, NoDeltas DEF IInv, TypeOK, Events
<1>5. Head(up[p]) = up[p][1]
  BY <1>2
<1>6. gw[p].pc = "ended" /\ Head(up[p]) = gw[p].status
  BY <1>1, <1>2, <1>3, <1>5 DEF PromptInv
<1>7. UNCHANGED <<gw, key, kafka, lost, faults>> /\ ws[p] = "relay" /\ told[p] = "none"
  BY <1>1 DEF RelayDone, record, PromptInv
<1>8. TypeOK'
  BY <1>2, <1>4, <1>7, DoneTyped DEF IInv, TypeOK, Events, Told, RelayDone
<1>9. \A q \in Prompts \ {p} : UNCHANGED PromptState(q)
  BY <1>4, <1>7 DEF IInv, TypeOK, PromptState, RelayDone, SendDone, Return
<1>10. shown[p] \in Nat /\ gw[p].text \in Nat /\ shown'[p] = shown[p]
  BY <1>7 DEF IInv, TypeOK, RelayDone, SendDone
<1>11. shown[p] <= gw[p].text /\ (here[p] => shown[p] = gw[p].text)
  BY <1>1, <1>3, <1>6, <1>7, <1>10 DEF PromptInv
<1>12. /\ ws'[p] = "ended" /\ ~open'[p]
       /\ IF here[p] THEN told'[p] = Head(up[p]) ELSE told'[p] = "none"
  BY <1>7 DEF RelayDone, SendDone, Return, IInv, TypeOK
<1>13. PromptInv(p)'
  BY <1>1, <1>4, <1>6, <1>7, <1>10, <1>11, <1>12 DEF PromptInv, Recorded, Answer, Statuses
<1> QED
  BY <1>8, <1>9, <1>13, Frame

(* The end of the workspace's part, with nothing told of a status. *)
LEMMA CutOff ==
    ASSUME IInv, NEW p \in Prompts, ws'[p] = "ended", ~open'[p],
           told'[p] = told[p] \/ told'[p] = "unavailable",
           told[p] = "none", UNCHANGED <<shown, up, gw, kafka, lost>>
    PROVE  PromptInv(p)'
<1>1. PromptInv(p)
  BY DEF IInv
<1> QED
  BY <1>1 DEF PromptInv, Recorded, Answer, Statuses

(* The stream ends early, or the candidate has left. *)
LEMMA RelayFailsInv == ASSUME IInv, NEW p \in Prompts, RelayFails(p) PROVE IInv'
<1>1. TypeOK'
  BY WorkspaceType DEF IInv
<1>2. \A q \in Prompts \ {p} : UNCHANGED PromptState(q)
  BY DEF IInv, TypeOK, RelayFails, SendDone, Return, PromptState, candidate, record
<1>3. told[p] = "none"
  BY DEF IInv, PromptInv, RelayFails
<1>4. /\ ws'[p] = "ended" /\ ~open'[p] /\ (told'[p] = told[p] \/ told'[p] = "unavailable")
      /\ UNCHANGED <<shown, up, gw, kafka, lost>>
  BY DEF IInv, TypeOK, RelayFails, SendDone, Return, record
<1>5. PromptInv(p)'
  BY <1>3, <1>4, CutOff
<1> QED
  BY <1>1, <1>2, <1>5, Frame

(* The workspace dies, and the candidate's connection with it. *)
LEMMA WorkspaceDiesInv == ASSUME IInv, NEW p \in Prompts, WorkspaceDies(p) PROVE IInv'
<1>1. TypeOK'
  BY WorkspaceType DEF IInv
<1>2. \A q \in Prompts \ {p} : UNCHANGED PromptState(q)
  BY DEF IInv, TypeOK, WorkspaceDies, Return, PromptState, record
<1>3. told[p] = "none"
  BY DEF IInv, PromptInv, WorkspaceDies
<1>4. /\ ws'[p] = "ended" /\ ~open'[p] /\ told'[p] = told[p]
      /\ UNCHANGED <<shown, up, gw, kafka, lost>>
  BY DEF IInv, TypeOK, WorkspaceDies, Return, record
<1>5. PromptInv(p)'
  BY <1>3, <1>4, CutOff
<1> QED
  BY <1>1, <1>2, <1>5, Frame

(* The candidate leaves. *)
LEMMA LeaveInv == ASSUME IInv, NEW p \in Prompts, Leave(p) PROVE IInv'
<1>1. TypeOK'
  BY WorkspaceType DEF IInv
<1>2. \A q \in Prompts \ {p} : UNCHANGED PromptState(q)
  BY DEF IInv, TypeOK, Leave, PromptState, record
<1>3. PromptInv(p)
  BY DEF IInv
<1>4. ~here'[p] /\ UNCHANGED <<shown, told, ws, open, up, gw, kafka, lost>>
  BY DEF IInv, TypeOK, Leave, record
<1>5. PromptInv(p)'
  BY <1>3, <1>4 DEF PromptInv, Recorded, Answer
<1> QED
  BY <1>1, <1>2, <1>5, Frame

(* Before the gateway has replied, its stream holds deltas only. *)
LEMMA DeltasOnly ==
    ASSUME IInv, NEW p \in Prompts, gw[p].pc # "ended"
    PROVE  up[p] \in Seq(Events) /\ \A k \in 1..Len(up[p]) : up[p][k] = "delta"
  BY DEF IInv, TypeOK, PromptInv, Events

(* The gateway gets on with a call, and nothing is sent or recorded. *)
LEMMA GwOnly ==
    ASSUME IInv, NEW p \in Prompts, gw[p].pc \in {"key", "stream"},
           gw' \in [Prompts -> GwRecord], key' \in [Prompts -> BOOLEAN],
           \A q \in Prompts \ {p} : gw'[q] = gw[q],
           gw'[p].pc \in {"stream", "emit"}, gw'[p].text = gw[p].text,
           gw'[p].pc = "emit" => gw'[p].status \in Statuses,
           UNCHANGED <<candidate, ws, open, up, record, faults>>
    PROVE  IInv'
<1>1. PromptInv(p)
  BY DEF IInv
<1>2. TypeOK'
  BY DEF IInv, TypeOK, candidate, record, GwRecord
<1>3. \A q \in Prompts \ {p} : UNCHANGED PromptState(q)
  BY DEF PromptState, candidate, record
<1>4. PromptInv(p)'
  BY <1>1 DEF PromptInv, Recorded, Answer, candidate, record
<1> QED
  BY <1>2, <1>3, <1>4, Frame

(* A failure has a status. *)
LEMMA FailedTyped == \A p : Failed(p) \in Statuses
  BY DEF Failed, Statuses

(* The key is resolved, or cannot be. *)
LEMMA ResolveKeyInv == ASSUME IInv, NEW p \in Prompts, resolveKey(p) PROVE IInv'
<1>1. CASE key' = [key EXCEPT ![p] = TRUE] /\ gw' = [gw EXCEPT ![p].pc = "stream"]
  <2>1. /\ gw' \in [Prompts -> GwRecord]
        /\ gw'[p].pc = "stream" /\ gw'[p].text = gw[p].text
        /\ \A q \in Prompts \ {p} : gw'[q] = gw[q]
    BY <1>1, GwGo DEF IInv, Pcs
  <2>2. key' \in [Prompts -> BOOLEAN]
    BY <1>1 DEF IInv, TypeOK
  <2> QED
    BY <2>1, <2>2, GwOnly DEF resolveKey
<1>2. CASE Finish(p, Failed(p))
  BY <1>2, FailedTyped, GwEnd, GwOnly DEF resolveKey, IInv
<1> QED
  BY <1>1, <1>2 DEF resolveKey

(* The provider's stream ends. *)
LEMMA StreamEndsInv == ASSUME IInv, NEW p \in Prompts, StreamEnds(p) PROVE IInv'
<1>1. PICK s \in {"completed", "truncated", "refused", Failed(p)} : Finish(p, s)
  BY DEF StreamEnds
<1>2. s \in Statuses
  BY FailedTyped DEF Statuses
<1> QED
  BY <1>1, <1>2, GwEnd, GwOnly DEF StreamEnds, IInv

(* A delta is kept and forwarded, or cannot be. *)
LEMMA DeltaInv == ASSUME IInv, NEW p \in Prompts, Delta(p) PROVE IInv'
<1>1. PromptInv(p) /\ TypeOK /\ gw[p] \in GwRecord
  BY DEF IInv, TypeOK, GwRecord
<1>2. gw[p].text \in Nat /\ gw[p].text + 1 \in 0..MaxDeltas
  BY <1>1, BoundsAssumption DEF GwRecord, Delta
<1>3. UNCHANGED <<candidate, ws, open, record, faults>> /\ gw[p].pc = "stream"
  BY DEF Delta
<1>4. up[p] \in Seq(Events) /\ \A k \in 1..Len(up[p]) : up[p][k] = "delta"
  BY <1>3, DeltasOnly
<1>5. shown[p] \in Nat /\ DeltasIn(up[p]) \in Int
  BY <1>1, <1>4 DEF TypeOK, DeltasIn, Ends
<1>6. CASE /\ gw' = [gw EXCEPT ![p].text = @ + 1]
           /\ up' = IF open[p] THEN [up EXCEPT ![p] = Append(@, "delta")] ELSE up
           /\ UNCHANGED key
  <2>1. [gw[p] EXCEPT !.text = @ + 1] \in GwRecord
    BY <1>1, <1>2 DEF GwRecord
  <2>2. gw' = [gw EXCEPT ![p] = [gw[p] EXCEPT !.text = @ + 1]]
    BY <1>1, <1>6 DEF TypeOK
  <2>3. /\ gw' \in [Prompts -> GwRecord]
        /\ gw'[p].pc = "stream" /\ gw'[p].text = gw[p].text + 1
        /\ \A q \in Prompts \ {p} : gw'[q] = gw[q]
    BY <1>1, <1>3, <2>1, <2>2 DEF TypeOK, GwRecord
  <2>4. /\ Append(up[p], "delta") \in Seq(Events)
        /\ \A k \in 1..Len(Append(up[p], "delta")) : Append(up[p], "delta")[k] = "delta"
        /\ DeltasIn(Append(up[p], "delta")) = DeltasIn(up[p]) + 1
    BY <1>4, AppendDelta
  <2>5. /\ up' \in [Prompts -> Seq(Events)]
        /\ \A q \in Prompts \ {p} : up'[q] = up[q]
        /\ up'[p] = IF open[p] THEN Append(up[p], "delta") ELSE up[p]
    BY <1>1, <1>6, <2>4 DEF TypeOK, Events
  <2>6. TypeOK'
    BY <1>1, <1>3, <1>6, <2>3, <2>5 DEF TypeOK, candidate, record, GwRecord, Events
  <2>7. \A q \in Prompts \ {p} : UNCHANGED PromptState(q)
    BY <1>3, <2>3, <2>5 DEF PromptState, candidate, record
  <2>8. /\ \A k \in 1..Len(up'[p]) : up'[p][k] = "delta"
        /\ DeltasIn(up'[p]) = IF open[p] THEN DeltasIn(up[p]) + 1 ELSE DeltasIn(up[p])
    BY <1>4, <2>4, <2>5
  <2>9. /\ shown[p] + DeltasIn(up'[p]) <= gw'[p].text
        /\ (shown[p] + DeltasIn(up[p]) = gw[p].text /\ open[p] => shown[p] + DeltasIn(up'[p]) = gw'[p].text)
    BY <1>1, <1>2, <1>5, <2>3, <2>8 DEF PromptInv
  <2>10. ~Ends(up'[p])
    <3>1. up'[p] \in Seq(Events)
      BY <2>5
    <3> QED
      BY <3>1, <2>8, NoEnd
  <2>11. PromptInv(p)'
    BY <1>1, <1>3, <2>3, <2>8, <2>9, <2>10 DEF PromptInv, Recorded, Answer, candidate, record
  <2> QED
    BY <2>6, <2>7, <2>11, Frame
<1>7. CASE /\ ~open[p]
           /\ gw' = [gw EXCEPT ![p] = [pc |-> "emit", text |-> gw[p].text + 1, status |-> "cancelled"]]
           /\ key' = [key EXCEPT ![p] = FALSE]
           /\ UNCHANGED up
  <2>1. [pc |-> "emit", text |-> gw[p].text + 1, status |-> "cancelled"] \in GwRecord
    BY <1>2 DEF GwRecord, Statuses
  <2>2. /\ gw' \in [Prompts -> GwRecord]
        /\ gw'[p].pc = "emit" /\ gw'[p].text = gw[p].text + 1 /\ gw'[p].status = "cancelled"
        /\ \A q \in Prompts \ {p} : gw'[q] = gw[q]
    BY <1>1, <1>7, <2>1 DEF TypeOK, GwRecord
  <2>3. key' \in [Prompts -> BOOLEAN]
    BY <1>1, <1>7 DEF TypeOK
  <2>4. TypeOK'
    BY <1>1, <1>3, <1>7, <2>2, <2>3 DEF TypeOK, candidate, record, GwRecord
  <2>5. \A q \in Prompts \ {p} : UNCHANGED PromptState(q)
    BY <1>3, <1>7, <2>2 DEF PromptState, candidate, record
  <2>6. shown[p] + DeltasIn(up[p]) <= gw'[p].text
    BY <1>1, <1>2, <1>5, <2>2 DEF PromptInv
  <2>7. ~Ends(up[p])
    BY <1>4, NoEnd
  <2>8. PromptInv(p)'
    BY <1>1, <1>3, <1>7, <2>2, <2>6, <2>7 DEF PromptInv, Recorded, Answer, candidate, record, Statuses
  <2> QED
    BY <2>4, <2>5, <2>8, Frame
<1> QED
  BY <1>6, <1>7 DEF Delta

(* The answer, as it would be recorded, has the record's type. *)
LEMMA AnswerTyped ==
    ASSUME TypeOK, NEW p \in Prompts
    PROVE  [kafka EXCEPT ![p] = Answer(p)]
             \in [Prompts -> [text : 0..MaxDeltas, status : Statuses \cup {"none"}]]
  BY DEF TypeOK, Answer

(* The write of the record returns, with the record there or with an error. *)
LEMMA GwWritten ==
    ASSUME IInv, NEW p \in Prompts, gw[p].pc = "emit", Replying(p),
           \/ kafka' = [kafka EXCEPT ![p] = Answer(p)]
           \/ UNCHANGED kafka /\ lost'[p],
           lost' = lost \/ lost' = [lost EXCEPT ![p] = TRUE],
           faults' \in 0..MaxFaults,
           UNCHANGED <<candidate, ws, open, up, key>>
    PROVE  IInv'
<1>1. PromptInv(p) /\ TypeOK
  BY DEF IInv
<1>2. /\ gw' \in [Prompts -> GwRecord]
      /\ gw'[p].pc = "reply" /\ gw'[p].text = gw[p].text /\ gw'[p].status = gw[p].status
      /\ \A q \in Prompts \ {p} : gw'[q] = gw[q]
  BY <1>1, GwGo DEF Pcs, Replying
<1>3. kafka' \in [Prompts -> [text : 0..MaxDeltas, status : Statuses \cup {"none"}]]
  <2>1. [kafka EXCEPT ![p] = Answer(p)] \in [Prompts -> [text : 0..MaxDeltas, status : Statuses \cup {"none"}]]
    BY <1>1, AnswerTyped
  <2>2. kafka \in [Prompts -> [text : 0..MaxDeltas, status : Statuses \cup {"none"}]]
    BY <1>1 DEF TypeOK
  <2> QED
    BY <2>1, <2>2, Zenon
<1>4. lost' \in [Prompts -> BOOLEAN]
  BY <1>1 DEF TypeOK
<1>5. TypeOK'
  BY <1>1, <1>2, <1>3, <1>4 DEF TypeOK, candidate, GwRecord
<1>6. \A q \in Prompts \ {p} : UNCHANGED PromptState(q)
  BY <1>1, <1>2 DEF TypeOK, PromptState, candidate
<1>7. kafka'[p] = Answer(p) \/ (kafka'[p] = NoRecord /\ lost'[p])
  BY <1>1 DEF TypeOK, PromptInv
<1>8. Answer(p) # NoRecord /\ gw[p].status \in Statuses
  BY <1>1 DEF PromptInv, Answer, NoRecord, Statuses
<1>9. Answer(p)' = Answer(p)
  BY <1>2 DEF Answer
<1>10. PromptInv(p)'
  BY <1>1, <1>2, <1>7, <1>8, <1>9 DEF PromptInv, Recorded, candidate
<1> QED
  BY <1>5, <1>6, <1>10, Frame

(* The completion is recorded. *)
LEMMA EmitInv == ASSUME IInv, NEW p \in Prompts, Emit(p) PROVE IInv'
  BY GwWritten DEF Emit, EmitCancelled, Answer, IInv, TypeOK

(* The record's write fails. *)
LEMMA EmitFailsInv == ASSUME IInv, NEW p \in Prompts, EmitFails(p) PROVE IInv'
<1>1. faults' \in 0..MaxFaults
  BY FaultTyped DEF EmitFails, IInv
<1>2. lost'[p]
  BY DEF EmitFails, IInv, TypeOK
<1> QED
  BY <1>1, <1>2, GwWritten DEF EmitFails, Answer

(* The done event follows the record. *)
LEMMA ReplyInv == ASSUME IInv, NEW p \in Prompts, Reply(p) PROVE IInv'
<1>1. PromptInv(p) /\ TypeOK
  BY DEF IInv
<1>2. /\ gw' \in [Prompts -> GwRecord]
      /\ gw'[p].pc = "ended" /\ gw'[p].text = gw[p].text /\ gw'[p].status = gw[p].status
      /\ \A q \in Prompts \ {p} : gw'[q] = gw[q]
  BY <1>1, GwGo DEF Pcs, Reply
<1>3. /\ UNCHANGED <<candidate, ws, open, key, record, faults>>
      /\ gw[p].pc = "reply" /\ gw[p].status \in Statuses
  BY <1>1 DEF Reply, PromptInv
<1>4. up[p] \in Seq(Events) /\ \A k \in 1..Len(up[p]) : up[p][k] = "delta"
  BY <1>3, DeltasOnly
<1>5. LET u == Append(up[p], gw[p].status)
      IN  /\ u \in Seq(Events)
          /\ \A k \in 1..Len(u) : u[k] # "delta" => k = Len(u) /\ u[k] = gw[p].status
          /\ DeltasIn(u) = DeltasIn(up[p])
  BY <1>3, <1>4, AppendStatus
<1>6. /\ up' \in [Prompts -> Seq(Events)]
      /\ \A q \in Prompts \ {p} : up'[q] = up[q]
      /\ up'[p] = IF open[p] THEN Append(up[p], gw[p].status) ELSE up[p]
  BY <1>1, <1>5 DEF TypeOK, Events, Reply
<1>7. TypeOK'
  BY <1>1, <1>2, <1>3, <1>6 DEF TypeOK, candidate, record, GwRecord, Events
<1>8. \A q \in Prompts \ {p} : UNCHANGED PromptState(q)
  BY <1>2, <1>3, <1>6 DEF PromptState, candidate, record
<1>9. /\ \A k \in 1..Len(up'[p]) :
            up'[p][k] # "delta" => k = Len(up'[p]) /\ up'[p][k] = gw'[p].status
      /\ DeltasIn(up'[p]) = DeltasIn(up[p])
  BY <1>2, <1>4, <1>5, <1>6
<1>10. Ends(up'[p]) => open[p]
  BY <1>4, <1>6, NoEnd
<1>11. PromptInv(p)'
  BY <1>1, <1>2, <1>3, <1>9, <1>10 DEF PromptInv, Recorded, Answer, candidate, record, Statuses
<1> QED
  BY <1>7, <1>8, <1>11, Frame

(* The gateway dies, and some of what it sent may be lost. *)
LEMMA GatewayDiesInv == ASSUME IInv, NEW p \in Prompts, GatewayDies(p) PROVE IInv'
<1>1. PromptInv(p) /\ TypeOK
  BY DEF IInv
<1>2. /\ gw' \in [Prompts -> GwRecord]
      /\ gw'[p].pc = "dead" /\ gw'[p].text = gw[p].text /\ gw'[p].status = gw[p].status
      /\ \A q \in Prompts \ {p} : gw'[q] = gw[q]
  BY <1>1, GwGo DEF Pcs, GatewayDies
<1>3. /\ UNCHANGED <<candidate, ws, kafka>> /\ faults' \in 0..MaxFaults
      /\ gw[p].pc \notin {"idle", "ended", "dead"}
  BY <1>1, FaultTyped DEF GatewayDies
<1>4. up[p] \in Seq(Events) /\ \A k \in 1..Len(up[p]) : up[p][k] = "delta"
  BY <1>3, DeltasOnly
<1>5. PICK n \in 0..Len(up[p]) : up' = [up EXCEPT ![p] = SubSeq(up[p], 1, n)]
  BY DEF GatewayDies
<1>6. /\ SubSeq(up[p], 1, n) \in Seq(Events)
      /\ \A k \in 1..Len(SubSeq(up[p], 1, n)) : SubSeq(up[p], 1, n)[k] = "delta"
      /\ DeltasIn(SubSeq(up[p], 1, n)) <= DeltasIn(up[p])
  BY <1>4, PartOfStream
<1>7. /\ up' \in [Prompts -> Seq(Events)]
      /\ \A q \in Prompts \ {p} : up'[q] = up[q]
      /\ up'[p] = SubSeq(up[p], 1, n)
  BY <1>1, <1>5, <1>6 DEF TypeOK, Events
<1>8. key' \in [Prompts -> BOOLEAN] /\ open' \in [Prompts -> BOOLEAN] /\ lost' \in [Prompts -> BOOLEAN]
  BY <1>1 DEF TypeOK, GatewayDies
<1>9. TypeOK'
  BY <1>1, <1>2, <1>3, <1>7, <1>8 DEF TypeOK, candidate, GwRecord, Events
<1>10. \A q \in Prompts \ {p} : UNCHANGED PromptState(q)
  BY <1>1, <1>2, <1>3, <1>7 DEF TypeOK, PromptState, candidate, GatewayDies
<1>11. ~open'[p]
  BY <1>1 DEF TypeOK, GatewayDies
<1>12. shown[p] \in Nat /\ DeltasIn(up[p]) \in Int /\ DeltasIn(up'[p]) \in Int /\ gw[p].text \in Nat
  BY <1>1, <1>4, <1>6, <1>7 DEF TypeOK, DeltasIn, Ends
<1>13. shown[p] + DeltasIn(up'[p]) <= gw[p].text
  BY <1>1, <1>6, <1>7, <1>12 DEF PromptInv
<1>14. \A k \in 1..Len(up'[p]) : up'[p][k] = "delta"
  BY <1>6, <1>7
<1>15. ~Ends(up'[p])
  <2>1. up'[p] \in Seq(Events)
    BY <1>7
  <2> QED
    BY <2>1, <1>14, NoEnd
<1>16. PromptInv(p)'
  BY <1>1, <1>2, <1>3, <1>11, <1>13, <1>14, <1>15 DEF PromptInv, Recorded, Answer, candidate, Statuses
<1> QED
  BY <1>9, <1>10, <1>16, Frame

(* The connection between the two breaks, and some of what was on its way  *)
(* is lost: the done event only arrives behind all of the answer.          *)
LEMMA StreamBreaksInv == ASSUME IInv, NEW p \in Prompts, StreamBreaks(p) PROVE IInv'
<1>1. PromptInv(p) /\ TypeOK
  BY DEF IInv
<1>2. /\ UNCHANGED <<candidate, ws, gw, key, record>> /\ faults' \in 0..MaxFaults /\ open[p]
      /\ open' \in [Prompts -> BOOLEAN] /\ ~open'[p]
      /\ \A q \in Prompts \ {p} : open'[q] = open[q]
  BY <1>1, FaultTyped DEF TypeOK, StreamBreaks
<1>3. up[p] \in Seq(Events) /\ Streamed(up[p])
  BY <1>1 DEF TypeOK, PromptInv, Events, Streamed
<1>4. PICK n \in 0..Len(up[p]) : up' = [up EXCEPT ![p] = SubSeq(up[p], 1, n)]
  BY DEF StreamBreaks
<1>5. PICK u : u = SubSeq(up[p], 1, n)
  OBVIOUS
<1>6. /\ u \in Seq(Events) /\ Len(u) = n
      /\ \A k \in 1..n : u[k] = up[p][k]
      /\ DeltasIn(u) <= DeltasIn(up[p])
      /\ Ends(u) => Ends(up[p]) /\ n = Len(up[p]) /\ DeltasIn(u) = DeltasIn(up[p])
  BY <1>3, <1>5, CutStream
<1>7. /\ up' \in [Prompts -> Seq(Events)] /\ up'[p] = u
      /\ \A q \in Prompts \ {p} : up'[q] = up[q]
  BY <1>1, <1>4, <1>5, <1>6 DEF TypeOK, Events
<1>8. TypeOK'
  BY <1>1, <1>2, <1>7 DEF TypeOK, candidate, record, Events
<1>9. \A q \in Prompts \ {p} : UNCHANGED PromptState(q)
  BY <1>2, <1>7 DEF PromptState, candidate, record
<1>10. shown[p] \in Nat /\ DeltasIn(up[p]) \in Int /\ DeltasIn(u) \in Int /\ gw[p].text \in Nat
  BY <1>1, <1>3, <1>6 DEF TypeOK, DeltasIn
<1>11. /\ shown[p] + DeltasIn(u) <= gw[p].text
       /\ ws[p] = "relay" /\ here[p] /\ Ends(u) => shown[p] + DeltasIn(u) = gw[p].text
  BY <1>1, <1>6, <1>10 DEF PromptInv
<1>12. \A k \in 1..Len(u) : u[k] # "delta" => k = Len(u) /\ gw[p].pc = "ended" /\ u[k] = gw[p].status
  <2> SUFFICES ASSUME NEW k \in 1..Len(u), u[k] # "delta"
               PROVE  k = Len(u) /\ gw[p].pc = "ended" /\ u[k] = gw[p].status
    OBVIOUS
  <2>1. k \in 1..n /\ k \in 1..Len(up[p]) /\ u[k] = up[p][k] /\ n <= Len(up[p])
    BY <1>3, <1>6
  <2>2. k = Len(up[p]) /\ gw[p].pc = "ended" /\ up[p][k] = gw[p].status
    BY <1>1, <2>1 DEF PromptInv
  <2> QED
    BY <1>3, <1>6, <2>1, <2>2
<1>13. gw[p].pc # "idle"
  BY <1>1, <1>2 DEF PromptInv
<1>14. PromptInv(p)'
  BY <1>1, <1>2, <1>7, <1>11, <1>12, <1>13 DEF PromptInv, Recorded, Answer, candidate, record
<1> QED
  BY <1>8, <1>9, <1>14, Frame

-----------------------------------------------------------------------------
(* The theorems.                                                           *)

(* The invariant holds at first. *)
LEMMA InitInv == Init => IInv
<1> SUFFICES ASSUME Init PROVE IInv
  OBVIOUS
<1>1. TypeOK
  BY InitType
<1>2. ASSUME NEW p \in Prompts PROVE PromptInv(p)
  <2>1. /\ up[p] = <<>> /\ Len(up[p]) = 0 /\ DeltasIn(up[p]) = 0
        /\ gw[p].pc = "idle" /\ gw[p].text = 0
    BY NoDeltas DEF Init, Idle
  <2> QED
    BY <2>1 DEF Init, PromptInv, Recorded, Statuses
<1> QED
  BY <1>1, <1>2 DEF IInv

(* Every step keeps it. *)
LEMMA StepInv == IInv /\ [Next]_vars => IInv'
<1> SUFFICES ASSUME IInv, [Next]_vars PROVE IInv'
  OBVIOUS
<1>1. ASSUME NEW p \in Prompts, Workspace(p) PROVE IInv'
  BY <1>1, SubmitInv, AcceptedInv, CallInv, RelayDeltaInv, RelayDoneInv, RelayFailsInv DEF Workspace
<1>2. ASSUME NEW p \in Prompts, Gateway(p) PROVE IInv'
  BY <1>2, ResolveKeyInv, StreamEndsInv, EmitInv, ReplyInv DEF Gateway
<1>3. CASE UNCHANGED vars
  BY <1>3 DEF IInv, TypeOK, PromptInv, Recorded, Answer, vars
<1> QED
  BY <1>1, <1>2, <1>3, DeltaInv, LeaveInv, CallFailsInv, WorkspaceDiesInv, EmitFailsInv, GatewayDiesInv,
     StreamBreaksInv DEF Next

(* Every variable of the two chained streams keeps its type: an answer     *)
(* never shows more deltas than the provider may send.                     *)
THEOREM TypeCorrect == Spec => []TypeOK
<1>1. IInv => TypeOK
  BY DEF IInv
<1> QED
  BY <1>1, InitInv, StepInv, PTL DEF Spec

(* The invariant that ToldIsRecorded rests on. *)
THEOREM PromptInvariant == Spec => []IInv
  BY InitInv, StepInv, PTL DEF Spec

(* The candidate and the record agree on how an answer ended and what it   *)
(* said, whoever leaves, dies or fails to write.                           *)
THEOREM Agreement == Spec => []ToldIsRecorded
<1>1. IInv => ToldIsRecorded
  <2> SUFFICES ASSUME IInv, NEW p \in Prompts
               PROVE  /\ told[p] \in Statuses =>
                            \/ kafka[p] = [text |-> shown[p], status |-> told[p]]
                            \/ lost[p] /\ ~Recorded(p)
                      /\ Recorded(p) => shown[p] <= kafka[p].text
    BY DEF ToldIsRecorded
  <2>1. PromptInv(p)
    BY DEF IInv
  <2>2. told[p] \in Statuses => kafka[p] = [text |-> shown[p], status |-> told[p]] \/ (lost[p] /\ ~Recorded(p))
    BY <2>1 DEF PromptInv, Answer
  <2>3. up[p] \in Seq(Events) /\ DeltasIn(up[p]) \in Nat /\ shown[p] \in Nat /\ gw[p].text \in Nat
    BY DEF IInv, TypeOK, Events, DeltasIn, Ends
  <2>4. Recorded(p) => kafka[p].text = gw[p].text
    BY <2>1 DEF PromptInv, Answer
  <2>5. shown[p] <= gw[p].text
    BY <2>1, <2>3 DEF PromptInv
  <2> QED
    BY <2>2, <2>4, <2>5
<1> QED
  BY <1>1, InitInv, StepInv, PTL DEF Spec

-----------------------------------------------------------------------------
(* WorkspaceEditor.  Induction over the naturals.                          *)

(* A set of naturals that is not empty has a least member. *)
LEMMA LeastMember ==
    ASSUME NEW R, \A n \in R : n \in Nat, R # {}
    PROVE  \E n \in R : \A m \in R : n <= m
<1> DEFINE Less == OpToRel(<, Nat)
<1>1. IsWellFoundedOn(Less, Nat)
  BY NatLessThanWellFounded
<1>2. \A x, y \in Nat : <<y, x>> \in Less <=> y < x
  BY DEF OpToRel
<1> HIDE DEF Less
<1>3. PICK x \in R : \A y \in R : ~(<<y, x>> \in Less)
  BY <1>1, WFMin
<1>4. ASSUME NEW y \in R PROVE x <= y
  <2>1. x \in Nat /\ y \in Nat
    OBVIOUS
  <2>2. ~(<<y, x>> \in Less)
    BY <1>3
  <2>3. ~(y < x)
    BY <1>2, <2>1, <2>2, Zenon
  <2> QED
    BY <2>1, <2>3
<1> QED
  BY <1>4

(* A set that holds 0, and n + 1 whenever it holds n, holds every natural. *)
LEMMA Induction ==
    ASSUME NEW P, 0 \in P, \A n \in Nat : n \in P => n + 1 \in P
    PROVE  Nat \subseteq P
<1> SUFFICES ASSUME Nat \ P # {} PROVE FALSE
  OBVIOUS
<1>1. PICK n \in Nat \ P : \A m \in Nat \ P : n <= m
  BY LeastMember
<1>2. n - 1 \in Nat /\ n - 1 < n
  BY <1>1
<1>3. n - 1 \in P
  BY <1>1, <1>2
<1>4. (n - 1) + 1 \in P
  BY <1>2, <1>3
<1>5. (n - 1) + 1 = n
  BY <1>1
<1> QED
  BY <1>1, <1>4, <1>5

-----------------------------------------------------------------------------
(* Patches.                                                                *)

KeptAfter(m, K, N, g) ==
    g = [n \in 0..N |-> IF n = 0 THEN <<>> ELSE Keep(g[n - 1], K, m[n])]

(* What is kept of the first n lines exists. *)
LEMMA KeptExists ==
    ASSUME NEW m, NEW K, NEW N \in Nat
    PROVE  \E g : KeptAfter(m, K, N, g)
<1> DEFINE P == {n \in Nat : \E g : KeptAfter(m, K, n, g)}
<1>1. 0 \in P
  <2>1. KeptAfter(m, K, 0, [n \in 0..0 |-> <<>>])
    BY DEF KeptAfter
  <2> QED
    BY <2>1
<1>2. ASSUME NEW n \in Nat, n \in P PROVE n + 1 \in P
  <2>1. PICK g : KeptAfter(m, K, n, g)
    BY <1>2
  <2> DEFINE y == Keep(g[n], K, m[n + 1])
             h == [i \in 0..(n + 1) |-> IF i = n + 1 THEN y ELSE g[i]]
  <2>2. \A i \in 0..n : g[i] = IF i = 0 THEN <<>> ELSE Keep(g[i - 1], K, m[i])
    BY <2>1 DEF KeptAfter
  <2>3. \A i \in 0..n : h[i] = g[i]
    OBVIOUS
  <2>4. h[n + 1] = y
    OBVIOUS
  <2>5. ASSUME NEW i \in 0..(n + 1) PROVE h[i] = IF i = 0 THEN <<>> ELSE Keep(h[i - 1], K, m[i])
    <3> HIDE DEF h
    <3>1. CASE i = n + 1
      <4>1. i # 0 /\ i - 1 = n /\ n \in 0..n
        BY <3>1
      <4>2. h[i - 1] = g[n]
        BY <2>3, <4>1
      <4> QED
        BY <2>4, <3>1, <4>1, <4>2
    <3>2. CASE i = 0
      <4>1. i \in 0..n
        BY <3>2
      <4> QED
        BY <2>2, <2>3, <3>2, <4>1
    <3>3. CASE i \in 1..n
      <4>1. i \in 0..n /\ i - 1 \in 0..n /\ i # 0
        BY <3>3
      <4> QED
        BY <2>2, <2>3, <4>1
    <3> QED
      BY <3>1, <3>2, <3>3
  <2>6. h = [i \in 0..(n + 1) |-> h[i]]
    OBVIOUS
  <2> HIDE DEF h
  <2>7. KeptAfter(m, K, n + 1, h)
    BY <2>5, <2>6 DEF KeptAfter
  <2> QED
    BY <2>7
<1>3. Nat \subseteq P
  <2> HIDE DEF P
  <2> QED
    BY <1>1, <1>2, Induction
<1> QED
  BY <1>3

(* Lines are kept one by one. *)
LEMMA KeptSteps ==
    ASSUME NEW m, Len(m) \in Nat, NEW K
    PROVE  \E g : /\ g[0] = <<>> /\ \A n \in 1..Len(m) : g[n] = Keep(g[n - 1], K, m[n])
                 /\ OfKind(m, K) = g[Len(m)]
<1>1. PICK g : g = CHOOSE h : KeptAfter(m, K, Len(m), h)
  OBVIOUS
<1>2. KeptAfter(m, K, Len(m), g)
  BY <1>1, KeptExists
<1>3. OfKind(m, K) = g[Len(m)]
  BY <1>1 DEF OfKind, KeptAfter
<1>4. \A n \in 0..Len(m) : g[n] = IF n = 0 THEN <<>> ELSE Keep(g[n - 1], K, m[n])
  BY <1>2 DEF KeptAfter
<1>5. \A n \in 1..Len(m) : n \in 0..Len(m) /\ n # 0
  OBVIOUS
<1>6. 0 \in 0..Len(m)
  OBVIOUS
<1> QED
  BY <1>3, <1>4, <1>5, <1>6

(* A further line is kept or not. *)
LEMMA KeptAppend ==
    ASSUME NEW R, NEW m \in Seq(R), NEW r \in R, NEW K
    PROVE  OfKind(Append(m, r), K) = Keep(OfKind(m, K), K, r)
<1>1. PICK l : l = Append(m, r)
  OBVIOUS
<1>2. l \in Seq(R) /\ Len(m) \in Nat /\ Len(l) \in Nat /\ Len(l) = Len(m) + 1 /\ l[Len(m) + 1] = r /\ \A n \in 1..Len(m) : l[n] = m[n]
  BY <1>1
<1>a. PICK g : /\ g[0] = <<>> /\ \A n \in 1..Len(l) : g[n] = Keep(g[n - 1], K, l[n])
               /\ OfKind(l, K) = g[Len(l)]
  BY <1>2, KeptSteps
<1>b. PICK h : /\ h[0] = <<>> /\ \A n \in 1..Len(m) : h[n] = Keep(h[n - 1], K, m[n])
               /\ OfKind(m, K) = h[Len(m)]
  BY <1>2, KeptSteps
<1> DEFINE P == {n \in Nat : n <= Len(m) => g[n] = h[n]}
<1>3. 0 \in P
  BY <1>2, <1>a, <1>b
<1>4. ASSUME NEW n \in Nat, n \in P PROVE n + 1 \in P
  <2> SUFFICES ASSUME n + 1 <= Len(m) PROVE g[n + 1] = h[n + 1]
    OBVIOUS
  <2>1. n + 1 \in 1..Len(m) /\ n + 1 \in 1..Len(l) /\ (n + 1) - 1 = n /\ n <= Len(m)
    BY <1>2
  <2>2. g[n + 1] = Keep(g[n], K, l[n + 1])
    BY <2>1, <1>a
  <2>3. h[n + 1] = Keep(h[n], K, m[n + 1])
    BY <2>1, <1>b
  <2> QED
    BY <1>2, <1>4, <2>1, <2>2, <2>3
<1>5. Nat \subseteq P
  <2> HIDE DEF P
  <2> QED
    BY <1>3, <1>4, Induction
<1>6. g[Len(m)] = h[Len(m)]
  BY <1>2, <1>5
<1>7. Len(m) + 1 \in 1..Len(l) /\ (Len(m) + 1) - 1 = Len(m)
  BY <1>2
<1>8. g[Len(m) + 1] = Keep(g[Len(m)], K, r)
  BY <1>2, <1>7, <1>a
<1> QED
  BY <1>1, <1>2, <1>6, <1>8, <1>a, <1>b

(* Nothing is kept of nothing. *)
LEMMA KeptEmpty == ASSUME NEW K PROVE OfKind(<<>>, K) = <<>>
<1>1. Len(<<>>) = 0 /\ Len(<<>>) \in Nat
  OBVIOUS
<1> QED
  BY <1>1, KeptSteps

(* Every sequence that is not empty is an Append. *)
LEMMA IsAppend ==
    ASSUME NEW R, NEW m \in Seq(R), NEW n \in Nat, Len(m) = n + 1
    PROVE  \E f \in Seq(R), r \in R : m = Append(f, r) /\ Len(f) = n
<1> DEFINE f == [i \in 1..n |-> m[i]]
<1>1. f \in Seq(R) /\ Len(f) = n /\ m[n + 1] \in R
  OBVIOUS
<1>2. m = Append(f, m[n + 1])
  <2>1. Append(f, m[n + 1]) \in Seq(R) /\ Len(Append(f, m[n + 1])) = n + 1
    BY <1>1
  <2>2. ASSUME NEW i \in 1..(n + 1) PROVE m[i] = Append(f, m[n + 1])[i]
    <3>1. i \in 1..n \/ i = n + 1
      OBVIOUS
    <3> QED
      BY <1>1, <3>1
  <2> QED
    BY <2>1, <2>2, SeqEqual
<1> QED
  BY <1>1, <1>2

(* What is kept of a sequence are lines of it. *)
LEMMA KeptTyped ==
    ASSUME NEW R, NEW m \in Seq(R), NEW K
    PROVE  OfKind(m, K) \in Seq(R)
<1> DEFINE P == {n \in Nat : \A l \in Seq(R) : Len(l) = n => OfKind(l, K) \in Seq(R)}
<1>1. 0 \in P
  <2>1. ASSUME NEW l \in Seq(R), Len(l) = 0 PROVE OfKind(l, K) \in Seq(R)
    <3>1. l = <<>>
      BY <2>1
    <3> QED
      BY <3>1, KeptEmpty
  <2> QED
    BY <2>1
<1>2. ASSUME NEW n \in Nat, n \in P PROVE n + 1 \in P
  <2>1. ASSUME NEW l \in Seq(R), Len(l) = n + 1 PROVE OfKind(l, K) \in Seq(R)
    <3>1. PICK f \in Seq(R), r \in R : l = Append(f, r) /\ Len(f) = n
      BY <2>1, IsAppend, ZenonT(40)
    <3>2. OfKind(f, K) \in Seq(R)
      BY <1>2, <3>1
    <3>3. OfKind(l, K) = Keep(OfKind(f, K), K, r)
      BY <3>1, KeptAppend
    <3>4. Append(OfKind(f, K), r) \in Seq(R)
      BY <3>2
    <3> QED
      BY <3>2, <3>3, <3>4 DEF Keep
  <2> QED
    BY <2>1
<1>3. Nat \subseteq P
  <2> HIDE DEF P
  <2> QED
    BY <1>1, <1>2, Induction
<1> QED
  BY <1>3

(* What is kept of two sequences, one after the other. *)
LEMMA KeptConcat ==
    ASSUME NEW R, NEW a \in Seq(R), NEW b \in Seq(R), NEW K
    PROVE  OfKind(a \o b, K) = OfKind(a, K) \o OfKind(b, K)
<1> DEFINE P == {n \in Nat : \A l \in Seq(R) : Len(l) = n => OfKind(a \o l, K) = OfKind(a, K) \o OfKind(l, K)}
<1>a. OfKind(a, K) \in Seq(R)
  BY KeptTyped
<1>1. 0 \in P
  <2>1. ASSUME NEW l \in Seq(R), Len(l) = 0 PROVE OfKind(a \o l, K) = OfKind(a, K) \o OfKind(l, K)
    <3>1. l = <<>> /\ a \o <<>> = a /\ OfKind(<<>>, K) = <<>> /\ OfKind(a, K) \o <<>> = OfKind(a, K)
      BY <1>a, <2>1, KeptEmpty
    <3> QED
      BY <3>1
  <2> QED
    BY <2>1
<1>2. ASSUME NEW n \in Nat, n \in P PROVE n + 1 \in P
  <2>1. ASSUME NEW l \in Seq(R), Len(l) = n + 1 PROVE OfKind(a \o l, K) = OfKind(a, K) \o OfKind(l, K)
    <3>1. PICK f \in Seq(R), r \in R : l = Append(f, r) /\ Len(f) = n
      BY <2>1, IsAppend, ZenonT(40)
    <3>2. OfKind(a \o f, K) = OfKind(a, K) \o OfKind(f, K) /\ OfKind(f, K) \in Seq(R) /\ a \o f \in Seq(R)
      BY <1>2, <3>1, KeptTyped
    <3>3. a \o l = Append(a \o f, r)
      BY <3>1
    <3>4. OfKind(a \o l, K) = Keep(OfKind(a \o f, K), K, r) /\ OfKind(l, K) = Keep(OfKind(f, K), K, r)
      BY <3>1, <3>2, <3>3, KeptAppend
    <3>5. OfKind(a, K) \o Append(OfKind(f, K), r) = Append(OfKind(a, K) \o OfKind(f, K), r)
      BY <1>a, <3>2
    <3> QED
      BY <3>2, <3>4, <3>5 DEF Keep
  <2> QED
    BY <2>1
<1>3. Nat \subseteq P
  <2> HIDE DEF P
  <2> QED
    BY <1>1, <1>2, Induction
<1> QED
  BY <1>3

JoinedAfter(m, N, g) ==
    g = [n \in 1..N |-> IF n = 1 THEN m[n] ELSE g[n - 1] \o m[n]]

(* What the first n pieces make exists. *)
LEMMA JoinedExists ==
    ASSUME NEW m, NEW N \in Nat
    PROVE  \E g : JoinedAfter(m, N, g)
<1> DEFINE P == {n \in Nat : \E g : JoinedAfter(m, n, g)}
<1>1. 0 \in P
  <2>1. JoinedAfter(m, 0, [n \in 1..0 |-> <<>>])
    BY DEF JoinedAfter
  <2> QED
    BY <2>1
<1>2. ASSUME NEW n \in Nat, n \in P PROVE n + 1 \in P
  <2>1. PICK g : JoinedAfter(m, n, g)
    BY <1>2
  <2> DEFINE y == IF n = 0 THEN m[n + 1] ELSE g[n] \o m[n + 1]
             h == [i \in 1..(n + 1) |-> IF i = n + 1 THEN y ELSE g[i]]
  <2>2. \A i \in 1..n : g[i] = IF i = 1 THEN m[i] ELSE g[i - 1] \o m[i]
    BY <2>1 DEF JoinedAfter
  <2>3. \A i \in 1..n : h[i] = g[i]
    OBVIOUS
  <2>4. h[n + 1] = y
    OBVIOUS
  <2>5. ASSUME NEW i \in 1..(n + 1) PROVE h[i] = IF i = 1 THEN m[i] ELSE h[i - 1] \o m[i]
    <3> HIDE DEF h
    <3>1. CASE i = n + 1
      <4>1. CASE n = 0
        BY <2>4, <3>1, <4>1
      <4>2. CASE n # 0
        <5>1. i # 1 /\ i - 1 = n /\ n \in 1..n
          BY <3>1, <4>2
        <5>2. h[i - 1] = g[n]
          BY <2>3, <5>1
        <5> QED
          BY <2>4, <3>1, <4>2, <5>1, <5>2
      <4> QED
        BY <4>1, <4>2
    <3>2. CASE i = 1 /\ i # n + 1
      <4>1. i \in 1..n
        BY <3>2
      <4> QED
        BY <2>2, <2>3, <3>2, <4>1
    <3>3. CASE i \in 2..n
      <4>1. i \in 1..n /\ i - 1 \in 1..n /\ i # 1
        BY <3>3
      <4> QED
        BY <2>2, <2>3, <4>1
    <3> QED
      BY <3>1, <3>2, <3>3
  <2>6. h = [i \in 1..(n + 1) |-> h[i]]
    OBVIOUS
  <2> HIDE DEF h
  <2>7. JoinedAfter(m, n + 1, h)
    BY <2>5, <2>6 DEF JoinedAfter
  <2> QED
    BY <2>7
<1>3. Nat \subseteq P
  <2> HIDE DEF P
  <2> QED
    BY <1>1, <1>2, Induction
<1> QED
  BY <1>3

(* Pieces are joined one by one. *)
LEMMA JoinedSteps ==
    ASSUME NEW m, Len(m) \in Nat, Len(m) # 0
    PROVE  \E g : /\ g[1] = m[1] /\ \A n \in 2..Len(m) : g[n] = g[n - 1] \o m[n]
                 /\ FlattenSeq(m) = g[Len(m)]
<1>1. PICK g : g = CHOOSE h : JoinedAfter(m, Len(m), h)
  OBVIOUS
<1>2. JoinedAfter(m, Len(m), g)
  BY <1>1, JoinedExists
<1>3. FlattenSeq(m) = g[Len(m)]
  BY <1>1 DEF FlattenSeq, JoinedAfter
<1>4. \A n \in 1..Len(m) : g[n] = IF n = 1 THEN m[n] ELSE g[n - 1] \o m[n]
  BY <1>2 DEF JoinedAfter
<1>5. \A n \in 2..Len(m) : n \in 1..Len(m) /\ n # 1
  OBVIOUS
<1>6. 1 \in 1..Len(m)
  OBVIOUS
<1> QED
  BY <1>3, <1>4, <1>5, <1>6

(* A further piece follows the others. *)
LEMMA JoinedAppend ==
    ASSUME NEW R, NEW m \in Seq(Seq(R)), NEW r \in Seq(R)
    PROVE  FlattenSeq(Append(m, r)) = FlattenSeq(m) \o r
<1>1. PICK l : l = Append(m, r)
  OBVIOUS
<1>2. /\ l \in Seq(Seq(R)) /\ Len(m) \in Nat /\ Len(l) \in Nat /\ Len(l) = Len(m) + 1 /\ l[Len(m) + 1] = r
      /\ \A n \in 1..Len(m) : l[n] = m[n]
  BY <1>1
<1>a. PICK g : /\ g[1] = l[1] /\ \A n \in 2..Len(l) : g[n] = g[n - 1] \o l[n]
               /\ FlattenSeq(l) = g[Len(l)]
  <2>1. Len(l) \in Nat /\ Len(l) # 0
    BY <1>2
  <2> QED
    BY <2>1, JoinedSteps
<1>b. CASE Len(m) = 0
  <2>1. FlattenSeq(m) = m /\ m = <<>>
    BY <1>b DEF FlattenSeq
  <2>2. FlattenSeq(l) = r
    BY <1>2, <1>a, <1>b
  <2>3. <<>> \o r = r
    OBVIOUS
  <2> QED
    BY <1>1, <2>1, <2>2, <2>3
<1>c. CASE Len(m) # 0
  <2>b. PICK h : /\ h[1] = m[1] /\ \A n \in 2..Len(m) : h[n] = h[n - 1] \o m[n]
                 /\ FlattenSeq(m) = h[Len(m)]
    BY <1>2, <1>c, JoinedSteps
  <2> DEFINE P == {n \in Nat : n + 1 <= Len(m) => g[n + 1] = h[n + 1]}
  <2>3. 0 \in P
    BY <1>2, <1>a, <1>c, <2>b
  <2>4. ASSUME NEW n \in Nat, n \in P PROVE n + 1 \in P
    <3> SUFFICES ASSUME (n + 1) + 1 <= Len(m) PROVE g[(n + 1) + 1] = h[(n + 1) + 1]
      OBVIOUS
    <3>1. PICK k \in 2..Len(m) : k = (n + 1) + 1 /\ k \in 2..Len(l) /\ k - 1 = n + 1 /\ k \in 1..Len(m) /\ n + 1 <= Len(m)
      BY <1>2
    <3>2. g[k] = g[n + 1] \o l[k] /\ h[k] = h[n + 1] \o m[k]
      BY <3>1, <1>a, <2>b
    <3> QED
      BY <1>2, <2>4, <3>1, <3>2
  <2>5. Nat \subseteq P
    <3> HIDE DEF P
    <3> QED
      BY <2>3, <2>4, Induction
  <2>6. g[Len(m)] = h[Len(m)]
    <3>1. Len(m) - 1 \in Nat /\ (Len(m) - 1) + 1 = Len(m)
      BY <1>2, <1>c
    <3>2. Len(m) - 1 \in P
      BY <2>5, <3>1
    <3> QED
      BY <3>1, <3>2
  <2>7. Len(m) + 1 \in 2..Len(l) /\ (Len(m) + 1) - 1 = Len(m)
    BY <1>2, <1>c
  <2>8. g[Len(m) + 1] = g[Len(m)] \o r
    BY <1>2, <2>7, <1>a
  <2> QED
    BY <1>1, <1>2, <2>6, <2>8, <1>a, <2>b
<1> QED
  BY <1>b, <1>c

Kinds == {"context", "removed", "added"}
HunkLines(L) == [kind : Kinds \cup {"mark"}, line : L]
Piece(kind, c) ==
    IF c \in OpenLines THEN <<[kind |-> kind, line |-> c], [kind |-> "mark", line |-> c]>>
                       ELSE <<[kind |-> kind, line |-> c]>>

(* A line of a text makes lines of a hunk. *)
LEMMA PieceTyped ==
    ASSUME NEW L, NEW kind \in Kinds, NEW c \in L
    PROVE  Piece(kind, c) \in Seq(HunkLines(L))
<1>1. [kind |-> kind, line |-> c] \in HunkLines(L) /\ [kind |-> "mark", line |-> c] \in HunkLines(L)
  BY DEF HunkLines
<1> QED
  BY <1>1 DEF Piece

(* A further line of a text is marked. *)
LEMMA MarkedAppend ==
    ASSUME NEW L, NEW kind \in Kinds, NEW s \in Seq(L), NEW c \in L
    PROVE  Marked(kind, Append(s, c)) = Marked(kind, s) \o Piece(kind, c)
<1>1. PICK l : l = Append(s, c)
  OBVIOUS
<1>2. /\ l \in Seq(L) /\ Len(s) \in Nat /\ Len(l) = Len(s) + 1 /\ l[Len(s) + 1] = c /\ \A n \in 1..Len(s) : l[n] = s[n]
      /\ DOMAIN l = 1..Len(l) /\ DOMAIN s = 1..Len(s)
  BY <1>1
<1> DEFINE M == [k \in DOMAIN s |-> Piece(kind, s[k])]
           N == [k \in DOMAIN l |-> Piece(kind, l[k])]
<1>3. M \in Seq(Seq(HunkLines(L))) /\ Len(M) = Len(s)
  <2>1. \A k \in 1..Len(s) : Piece(kind, s[k]) \in Seq(HunkLines(L))
    BY PieceTyped
  <2> QED
    BY <1>2, <2>1
<1>4. N \in Seq(Seq(HunkLines(L))) /\ Len(N) = Len(l)
  <2>1. \A k \in 1..Len(l) : Piece(kind, l[k]) \in Seq(HunkLines(L))
    BY <1>2, PieceTyped
  <2> QED
    BY <1>2, <2>1
<1>5. N = Append(M, Piece(kind, c))
  <2>1. /\ \A k \in 1..Len(s) : M[k] = Piece(kind, s[k])
        /\ \A k \in 1..Len(l) : N[k] = Piece(kind, l[k])
    BY <1>2
  <2> HIDE DEF M, N
  <2>2. Piece(kind, c) \in Seq(HunkLines(L))
    BY PieceTyped
  <2>3. PICK O : O = Append(M, Piece(kind, c))
    OBVIOUS
  <2>4. /\ O \in Seq(Seq(HunkLines(L))) /\ Len(O) = Len(s) + 1 /\ O[Len(s) + 1] = Piece(kind, c)
        /\ \A k \in 1..Len(s) : O[k] = M[k]
    BY <1>3, <2>2, <2>3
  <2>5. ASSUME NEW k \in 1..Len(l) PROVE N[k] = O[k]
    <3>1. CASE k \in 1..Len(s)
      BY <1>2, <2>1, <2>4, <3>1
    <3>2. CASE k = Len(s) + 1
      BY <1>2, <2>1, <2>4, <3>2
    <3> QED
      BY <1>2, <3>1, <3>2
  <2>6. N = O
    BY <1>2, <1>4, <2>4, <2>5, SeqEqual
  <2> QED
    BY <2>3, <2>6
<1>6. Marked(kind, s) = FlattenSeq(M) /\ Marked(kind, l) = FlattenSeq(N)
  BY DEF Marked, Piece
<1> HIDE DEF M, N
<1>7. FlattenSeq(N) = FlattenSeq(M) \o Piece(kind, c)
  BY <1>3, <1>5, PieceTyped, JoinedAppend
<1> QED
  BY <1>1, <1>6, <1>7

(* The lines of two sequences, one after the other. *)
LEMMA TextingConcat ==
    ASSUME NEW L, NEW a \in Seq(HunkLines(L)), NEW b \in Seq(HunkLines(L))
    PROVE  /\ Texting(a) \in Seq(L) /\ Texting(b) \in Seq(L)
           /\ Texting(a \o b) = Texting(a) \o Texting(b)
<1>1. ASSUME NEW m \in Seq(HunkLines(L))
      PROVE  /\ Texting(m) \in Seq(L) /\ Len(Texting(m)) = Len(m)
             /\ \A i \in 1..Len(m) : Texting(m)[i] = m[i].line
  <2>1. \A i \in 1..Len(m) : m[i] \in HunkLines(L)
    OBVIOUS
  <2>2. \A i \in 1..Len(m) : m[i].line \in L
    BY <2>1 DEF HunkLines
  <2> QED
    BY <2>2 DEF Texting
<1>2. PICK c : c = a \o b
  OBVIOUS
<1>c. c \in Seq(HunkLines(L))
  BY <1>2
<1>3. /\ Len(a) \in Nat /\ Len(b) \in Nat /\ Len(c) = Len(a) + Len(b)
      /\ \A i \in 1..Len(c) : c[i] = IF i <= Len(a) THEN a[i] ELSE b[i - Len(a)]
  BY <1>2, ConcatProperties
<1>4. PICK s \in Seq(L), t \in Seq(L), u \in Seq(L) : s = Texting(a) /\ t = Texting(b) /\ u = Texting(c)
  BY <1>1, <1>c
<1>5. /\ Len(s) = Len(a) /\ Len(t) = Len(b) /\ Len(u) = Len(c)
      /\ \A i \in 1..Len(a) : s[i] = a[i].line
      /\ \A i \in 1..Len(b) : t[i] = b[i].line
      /\ \A i \in 1..Len(c) : u[i] = c[i].line
  BY <1>1, <1>4, <1>c
<1>6. PICK v : v = s \o t
  OBVIOUS
<1>7. v \in Seq(L) /\ Len(v) = Len(c) /\ \A i \in 1..Len(c) : v[i] = IF i <= Len(a) THEN s[i] ELSE t[i - Len(a)]
  <2>1. /\ s \o t \in Seq(L) /\ Len(s \o t) = Len(s) + Len(t)
        /\ \A i \in 1..(Len(s) + Len(t)) : (s \o t)[i] = IF i <= Len(s) THEN s[i] ELSE t[i - Len(s)]
    BY ConcatProperties
  <2> QED
    BY <1>3, <1>5, <1>6, <2>1
<1>8. ASSUME NEW i \in 1..Len(c) PROVE u[i] = v[i]
  <2>1. CASE i <= Len(a)
    <3>1. i \in 1..Len(a)
      BY <1>3, <2>1
    <3> QED
      BY <1>3, <1>5, <1>7, <2>1, <3>1
  <2>2. CASE ~(i <= Len(a))
    <3>1. i - Len(a) \in 1..Len(b)
      BY <1>3, <2>2
    <3> QED
      BY <1>3, <1>5, <1>7, <2>2, <3>1
  <2> QED
    BY <2>1, <2>2
<1>9. u = v
  BY <1>5, <1>7, <1>8, SeqEqual
<1> QED
  BY <1>2, <1>4, <1>6, <1>9

(* What is read of two sequences, one after the other. *)
LEMMA ReadsConcat ==
    ASSUME NEW L, NEW a \in Seq(HunkLines(L)), NEW b \in Seq(HunkLines(L)), NEW K
    PROVE  /\ a \o b \in Seq(HunkLines(L))
           /\ Texting(OfKind(a \o b, K)) = Texting(OfKind(a, K)) \o Texting(OfKind(b, K))
<1>1. OfKind(a \o b, K) = OfKind(a, K) \o OfKind(b, K)
  BY KeptConcat
<1>2. OfKind(a, K) \in Seq(HunkLines(L)) /\ OfKind(b, K) \in Seq(HunkLines(L))
  BY KeptTyped
<1> QED
  BY <1>1, <1>2, TextingConcat, SMTT(30)

Three(a, b, c) == (a \o b) \o c

(* The same of three. *)
LEMMA ReadsThree ==
    ASSUME NEW L, NEW a \in Seq(HunkLines(L)), NEW b \in Seq(HunkLines(L)), NEW c \in Seq(HunkLines(L)), NEW K
    PROVE  Texting(OfKind(Three(a, b, c), K))
              = Three(Texting(OfKind(a, K)), Texting(OfKind(b, K)), Texting(OfKind(c, K)))
<1>1. PICK d : d = a \o b
  OBVIOUS
<1>2. d \in Seq(HunkLines(L))
  BY <1>1, ReadsConcat
<1>3. Texting(OfKind(d, K)) = Texting(OfKind(a, K)) \o Texting(OfKind(b, K))
  BY <1>1, ReadsConcat
<1>4. Texting(OfKind(d \o c, K)) = Texting(OfKind(d, K)) \o Texting(OfKind(c, K))
  BY <1>2, ReadsConcat, SMTT(30)
<1> QED
  BY <1>1, <1>3, <1>4 DEF Three

(* Of a line and its mark the line alone is kept, if its kind is. *)
LEMMA PieceReads ==
    ASSUME NEW L, NEW kind \in Kinds, NEW c \in L, NEW K, "mark" \notin K
    PROVE  /\ kind \in K => Texting(OfKind(Piece(kind, c), K)) = <<c>>
           /\ kind \notin K => Texting(OfKind(Piece(kind, c), K)) = <<>>
<1>a. PICK x : x = [kind |-> kind, line |-> c]
  OBVIOUS
<1>b. PICK y : y = [kind |-> "mark", line |-> c]
  OBVIOUS
<1>1. x = [kind |-> kind, line |-> c] /\ x \in HunkLines(L) /\ x.kind = kind /\ x.line = c
  BY <1>a DEF HunkLines
<1>2. y = [kind |-> "mark", line |-> c] /\ y \in HunkLines(L) /\ y.kind = "mark"
  BY <1>b DEF HunkLines
<1>3. <<>> \in Seq(HunkLines(L)) /\ <<x>> \in Seq(HunkLines(L)) /\ <<x>> = Append(<<>>, x) /\ <<x, y>> = Append(<<x>>, y)
  BY <1>1, <1>2
<1>4. OfKind(<<x>>, K) = IF kind \in K THEN <<x>> ELSE <<>>
  <2>1. OfKind(Append(<<>>, x), K) = Keep(<<>>, K, x)
    <3>1. OfKind(Append(<<>>, x), K) = Keep(OfKind(<<>>, K), K, x)
      BY <1>1, <1>3, KeptAppend
    <3> QED
      BY <3>1, KeptEmpty
  <2> QED
    BY <1>1, <1>3, <2>1 DEF Keep
<1>5. OfKind(<<x, y>>, K) = OfKind(<<x>>, K)
  <2>1. OfKind(Append(<<x>>, y), K) = Keep(OfKind(<<x>>, K), K, y)
    BY <1>2, <1>3, KeptAppend
  <2> QED
    BY <1>2, <1>3, <2>1 DEF Keep
<1>6. OfKind(Piece(kind, c), K) = IF kind \in K THEN <<x>> ELSE <<>>
  BY <1>1, <1>2, <1>4, <1>5 DEF Piece
<1>7. Texting(<<x>>) = <<c>> /\ Texting(<<>>) = <<>>
  BY <1>1 DEF Texting
<1> QED
  BY <1>6, <1>7

Read(kind, s, K) == IF kind \in K THEN s ELSE <<>>

(* The lines of a text that is marked are read back, if their kind is. *)
LEMMA MarkedReads ==
    ASSUME NEW L, NEW kind \in Kinds, NEW s \in Seq(L), NEW K, "mark" \notin K
    PROVE  /\ Marked(kind, s) \in Seq(HunkLines(L))
           /\ Texting(OfKind(Marked(kind, s), K)) = Read(kind, s, K)
<1> DEFINE P == {n \in Nat : \A l \in Seq(L) : Len(l) = n =>
                    /\ Marked(kind, l) \in Seq(HunkLines(L))
                    /\ Texting(OfKind(Marked(kind, l), K)) = IF kind \in K THEN l ELSE <<>>}
<1>1. 0 \in P
  <2>1. ASSUME NEW l \in Seq(L), Len(l) = 0
        PROVE  /\ Marked(kind, l) \in Seq(HunkLines(L))
               /\ Texting(OfKind(Marked(kind, l), K)) = IF kind \in K THEN l ELSE <<>>
    <3>1. l = <<>>
      BY <2>1
    <3>2. Marked(kind, <<>>) = <<>>
      BY DEF Marked, FlattenSeq
    <3>3. Texting(<<>>) = <<>>
      BY DEF Texting
    <3>4. Texting(OfKind(Marked(kind, <<>>), K)) = <<>>
      BY <3>2, <3>3, KeptEmpty
    <3>5. <<>> \in Seq(HunkLines(L))
      OBVIOUS
    <3> QED
      BY <3>1, <3>2, <3>4, <3>5
  <2> QED
    BY <2>1
<1>2. ASSUME NEW n \in Nat, n \in P PROVE n + 1 \in P
  <2>1. ASSUME NEW l \in Seq(L), Len(l) = n + 1
        PROVE  /\ Marked(kind, l) \in Seq(HunkLines(L))
               /\ Texting(OfKind(Marked(kind, l), K)) = IF kind \in K THEN l ELSE <<>>
    <3>1. PICK f \in Seq(L), c \in L : l = Append(f, c) /\ Len(f) = n
      BY <2>1, IsAppend
    <3>2. /\ Marked(kind, f) \in Seq(HunkLines(L))
          /\ Texting(OfKind(Marked(kind, f), K)) = IF kind \in K THEN f ELSE <<>>
      BY <1>2, <3>1
    <3>3. PICK a \in Seq(HunkLines(L)), b \in Seq(HunkLines(L)) : a = Marked(kind, f) /\ b = Piece(kind, c)
      BY <3>2, PieceTyped
    <3>4. Marked(kind, l) = a \o b /\ a \o b \in Seq(HunkLines(L))
      <4>1. Marked(kind, Append(f, c)) = Marked(kind, f) \o Piece(kind, c)
        BY MarkedAppend
      <4> QED
        BY <3>1, <3>3, <4>1
    <3>7. Texting(OfKind(a \o b, K)) = Texting(OfKind(a, K)) \o Texting(OfKind(b, K))
      BY ReadsConcat
    <3>8. Texting(OfKind(b, K)) = IF kind \in K THEN <<c>> ELSE <<>>
      <4>1. /\ kind \in K => Texting(OfKind(Piece(kind, c), K)) = <<c>>
            /\ kind \notin K => Texting(OfKind(Piece(kind, c), K)) = <<>>
        BY PieceReads
      <4> QED
        BY <3>3, <4>1
    <3>9. f \o <<c>> = Append(f, c) /\ <<>> \o <<>> = <<>>
      OBVIOUS
    <3> QED
      BY <3>1, <3>2, <3>3, <3>4, <3>7, <3>8, <3>9
  <2> QED
    BY <2>1
<1>3. Nat \subseteq P
  <2> HIDE DEF P
  <2> QED
    BY <1>1, <1>2, Induction
<1> QED
  BY <1>3 DEF Read

(* What two texts begin with. *)
LEMMA PrefixIsCommon ==
    ASSUME NEW L, NEW s \in Seq(L), NEW t \in Seq(L)
    PROVE  LET n == CommonPrefix(s, t) IN
           n \in Nat /\ n <= Len(s) /\ n <= Len(t) /\ SubSeq(s, 1, n) = SubSeq(t, 1, n)
<1>1. Len(s) \in Nat /\ Len(t) \in Nat
  OBVIOUS
<1>2. PICK m \in Nat : m = Min({Len(s), Len(t)}) /\ m <= Len(s) /\ m <= Len(t)
  <2>1. \E x \in {Len(s), Len(t)} : \A y \in {Len(s), Len(t)} : x <= y
    BY <1>1
  <2> QED
    BY <1>1, <2>1 DEF Min
<1> DEFINE S == {k \in 0..m : SubSeq(s, 1, k) = SubSeq(t, 1, k)}
<1>3. 0 \in S
  <2>1. SubSeq(s, 1, 0) = <<>> /\ SubSeq(t, 1, 0) = <<>>
    OBVIOUS
  <2> QED
    BY <2>1
<1>4. \E n \in S : \A k \in S : n >= k
  <2> DEFINE R == {m - k : k \in S}
  <2>1. PICK x \in R : \A y \in R : x <= y
    <3>1. R # {}
      BY <1>3
    <3>2. \A k \in S : k \in 0..m
      OBVIOUS
    <3>3. \A n \in R : n \in Nat
      BY <3>2
    <3> HIDE DEF R
    <3> QED
      BY <3>1, <3>3, LeastMember
  <2>2. PICK n \in S : x = m - n
    OBVIOUS
  <2>3. ASSUME NEW k \in S PROVE n >= k
    <3>1. m - k \in R
      OBVIOUS
    <3>2. x <= m - k
      BY <2>1, <3>1
    <3>3. n \in 0..m /\ k \in 0..m
      OBVIOUS
    <3> QED
      BY <2>2, <3>2, <3>3
  <2> QED
    BY <2>3
<1>5. CommonPrefix(s, t) = Max(S)
  BY <1>2 DEF CommonPrefix
<1> HIDE DEF S
<1>6. Max(S) \in S
  BY <1>4 DEF Max
<1>7. PICK n : n = Max(S)
  OBVIOUS
<1>8. n \in 0..m /\ SubSeq(s, 1, n) = SubSeq(t, 1, n)
  BY <1>6, <1>7 DEF S
<1>9. n \in Nat /\ n <= Len(s) /\ n <= Len(t)
  BY <1>1, <1>2, <1>8
<1> QED
  BY <1>5, <1>7, <1>8, <1>9

(* A text is what it begins with and the rest. *)
LEMMA Halves ==
    ASSUME NEW L, NEW s \in Seq(L), NEW n \in Nat, n <= Len(s)
    PROVE  /\ SubSeq(s, 1, n) \in Seq(L) /\ SubSeq(s, n + 1, Len(s)) \in Seq(L)
           /\ SubSeq(s, 1, n) \o SubSeq(s, n + 1, Len(s)) = s
<1>1. Len(s) \in Nat
  OBVIOUS
<1>a. PICK a : a = SubSeq(s, 1, n)
  OBVIOUS
<1>b. PICK b : b = SubSeq(s, n + 1, Len(s))
  OBVIOUS
<1>2. a = SubSeq(s, 1, n) /\ b = SubSeq(s, n + 1, Len(s)) /\ a \in Seq(L) /\ b \in Seq(L)
  BY <1>1, <1>a, <1>b
<1>3. /\ Len(a) = n /\ Len(b) = Len(s) - n
      /\ \A i \in 1..n : a[i] = s[i]
      /\ \A i \in 1..(Len(s) - n) : b[i] = s[n + i]
  BY <1>1, <1>2
<1>4. PICK c : c = a \o b
  OBVIOUS
<1>5. c \in Seq(L) /\ Len(c) = Len(s) /\ \A i \in 1..Len(s) : c[i] = IF i <= n THEN a[i] ELSE b[i - n]
  <2>1. /\ a \o b \in Seq(L) /\ Len(a \o b) = Len(a) + Len(b)
        /\ \A i \in 1..(Len(a) + Len(b)) : (a \o b)[i] = IF i <= Len(a) THEN a[i] ELSE b[i - Len(a)]
    BY <1>2, ConcatProperties, ZenonT(40)
  <2>2. Len(a) + Len(b) = Len(s)
    BY <1>1, <1>3
  <2> QED
    BY <1>3, <1>4, <2>1, <2>2
<1>6. ASSUME NEW i \in 1..Len(s) PROVE c[i] = s[i]
  <2>1. CASE i <= n
    BY <1>3, <1>5, <2>1
  <2>2. CASE ~(i <= n)
    <3>1. i - n \in 1..(Len(s) - n) /\ n + (i - n) = i
      BY <1>1, <2>2
    <3> QED
      BY <1>3, <1>5, <2>2, <3>1
  <2> QED
    BY <2>1, <2>2
<1>7. c = s
  BY <1>5, <1>6, SeqEqual
<1> QED
  BY <1>2, <1>4, <1>7

(* What is read of a hunk. *)
LEMMA HunkReads ==
    ASSUME NEW L, NEW a \in Seq(L), NEW b \in Seq(L), NEW c \in Seq(L), NEW K, "mark" \notin K
    PROVE  Texting(OfKind(Three(Marked("context", a), Marked("removed", b), Marked("added", c)), K))
              = Three(Read("context", a, K), Read("removed", b, K), Read("added", c, K))
<1>1. PICK x, y, z : x = "context" /\ y = "removed" /\ z = "added" /\ x \in Kinds /\ y \in Kinds /\ z \in Kinds
  BY DEF Kinds
<1>2. Marked(x, a) \in Seq(HunkLines(L)) /\ Texting(OfKind(Marked(x, a), K)) = Read(x, a, K)
  BY <1>1, MarkedReads
<1>3. Marked(y, b) \in Seq(HunkLines(L)) /\ Texting(OfKind(Marked(y, b), K)) = Read(y, b, K)
  BY <1>1, MarkedReads
<1>4. Marked(z, c) \in Seq(HunkLines(L)) /\ Texting(OfKind(Marked(z, c), K)) = Read(z, c, K)
  BY <1>1, MarkedReads
<1>5. PICK A, B, C : A = Marked(x, a) /\ B = Marked(y, b) /\ C = Marked(z, c)
  OBVIOUS
<1>6. A \in Seq(HunkLines(L)) /\ B \in Seq(HunkLines(L)) /\ C \in Seq(HunkLines(L))
  BY <1>2, <1>3, <1>4, <1>5
<1>7. Texting(OfKind(Three(A, B, C), K)) = Three(Texting(OfKind(A, K)), Texting(OfKind(B, K)), Texting(OfKind(C, K)))
  BY <1>6, ReadsThree
<1>8. Texting(OfKind(Three(A, B, C), K)) = Three(Read(x, a, K), Read(y, b, K), Read(z, c, K))
  BY <1>2, <1>3, <1>4, <1>5, <1>7
<1> QED
  BY <1>1, <1>5, <1>8

(* What a patch holds of the two texts. *)
LEMMA PatchReads ==
    ASSUME NEW L, NEW s \in Seq(L), NEW t \in Seq(L)
    PROVE  LET lines == structuredPatch(s, t).lines IN
           /\ Texting(OfKind(lines, {"removed", "context"})) = s
           /\ Texting(OfKind(lines, {"added", "context"})) = t
<1>1. PICK n \in Nat : n = CommonPrefix(s, t) /\ n <= Len(s) /\ n <= Len(t) /\ SubSeq(s, 1, n) = SubSeq(t, 1, n)
  BY PrefixIsCommon
<1>2. /\ SubSeq(s, 1, n) \in Seq(L) /\ SubSeq(s, n + 1, Len(s)) \in Seq(L)
      /\ SubSeq(s, 1, n) \o SubSeq(s, n + 1, Len(s)) = s
  BY <1>1, Halves
<1>3. /\ SubSeq(t, 1, n) \in Seq(L) /\ SubSeq(t, n + 1, Len(t)) \in Seq(L)
      /\ SubSeq(t, 1, n) \o SubSeq(t, n + 1, Len(t)) = t
  BY <1>1, Halves
<1>4. PICK a, b, c : a = SubSeq(s, 1, n) /\ b = SubSeq(s, n + 1, Len(s)) /\ c = SubSeq(t, n + 1, Len(t))
  OBVIOUS
<1>5. a \in Seq(L) /\ b \in Seq(L) /\ c \in Seq(L) /\ a \o b = s /\ a \o c = t
  BY <1>1, <1>2, <1>3, <1>4, Zenon
<1>6. PICK body : body = Three(Marked("context", a), Marked("removed", b), Marked("added", c))
  OBVIOUS
<1>7. structuredPatch(s, t).lines = body
  BY <1>1, <1>4, <1>6 DEF structuredPatch, Three
<1>8. ASSUME NEW K, "mark" \notin K
      PROVE  Texting(OfKind(body, K)) = Three(Read("context", a, K), Read("removed", b, K), Read("added", c, K))
  BY <1>5, <1>6, <1>8, HunkReads
<1>9. Texting(OfKind(body, {"removed", "context"})) = s
  <2>1. PICK K : K = {"removed", "context"}
    OBVIOUS
  <2>2. Read("context", a, K) = a /\ Read("removed", b, K) = b /\ Read("added", c, K) = <<>> /\ "mark" \notin K
    BY <2>1 DEF Read
  <2>3. Texting(OfKind(body, K)) = (a \o b) \o <<>>
    BY <1>8, <2>2 DEF Three
  <2>4. s \o <<>> = s
    OBVIOUS
  <2> QED
    BY <1>5, <2>1, <2>3, <2>4
<1>10. Texting(OfKind(body, {"added", "context"})) = t
  <2>1. PICK K : K = {"added", "context"}
    OBVIOUS
  <2>2. Read("context", a, K) = a /\ Read("removed", b, K) = <<>> /\ Read("added", c, K) = c /\ "mark" \notin K
    BY <2>1 DEF Read
  <2>3. Texting(OfKind(body, K)) = (a \o <<>>) \o c
    BY <1>8, <2>2 DEF Three
  <2>4. a \o <<>> = a
    BY <1>5
  <2> QED
    BY <1>5, <2>1, <2>3, <2>4
<1> QED
  BY <1>7, <1>9, <1>10

(* The patch of two texts, applied to the first, makes the second of it:   *)
(* the marks of missing newlines are not read as lines.                    *)
LEMMA PatchesApply == \A s, t \in Texts : applyPatch(s, structuredPatch(s, t)) = t /\ t # NoText
<1> SUFFICES ASSUME NEW s \in Texts, NEW t \in Texts
             PROVE  applyPatch(s, structuredPatch(s, t)) = t /\ t # NoText
  OBVIOUS
<1>1. PICK L : L = Range(s) \cup Range(t)
  OBVIOUS
<1>2. s \in Seq(L) /\ t \in Seq(L)
  <2>1. s \in Seq(Range(s)) /\ t \in Seq(Range(t))
    BY TextsAssumption
  <2>2. ASSUME NEW A, NEW B, A \subseteq B, NEW u \in Seq(A) PROVE u \in Seq(B)
    BY <2>2
  <2>3. Range(s) \subseteq L /\ Range(t) \subseteq L
    BY <1>1
  <2> QED
    BY <2>1, <2>2, <2>3
<1>3. PICK hunk : hunk = structuredPatch(s, t)
  OBVIOUS
<1>4. Texting(OfKind(hunk.lines, {"removed", "context"})) = s /\ Texting(OfKind(hunk.lines, {"added", "context"})) = t
  BY <1>2, <1>3, PatchReads
<1>5. Len(s) \in Nat /\ Len(s) - Len(s) + 1 = 1 /\ 1 + Len(s) - 1 = Len(s) /\ 1 - 1 = 0 /\ 1 + Len(s) = Len(s) + 1
  BY <1>2
<1> DEFINE places == {p \in 1..(Len(s) - Len(s) + 1) : SubSeq(s, p, p + Len(s) - 1) = s}
<1>6. places = {1}
  <2>1. SubSeq(s, 1, Len(s)) = s
    BY <1>2, SubSeqFull
  <2>2. 1..1 = {1}
    OBVIOUS
  <2> QED
    BY <1>5, <2>1, <2>2
<1>7. Min({1}) = 1
  BY DEF Min
<1>8. applyPatch(s, hunk) = SubSeq(s, 1, 1 - 1) \o t \o SubSeq(s, 1 + Len(s), Len(s))
  <2> HIDE DEF places
  <2>1. applyPatch(s, hunk) = IF places = {} THEN NoText
           ELSE SubSeq(s, 1, Min(places) - 1) \o t \o SubSeq(s, Min(places) + Len(s), Len(s))
    BY <1>4 DEF applyPatch, places
  <2> QED
    BY <1>6, <1>7, <2>1
<1>9. SubSeq(s, 1, 0) = <<>> /\ SubSeq(s, Len(s) + 1, Len(s)) = <<>> /\ <<>> \o t = t /\ t \o <<>> = t
  BY <1>2, <1>5
<1> QED
  BY <1>3, <1>5, <1>8, <1>9, NoTextAssumption DEF NoText

-----------------------------------------------------------------------------
(* Replay.                                                                 *)

TextsAfter(text, m, p, N, g) ==
    g = [n \in 0..N |-> IF n = 0 THEN text ELSE ReplayStep(g[n - 1], p, m[n])]

(* The texts after each event exist. *)
LEMMA TextsExist ==
    ASSUME NEW text, NEW m, NEW p, NEW N \in Nat
    PROVE  \E g : TextsAfter(text, m, p, N, g)
<1> DEFINE P == {n \in Nat : \E g : TextsAfter(text, m, p, n, g)}
<1>1. 0 \in P
  <2>1. TextsAfter(text, m, p, 0, [n \in 0..0 |-> text])
    BY DEF TextsAfter
  <2> QED
    BY <2>1
<1>2. ASSUME NEW n \in Nat, n \in P PROVE n + 1 \in P
  <2>1. PICK g : TextsAfter(text, m, p, n, g)
    BY <1>2
  <2> DEFINE y == ReplayStep(g[n], p, m[n + 1])
             h == [i \in 0..(n + 1) |-> IF i = n + 1 THEN y ELSE g[i]]
  <2>2. \A i \in 0..n : g[i] = IF i = 0 THEN text ELSE ReplayStep(g[i - 1], p, m[i])
    BY <2>1 DEF TextsAfter
  <2>3. \A i \in 0..n : h[i] = g[i]
    OBVIOUS
  <2>4. h[n + 1] = y
    OBVIOUS
  <2>5. ASSUME NEW i \in 0..(n + 1) PROVE h[i] = IF i = 0 THEN text ELSE ReplayStep(h[i - 1], p, m[i])
    <3> HIDE DEF h
    <3>1. CASE i = n + 1
      <4>1. i # 0 /\ i - 1 = n /\ n \in 0..n
        BY <3>1
      <4>2. h[i - 1] = g[n]
        BY <2>3, <4>1
      <4> QED
        BY <2>4, <3>1, <4>1, <4>2
    <3>2. CASE i = 0
      <4>1. i \in 0..n
        BY <3>2
      <4> QED
        BY <2>2, <2>3, <3>2, <4>1
    <3>3. CASE i \in 1..n
      <4>1. i \in 0..n /\ i - 1 \in 0..n /\ i # 0
        BY <3>3
      <4> QED
        BY <2>2, <2>3, <4>1
    <3> QED
      BY <3>1, <3>2, <3>3
  <2>6. h = [i \in 0..(n + 1) |-> h[i]]
    OBVIOUS
  <2> HIDE DEF h
  <2>7. TextsAfter(text, m, p, n + 1, h)
    BY <2>5, <2>6 DEF TextsAfter
  <2> QED
    BY <2>7
<1>3. Nat \subseteq P
  <2> HIDE DEF P
  <2> QED
    BY <1>1, <1>2, Induction
<1> QED
  BY <1>3

(* Replay goes on event by event. *)
LEMMA ReplaySteps ==
    ASSUME NEW text, NEW m, Len(m) \in Nat, NEW p
    PROVE  /\ Replay(text, m, p, 0) = text
           /\ \A n \in 1..Len(m) : Replay(text, m, p, n) = ReplayStep(Replay(text, m, p, n - 1), p, m[n])
<1>1. PICK g : g = CHOOSE h : TextsAfter(text, m, p, Len(m), h)
  OBVIOUS
<1>2. TextsAfter(text, m, p, Len(m), g)
  BY <1>1, TextsExist
<1>3. \A n : Replay(text, m, p, n) = g[n]
  BY <1>1 DEF Replay, TextsAfter
<1>4. \A n \in 0..Len(m) : g[n] = IF n = 0 THEN text ELSE ReplayStep(g[n - 1], p, m[n])
  BY <1>2 DEF TextsAfter
<1>5. \A n \in 1..Len(m) : n \in 0..Len(m) /\ n # 0
  OBVIOUS
<1>6. 0 \in 0..Len(m)
  OBVIOUS
<1> QED
  BY <1>3, <1>4, <1>5, <1>6

(* What comes later changes nothing before. *)
LEMMA ReplayAppend ==
    ASSUME NEW R, NEW text, NEW m \in Seq(R), NEW r \in R, NEW p
    PROVE  /\ \A n \in 0..Len(m) : Replay(text, Append(m, r), p, n) = Replay(text, m, p, n)
           /\ Replay(text, Append(m, r), p, Len(m) + 1) = ReplayStep(Replay(text, m, p, Len(m)), p, r)
<1>1. PICK l : l = Append(m, r)
  OBVIOUS
<1>2. l \in Seq(R) /\ Len(m) \in Nat /\ Len(l) \in Nat /\ Len(l) = Len(m) + 1 /\ l[Len(m) + 1] = r /\ \A n \in 1..Len(m) : l[n] = m[n]
  BY <1>1
<1>a. /\ Replay(text, l, p, 0) = text
      /\ \A n \in 1..Len(l) : Replay(text, l, p, n) = ReplayStep(Replay(text, l, p, n - 1), p, l[n])
  BY <1>2, ReplaySteps
<1>b. /\ Replay(text, m, p, 0) = text
      /\ \A n \in 1..Len(m) : Replay(text, m, p, n) = ReplayStep(Replay(text, m, p, n - 1), p, m[n])
  BY <1>2, ReplaySteps
<1> DEFINE P == {n \in Nat : n <= Len(m) => Replay(text, l, p, n) = Replay(text, m, p, n)}
<1>3. 0 \in P
  BY <1>2, <1>a, <1>b
<1>4. ASSUME NEW n \in Nat, n \in P PROVE n + 1 \in P
  <2> SUFFICES ASSUME n + 1 <= Len(m) PROVE Replay(text, l, p, n + 1) = Replay(text, m, p, n + 1)
    OBVIOUS
  <2>1. n + 1 \in 1..Len(m) /\ n + 1 \in 1..Len(l) /\ (n + 1) - 1 = n /\ n <= Len(m)
    BY <1>2
  <2>2. Replay(text, l, p, n + 1) = ReplayStep(Replay(text, l, p, n), p, l[n + 1])
    BY <1>2, <2>1, <1>a, <1>b
  <2>3. Replay(text, m, p, n + 1) = ReplayStep(Replay(text, m, p, n), p, m[n + 1])
    BY <1>2, <2>1, <1>a, <1>b
  <2> QED
    BY <1>2, <1>4, <2>1, <2>2, <2>3
<1>5. Nat \subseteq P
  <2> HIDE DEF P
  <2> QED
    BY <1>3, <1>4, Induction
<1>6. \A n \in 0..Len(m) : Replay(text, l, p, n) = Replay(text, m, p, n)
  BY <1>2, <1>5
<1>7. Replay(text, l, p, Len(m) + 1) = ReplayStep(Replay(text, m, p, Len(m)), p, r)
  <2>1. Len(m) + 1 \in 1..Len(l) /\ (Len(m) + 1) - 1 = Len(m) /\ Len(m) \in 0..Len(m)
    BY <1>2
  <2> QED
    BY <1>2, <1>6, <2>1, <1>a, <1>b
<1> QED
  BY <1>1, <1>6, <1>7

(* Two replays that agree at one place agree for as long as the events do. *)
Agree(P, Q, p, text, t, a, b, c) ==
    /\ Len(P) \in Nat /\ Len(Q) \in Nat /\ a \in Nat /\ b \in Nat /\ c \in Nat
    /\ a + c <= Len(Q) /\ b + c <= Len(P) /\ Replay(t, Q, p, a) = Replay(text, P, p, b)
    /\ \A j \in 1..c : Q[a + j] = P[b + j]
AgreeOn(P, Q, p, text, t, a, b, c) ==
    \A j \in 0..c : Replay(t, Q, p, a + j) = Replay(text, P, p, b + j)

LEMMA ReplayShift ==
    ASSUME NEW P, NEW Q, NEW p, NEW text, NEW t, NEW a, NEW b, NEW c, Agree(P, Q, p, text, t, a, b, c)
    PROVE  AgreeOn(P, Q, p, text, t, a, b, c)
<1>0. /\ Len(P) \in Nat /\ Len(Q) \in Nat /\ a \in Nat /\ b \in Nat /\ c \in Nat
      /\ a + c <= Len(Q) /\ b + c <= Len(P) /\ Replay(t, Q, p, a) = Replay(text, P, p, b)
      /\ \A j \in 1..c : Q[a + j] = P[b + j]
  BY DEF Agree
<1>a. \A n \in 1..Len(P) : Replay(text, P, p, n) = ReplayStep(Replay(text, P, p, n - 1), p, P[n])
  BY <1>0, ReplaySteps
<1>b. \A n \in 1..Len(Q) : Replay(t, Q, p, n) = ReplayStep(Replay(t, Q, p, n - 1), p, Q[n])
  BY <1>0, ReplaySteps
<1> DEFINE S == {j \in Nat : j <= c => Replay(t, Q, p, a + j) = Replay(text, P, p, b + j)}
<1>1. 0 \in S
  <2>1. a + 0 = a /\ b + 0 = b
    BY <1>0
  <2>2. Replay(t, Q, p, a + 0) = Replay(text, P, p, b + 0)
    BY <1>0, <2>1
  <2> QED
    BY <2>2
<1>2. ASSUME NEW j \in Nat, j \in S PROVE j + 1 \in S
  <2> SUFFICES ASSUME j + 1 <= c PROVE Replay(t, Q, p, a + (j + 1)) = Replay(text, P, p, b + (j + 1))
    OBVIOUS
  <2>1. PICK u \in 1..Len(Q) : u = a + (j + 1) /\ u - 1 = a + j
    BY <1>0
  <2>2. PICK v \in 1..Len(P) : v = b + (j + 1) /\ v - 1 = b + j
    BY <1>0
  <2>3. j + 1 \in 1..c /\ j <= c
    BY <1>0
  <2>4. Q[u] = P[v]
    BY <1>0, <2>1, <2>2, <2>3
  <2>5. Replay(t, Q, p, u - 1) = Replay(text, P, p, v - 1)
    BY <1>2, <2>1, <2>2, <2>3
  <2>6. Replay(t, Q, p, u) = Replay(text, P, p, v)
    BY <1>a, <1>b, <2>4, <2>5
  <2> QED
    BY <2>1, <2>2, <2>6
<1>3. Nat \subseteq S
  <2> HIDE DEF S
  <2> QED
    BY <1>1, <1>2, Induction
<1> QED
  BY <1>0, <1>3 DEF AgreeOn

(* Events of other files change nothing. *)
LEMMA ReplayIdle ==
    ASSUME NEW P, Len(P) \in Nat, NEW p, NEW text, NEW c \in 0..Len(P), \A j \in 1..c : P[j].path # p
    PROVE  \A n \in 0..c : Replay(text, P, p, n) = text
<1>a. /\ Replay(text, P, p, 0) = text
      /\ \A n \in 1..Len(P) : Replay(text, P, p, n) = ReplayStep(Replay(text, P, p, n - 1), p, P[n])
  BY ReplaySteps
<1> DEFINE S == {n \in Nat : n <= c => Replay(text, P, p, n) = text}
<1>1. 0 \in S
  BY <1>a
<1>2. ASSUME NEW n \in Nat, n \in S PROVE n + 1 \in S
  <2> SUFFICES ASSUME n + 1 <= c PROVE Replay(text, P, p, n + 1) = text
    OBVIOUS
  <2>1. PICK u \in 1..Len(P) : u = n + 1 /\ u - 1 = n /\ u \in 1..c
    OBVIOUS
  <2>2. Replay(text, P, p, u) = ReplayStep(text, p, P[u])
    BY <1>a, <1>2, <2>1
  <2>3. ReplayStep(text, p, P[u]) = text
    BY <2>1 DEF ReplayStep
  <2> QED
    BY <2>1, <2>2, <2>3
<1>3. Nat \subseteq S
  <2> HIDE DEF S
  <2> QED
    BY <1>1, <1>2, Induction
<1> QED
  BY <1>3

(* Where the elements of two sequences are in the whole. *)
Whole(S, u, v) ==
    /\ u \o v \in Seq(S) /\ Len(u \o v) = Len(u) + Len(v)
    /\ \A j \in 1..Len(u) : (u \o v)[j] = u[j]
    /\ \A j \in 1..Len(v) : (u \o v)[Len(u) + j] = v[j]

LEMMA Joined ==
    ASSUME NEW S, NEW u \in Seq(S), NEW v \in Seq(S)
    PROVE  Whole(S, u, v)
<1>1. /\ u \o v \in Seq(S) /\ Len(u \o v) = Len(u) + Len(v)
      /\ \A j \in 1..(Len(u) + Len(v)) : (u \o v)[j] = IF j <= Len(u) THEN u[j] ELSE v[j - Len(u)]
  BY ConcatProperties, Zenon
<1>2. PICK w : w = u \o v
  OBVIOUS
<1>3. PICK m \in Nat : m = Len(u)
  OBVIOUS
<1>4. PICK n \in Nat : n = Len(v)
  OBVIOUS
<1>5. \A j \in 1..(m + n) : w[j] = IF j <= m THEN u[j] ELSE v[j - m]
  BY <1>1, <1>2, <1>3, <1>4, Zenon
<1>6. \A j \in 1..m : w[j] = u[j]
  BY <1>5
<1>7. ASSUME NEW j \in 1..n PROVE w[m + j] = v[j]
  <2>1. m + j \in 1..(m + n) /\ ~(m + j <= m) /\ (m + j) - m = j
    OBVIOUS
  <2> QED
    BY <1>5, <2>1
<1> QED
  BY <1>1, <1>2, <1>3, <1>4, <1>6, <1>7, Zenon DEF Whole

(* What is left of a sequence without its i-th element. *)
LEMMA Removed ==
    ASSUME NEW S, NEW P \in Seq(S), NEW i \in 1..Len(P)
    PROVE  /\ RemoveAt(P, i) \in Seq(S) /\ Len(RemoveAt(P, i)) = Len(P) - 1 /\ Len(P) - 1 \in Nat
           /\ \A j \in 1..(i - 1) : RemoveAt(P, i)[j] = P[j]
           /\ \A j \in i..(Len(P) - 1) : RemoveAt(P, i)[j] = P[j + 1]
<1>1. PICK u : u = SubSeq(P, 1, i - 1)
  OBVIOUS
<1>2. PICK v : v = SubSeq(P, i + 1, Len(P))
  OBVIOUS
<1>3. u \in Seq(S) /\ Len(u) = i - 1 /\ \A j \in 1..(i - 1) : u[j] = P[j]
  BY <1>1
<1>4. v \in Seq(S) /\ Len(v) = Len(P) - i /\ \A j \in 1..(Len(P) - i) : v[j] = P[i + j]
  BY <1>2
<1>5. RemoveAt(P, i) = u \o v
  BY <1>1, <1>2 DEF RemoveAt
<1>6. Whole(S, u, v)
  <2>1. u \in Seq(S) /\ v \in Seq(S)
    BY <1>3, <1>4, Zenon
  <2> QED
    BY <2>1, Joined, Zenon
<1>7. ASSUME NEW j \in i..(Len(P) - 1) PROVE (u \o v)[j] = P[j + 1]
  <2>a. Len(P) \in Nat /\ i \in Nat /\ j \in Nat
    OBVIOUS
  <2>b. j - (i - 1) \in 1..Len(v) /\ Len(u) + (j - (i - 1)) = j /\ i + (j - (i - 1)) = j + 1
    BY <1>3, <1>4, <2>a
  <2>1. PICK k \in 1..Len(v) : Len(u) + k = j /\ i + k = j + 1
    BY <2>b
  <2>2. (u \o v)[Len(u) + k] = v[k]
    BY <1>6, Zenon DEF Whole
  <2>3. v[k] = P[i + k]
    BY <1>4
  <2> QED
    BY <2>1, <2>2, <2>3
<1>8. Len(P) \in Nat /\ i - 1 + (Len(P) - i) = Len(P) - 1 /\ Len(P) - 1 \in Nat
  OBVIOUS
<1>9. Len(u \o v) = Len(P) - 1
  <2>1. Len(u \o v) = Len(u) + Len(v)
    BY <1>6, Zenon DEF Whole
  <2> QED
    BY <1>3, <1>4, <1>8, <2>1
<1>10. \A j \in 1..(i - 1) : (u \o v)[j] = P[j]
  BY <1>3, <1>6, Zenon DEF Whole
<1>11. \A j \in i..(Len(P) - 1) : (u \o v)[j] = P[j + 1]
  BY <1>7, Zenon
<1> QED
  BY <1>5, <1>6, <1>8, <1>9, <1>10, <1>11, Zenon DEF Whole

(* Taking the first of the second sequence to the first one. *)
SameWhole(w, q) == Append(w, Head(q)) \o Tail(q) = w \o q

LEMMA Moved ==
    ASSUME NEW S, NEW w \in Seq(S), NEW q \in Seq(S), q # <<>>
    PROVE  Append(w, Head(q)) \in Seq(S) /\ SameWhole(w, q)
<1>1. PICK x : x = Head(q)
  OBVIOUS
<1>2. PICK t : t = Tail(q)
  OBVIOUS
<1>3. x \in S /\ x = q[1] /\ t \in Seq(S) /\ Len(t) = Len(q) - 1 /\ \A j \in 1..Len(t) : t[j] = q[j + 1]
  BY <1>1, <1>2
<1>4. PICK v : v = Append(w, x)
  OBVIOUS
<1>5. v \in Seq(S) /\ Len(v) = Len(w) + 1 /\ v[Len(w) + 1] = x /\ \A j \in 1..Len(w) : v[j] = w[j]
  BY <1>3, <1>4
<1>6. Len(w) \in Nat /\ Len(q) \in Nat /\ Len(t) \in Nat /\ Len(q) > 0
  BY <1>3
<1>7. PICK a : a = v \o t
  OBVIOUS
<1>8. PICK b : b = w \o q
  OBVIOUS
<1>9. a \in Seq(S) /\ Len(a) = Len(w) + Len(q)
      /\ \A i \in 1..(Len(v) + Len(t)) : a[i] = IF i <= Len(v) THEN v[i] ELSE t[i - Len(v)]
  <2>1. a \in Seq(S) /\ Len(a) = Len(v) + Len(t)
        /\ \A i \in 1..(Len(v) + Len(t)) : a[i] = IF i <= Len(v) THEN v[i] ELSE t[i - Len(v)]
    BY <1>3, <1>5, <1>7, ConcatProperties
  <2> QED
    BY <1>3, <1>5, <1>6, <2>1
<1>10. b \in Seq(S) /\ Len(b) = Len(w) + Len(q)
       /\ \A i \in 1..(Len(w) + Len(q)) : b[i] = IF i <= Len(w) THEN w[i] ELSE q[i - Len(w)]
  BY <1>8, ConcatProperties
<1>11. ASSUME NEW i \in 1..Len(a) PROVE a[i] = b[i]
  <2>1. i \in 1..(Len(v) + Len(t)) /\ i \in 1..(Len(w) + Len(q)) /\ i \in Nat
    BY <1>3, <1>5, <1>6, <1>9
  <2>2. CASE i <= Len(w)
    <3>1. i <= Len(v) /\ i \in 1..Len(w)
      BY <1>5, <1>6, <2>1, <2>2
    <3> QED
      BY <1>5, <1>9, <1>10, <2>1, <2>2, <3>1
  <2>3. CASE i = Len(w) + 1
    <3>1. i <= Len(v) /\ ~(i <= Len(w)) /\ i - Len(w) = 1
      BY <1>5, <1>6, <2>1, <2>3
    <3> QED
      BY <1>3, <1>5, <1>9, <1>10, <2>1, <2>3, <3>1
  <2>4. CASE i > Len(w) + 1
    <3>1. ~(i <= Len(v)) /\ ~(i <= Len(w)) /\ i - Len(v) \in 1..Len(t) /\ (i - Len(v)) + 1 = i - Len(w)
      BY <1>3, <1>5, <1>6, <2>1, <2>4
    <3>2. t[i - Len(v)] = q[(i - Len(v)) + 1]
      BY <1>3, <3>1
    <3> QED
      BY <1>9, <1>10, <2>1, <3>1, <3>2
  <2> QED
    BY <1>6, <2>1, <2>2, <2>3, <2>4
<1>12. a = b
  BY <1>9, <1>10, <1>11, SeqEqual
<1> QED
  BY <1>1, <1>2, <1>4, <1>5, <1>7, <1>8, <1>12 DEF SameWhole

(* Removing from the first of two sequences. *)
LEMMA RemovedEarly ==
    ASSUME NEW S, NEW w \in Seq(S), NEW u \in Seq(S), NEW i \in 1..Len(w)
    PROVE  RemoveAt(w, i) \o u = RemoveAt(w \o u, i)
<1>1. PICK v : v = RemoveAt(w, i)
  OBVIOUS
<1>2. Len(w) \in Nat /\ Len(u) \in Nat /\ i \in Nat
  OBVIOUS
<1>3. /\ v \in Seq(S) /\ Len(v) = Len(w) - 1
      /\ \A j \in 1..(i - 1) : v[j] = w[j]
      /\ \A j \in i..(Len(w) - 1) : v[j] = w[j + 1]
  BY <1>1, Removed
<1>4. PICK c : c = w \o u
  OBVIOUS
<1>5. /\ c \in Seq(S) /\ Len(c) = Len(w) + Len(u)
      /\ \A j \in 1..(Len(w) + Len(u)) : c[j] = IF j <= Len(w) THEN w[j] ELSE u[j - Len(w)]
  BY <1>4, ConcatProperties
<1>6. i \in 1..Len(c)
  BY <1>2, <1>5
<1>7. PICK b : b = RemoveAt(c, i)
  OBVIOUS
<1>8. /\ b \in Seq(S) /\ Len(b) = Len(c) - 1
      /\ \A j \in 1..(i - 1) : b[j] = c[j]
      /\ \A j \in i..(Len(c) - 1) : b[j] = c[j + 1]
  BY <1>5, <1>6, <1>7, Removed
<1>9. PICK a : a = v \o u
  OBVIOUS
<1>10. /\ a \in Seq(S) /\ Len(a) = Len(v) + Len(u)
       /\ \A j \in 1..(Len(v) + Len(u)) : a[j] = IF j <= Len(v) THEN v[j] ELSE u[j - Len(v)]
  BY <1>3, <1>9, ConcatProperties
<1>11. Len(a) = Len(b)
  BY <1>2, <1>3, <1>5, <1>8, <1>10
<1>12. ASSUME NEW j \in 1..Len(a) PROVE a[j] = b[j]
  <2>1. j \in 1..(Len(v) + Len(u)) /\ j \in Nat /\ j \in 1..(Len(w) + Len(u)) /\ j + 1 \in 1..(Len(w) + Len(u))
    BY <1>2, <1>3, <1>10
  <2>2. CASE j < i
    <3>1. j <= Len(v) /\ j <= Len(w) /\ j \in 1..(i - 1)
      BY <1>2, <1>3, <2>1, <2>2
    <3> QED
      BY <1>3, <1>5, <1>8, <1>10, <2>1, <3>1
  <2>3. CASE i <= j /\ j < Len(w)
    <3>1. j <= Len(v) /\ j + 1 <= Len(w) /\ j \in i..(Len(w) - 1) /\ j \in i..(Len(c) - 1)
      BY <1>2, <1>3, <1>5, <2>1, <2>3
    <3>2. a[j] = w[j + 1]
      BY <1>3, <1>10, <2>1, <3>1
    <3>3. b[j] = c[j + 1] /\ c[j + 1] = w[j + 1]
      BY <1>5, <1>8, <2>1, <3>1
    <3> QED
      BY <3>2, <3>3
  <2>4. CASE Len(w) <= j
    <3>1. ~(j <= Len(v)) /\ ~(j + 1 <= Len(w)) /\ j \in i..(Len(c) - 1) /\ j - Len(v) = (j + 1) - Len(w)
      BY <1>2, <1>3, <1>5, <2>1, <2>4
    <3>2. a[j] = u[j - Len(v)]
      BY <1>10, <2>1, <3>1
    <3>3. b[j] = c[j + 1] /\ c[j + 1] = u[(j + 1) - Len(w)]
      BY <1>5, <1>8, <2>1, <3>1
    <3> QED
      BY <3>1, <3>2, <3>3
  <2> QED
    BY <1>2, <2>1, <2>2, <2>3, <2>4
<1>13. a = b
  BY <1>8, <1>10, <1>11, <1>12, SeqEqual
<1> QED
  BY <1>1, <1>4, <1>7, <1>9, <1>13

(* Once they agree behind the event that was taken, they agree on. *)
LEMMA LaterReplay ==
    ASSUME NEW P, NEW Q, Len(P) \in Nat, Len(Q) \in Nat, Len(Q) = Len(P) - 1, NEW i \in 1..Len(P), NEW p, NEW text, NEW t,
           Replay(t, Q, p, i - 1) = Replay(text, P, p, i), \A j \in i..(Len(P) - 1) : Q[j] = P[j + 1]
    PROVE  \A n \in i..Len(P) : Replay(t, Q, p, n - 1) = Replay(text, P, p, n)
<1>0. Len(P) - i \in Nat /\ i - 1 \in Nat
  OBVIOUS
<1>1. PICK c \in Nat : c = Len(P) - i
  BY <1>0
<1>2. PICK a \in Nat : a = i - 1
  BY <1>0
<1>3. i \in Nat /\ a + c <= Len(Q) /\ i + c <= Len(P)
  BY <1>1, <1>2
<1>4. ASSUME NEW j \in 1..c PROVE Q[a + j] = P[i + j]
  <2>1. PICK k \in i..(Len(P) - 1) : k = a + j /\ k + 1 = i + j
    BY <1>1, <1>2
  <2> QED
    BY <2>1
<1>5. Agree(P, Q, p, text, t, a, i, c)
  <2>1. Replay(t, Q, p, a) = Replay(text, P, p, i)
    BY <1>2
  <2> QED
    BY <1>3, <1>4, <2>1 DEF Agree
<1>a. AgreeOn(P, Q, p, text, t, a, i, c)
  BY <1>5, ReplayShift
<1>6. ASSUME NEW n \in i..Len(P) PROVE Replay(t, Q, p, n - 1) = Replay(text, P, p, n)
  <2>1. PICK j \in 0..c : j = n - i /\ a + j = n - 1 /\ i + j = n
    BY <1>1, <1>2
  <2>2. Replay(t, Q, p, a + j) = Replay(text, P, p, i + j)
    BY <1>a DEF AgreeOn
  <2> QED
    BY <2>1, <2>2
<1> QED
  BY <1>6

(* An event may be taken before others of other files. *)
LEMMA ReplayWithout ==
    ASSUME NEW P \in Seq(DiffRequest), NEW i \in 1..Len(P), NEW Q, Q = RemoveAt(P, i), NEW p, NEW text, NEW t,
           t = ReplayStep(text, p, P[i]), P[i].path # p \/ \A j \in 1..(i - 1) : P[j].path # p
    PROVE  /\ \A n \in i..Len(P) : Replay(t, Q, p, n - 1) = Replay(text, P, p, n)
           /\ \A n \in 0..(i - 1) : \/ Replay(text, P, p, n) = text
                                    \/ t = text /\ Replay(t, Q, p, n) = Replay(text, P, p, n)
<1>1. /\ Len(P) \in Nat /\ Len(Q) \in Nat /\ Len(Q) = Len(P) - 1 /\ i \in Nat /\ i - 1 \in Nat /\ Len(P) - i \in Nat
      /\ \A j \in 1..(i - 1) : Q[j] = P[j]
      /\ \A j \in i..(Len(P) - 1) : Q[j] = P[j + 1]
  <2>1. /\ Q \in Seq(DiffRequest) /\ Len(Q) = Len(P) - 1 /\ \A j \in 1..(i - 1) : Q[j] = P[j]
        /\ \A j \in i..(Len(P) - 1) : Q[j] = P[j + 1]
    BY Removed
  <2>2. Len(P) \in Nat /\ i \in Nat
    OBVIOUS
  <2>3. i - 1 \in Nat /\ Len(P) - i \in Nat /\ Len(P) - 1 \in Nat
    BY <2>2
  <2> QED
    BY <2>1, <2>2, <2>3
<1>2. Replay(text, P, p, i) = ReplayStep(Replay(text, P, p, i - 1), p, P[i])
  BY <1>1, ReplaySteps
<1>3. CASE P[i].path # p
  <2>1. t = text
    BY <1>3 DEF ReplayStep
  <2>2. Replay(t, Q, p, 0) = Replay(text, P, p, 0)
    <3>1. Replay(t, Q, p, 0) = t
      BY <1>1, ReplaySteps
    <3>2. Replay(text, P, p, 0) = text
      BY <1>1, ReplaySteps
    <3> QED
      BY <2>1, <3>1, <3>2
  <2>3. \A n \in 0..(i - 1) : Replay(t, Q, p, 0 + n) = Replay(text, P, p, 0 + n)
    <3>1. 0 + (i - 1) <= Len(Q) /\ 0 + (i - 1) <= Len(P) /\ \A j \in 1..(i - 1) : Q[0 + j] = P[0 + j]
      BY <1>1
    <3> QED
      <4>1. PICK c \in Nat : c = i - 1
        BY <1>1
      <4>2. PICK z \in Nat : z = 0
        OBVIOUS
      <4>3. /\ z + c <= Len(Q) /\ z + c <= Len(P) /\ Replay(t, Q, p, z) = Replay(text, P, p, z)
            /\ \A j \in 1..c : Q[z + j] = P[z + j]
        BY <2>2, <3>1, <4>1, <4>2
      <4>4. \A n \in 0..c : Replay(t, Q, p, z + n) = Replay(text, P, p, z + n)
        <5>1. Agree(P, Q, p, text, t, z, z, c)
          BY <1>1, <4>3 DEF Agree
        <5>2. AgreeOn(P, Q, p, text, t, z, z, c)
          BY <5>1, ReplayShift
        <5> QED
          BY <5>2 DEF AgreeOn
      <4> QED
        BY <4>1, <4>2, <4>4
  <2>4. \A n \in 0..(i - 1) : Replay(t, Q, p, n) = Replay(text, P, p, n)
    <3>1. \A n \in 0..(i - 1) : 0 + n = n
      BY <1>1
    <3> QED
      BY <2>3, <3>1
  <2>5. Replay(t, Q, p, i - 1) = Replay(text, P, p, i)
    <3>1. Replay(text, P, p, i) = Replay(text, P, p, i - 1)
      BY <1>2, <1>3 DEF ReplayStep
    <3>2. i - 1 \in 0..(i - 1)
      BY <1>1
    <3> QED
      BY <2>4, <3>1, <3>2
  <2> QED
    BY <2>1, <2>4, <2>5, <1>1, LaterReplay
<1>4. CASE \A j \in 1..(i - 1) : P[j].path # p
  <2>1. i - 1 \in 0..Len(P) /\ i - 1 \in 0..Len(Q) /\ i - 1 \in 0..(i - 1)
    BY <1>1
  <2>2. \A n \in 0..(i - 1) : Replay(text, P, p, n) = text
    BY <1>1, <1>4, <2>1, ReplayIdle
  <2>3. \A j \in 1..(i - 1) : Q[j].path # p
    BY <1>1, <1>4
  <2>4. \A n \in 0..(i - 1) : Replay(t, Q, p, n) = t
    BY <1>1, <2>1, <2>3, ReplayIdle
  <2>5. Replay(t, Q, p, i - 1) = Replay(text, P, p, i)
    BY <1>2, <2>1, <2>2, <2>4
  <2> QED
    BY <2>2, <2>5, <1>1, LaterReplay
<1> QED
  BY <1>3, <1>4

-----------------------------------------------------------------------------
(* The debouncer.                                                          *)

(* What flush computes. *)
FlushSteps(e, g) ==
    g = [s \in SUBSET e.timers |->
            IF s = {} THEN e ELSE flushPath(g[s \ {CHOOSE x \in s : TRUE}], CHOOSE x \in s : TRUE)]

(* With one file in the editor there is one timer at most. *)
LEMMA FlushOne ==
    ASSUME NEW e, NEW f, e.timers \subseteq {f}
    PROVE  flush(e) = flushPath(e, f)
<1> DEFINE g == CHOOSE g : FlushSteps(e, g)
           h == [s \in SUBSET e.timers |-> IF s = {} THEN e ELSE flushPath(e, f)]
<1>1. flush(e) = g[e.timers]
  BY DEF flush, FoldSet, MapThenFoldSet, FlushSteps
<1>2. ASSUME NEW s \in SUBSET e.timers, s # {} PROVE (CHOOSE x \in s : TRUE) = f /\ s \ {f} = {}
  <2>1. (CHOOSE x \in s : TRUE) \in s
    BY <1>2
  <2> QED
    BY <2>1
<1>3. FlushSteps(e, h)
  <2>1. h[{}] = e
    OBVIOUS
  <2>2. ASSUME NEW s \in SUBSET e.timers
        PROVE  h[s] = IF s = {} THEN e ELSE flushPath(h[s \ {CHOOSE x \in s : TRUE}], CHOOSE x \in s : TRUE)
    <3>1. h[s] = IF s = {} THEN e ELSE flushPath(e, f)
      OBVIOUS
    <3> HIDE DEF h
    <3> QED
      BY <1>2, <2>1, <3>1
  <2>3. h = [s \in SUBSET e.timers |-> h[s]]
    OBVIOUS
  <2> HIDE DEF h
  <2> QED
    BY <2>2, <2>3 DEF FlushSteps
<1>4. FlushSteps(e, g)
  BY <1>3
<1> HIDE DEF g, h
<1>5. \A s \in SUBSET e.timers :
          g[s] = IF s = {} THEN e ELSE flushPath(g[s \ {CHOOSE x \in s : TRUE}], CHOOSE x \in s : TRUE)
  BY <1>4 DEF FlushSteps
<1>6. g[{}] = e
  BY <1>5
<1>7. CASE e.timers = {}
  BY <1>1, <1>6, <1>7 DEF flushPath
<1>8. CASE e.timers # {}
  <2>1. e.timers \in SUBSET e.timers /\ (CHOOSE x \in e.timers : TRUE) = f /\ e.timers \ {f} = {}
    BY <1>2, <1>8
  <2>2. g[e.timers] = flushPath(g[e.timers \ {CHOOSE x \in e.timers : TRUE}], CHOOSE x \in e.timers : TRUE)
    BY <1>5, <1>8
  <2> QED
    BY <1>1, <1>6, <2>1, <2>2
<1> QED
  BY <1>7, <1>8

Origins == {"manual", "ai_applied"}
EdRecord == [posted : [Paths -> Texts], current : [Paths -> Texts], timers : SUBSET Paths, sequence : Nat,
             queue : Seq(DiffRequest), by : [Paths -> SUBSET {"manual", "ai_applied"}]]

(* Requests are numbered in the order of the queue, and have one origin. *)
QueueInv(e) ==
    /\ \A i \in 1..Len(e.queue) : e.queue[i].clientSeq <= e.sequence /\ e.queue[i].by \subseteq {e.queue[i].origin}
    /\ \A i, j \in 1..Len(e.queue) : i < j => e.queue[i].clientSeq < e.queue[j].clientSeq

(* What was typed since the last diff waits for the timer of the file in   *)
(* the editor.                                                             *)
EdInv(e, f) ==
    /\ e \in EdRecord
    /\ e.timers \subseteq {f}
    /\ \A p \in Paths : e.by[p] \subseteq {"manual"}
    /\ \A p \in Paths \ e.timers : e.by[p] = {} /\ e.posted[p] = e.current[p]
    /\ QueueInv(e)

(* d is e after a diff of p is queued, or after there was nothing to queue. *)
Extends(e, d, p) ==
    /\ \A q \in Paths \ {p} : d.posted[q] = e.posted[q]
    /\ \/ d.queue = e.queue /\ d.sequence = e.sequence /\ d.posted[p] = e.posted[p]
       \/ \E r \in DiffRequest : /\ d.queue = Append(e.queue, r) /\ r.path = p
                                 /\ r.clientSeq = e.sequence + 1 /\ d.sequence = e.sequence + 1
                                 /\ ReplayStep(e.posted[p], p, r) = d.posted[p]

(* A diff is queued: replay will make the posted text of it. *)
LEMMA EnqueueGrows ==
    ASSUME NEW e \in EdRecord, NEW p \in Paths, NEW origin \in Origins, QueueInv(e), e.by[p] \subseteq {origin}
    PROVE  LET d == enqueue(e, p, origin) IN
           /\ d \in EdRecord /\ d.timers = e.timers /\ d.current = e.current
           /\ d.by = [e.by EXCEPT ![p] = {}] /\ d.posted[p] = e.current[p]
           /\ Extends(e, d, p) /\ QueueInv(d)
<1> DEFINE d == enqueue(e, p, origin)
<1>1. /\ e.posted \in [Paths -> Texts] /\ e.current \in [Paths -> Texts] /\ e.timers \in SUBSET Paths
      /\ e.sequence \in Nat /\ e.queue \in Seq(DiffRequest) /\ e.by \in [Paths -> SUBSET {"manual", "ai_applied"}]
  BY DEF EdRecord
<1>2. [e.by EXCEPT ![p] = {}] \in [Paths -> SUBSET {"manual", "ai_applied"}]
  BY <1>1
<1>3. CASE e.posted[p] = e.current[p]
  <2>1. d = [e EXCEPT !.by[p] = {}]
    BY <1>3 DEF enqueue
  <2>2. /\ d.posted = e.posted /\ d.current = e.current /\ d.timers = e.timers /\ d.sequence = e.sequence
        /\ d.queue = e.queue /\ d.by = [e.by EXCEPT ![p] = {}] /\ d \in EdRecord
    BY <1>1, <1>2, <2>1 DEF EdRecord
  <2> HIDE DEF d
  <2>3. Extends(e, d, p) /\ QueueInv(d)
    BY <2>2 DEF Extends, QueueInv
  <2> QED
    BY <1>3, <2>2, <2>3 DEF d
<1>4. CASE e.posted[p] # e.current[p]
  <2>1. PICK patch : patch = structuredPatch(e.posted[p], e.current[p])
    OBVIOUS
  <2>2. PICK r : r = [clientSeq |-> e.sequence + 1, origin |-> origin, path |-> p, patch |-> patch, by |-> e.by[p]]
    OBVIOUS
  <2>3. e.posted[p] \in Texts /\ e.current[p] \in Texts
    BY <1>1
  <2>4. r \in DiffRequest /\ r.path = p /\ r.clientSeq = e.sequence + 1 /\ r.by \subseteq {r.origin} /\ r.patch = patch
    BY <1>1, <2>1, <2>2, <2>3 DEF DiffRequest, Origins
  <2>5. d = [e EXCEPT !.sequence = @ + 1, !.by[p] = {}, !.posted[p] = e.current[p], !.queue = Append(@, r)]
    BY <1>4, <2>1, <2>2 DEF enqueue
  <2>6. Append(e.queue, r) \in Seq(DiffRequest) /\ e.sequence + 1 \in Nat
    BY <1>1, <2>4
  <2>7. PICK posted \in [Paths -> Texts] : posted = [e.posted EXCEPT ![p] = e.current[p]]
    BY <1>1, <2>3
  <2>8. /\ d.posted = posted /\ d.current = e.current /\ d.timers = e.timers /\ d.sequence = e.sequence + 1
        /\ d.queue = Append(e.queue, r) /\ d.by = [e.by EXCEPT ![p] = {}]
    BY <2>5, <2>7 DEF EdRecord
  <2>9. d = [posted |-> d.posted, current |-> d.current, timers |-> d.timers, sequence |-> d.sequence,
             queue |-> d.queue, by |-> d.by]
    BY <2>5 DEF EdRecord
  <2> HIDE DEF d
  <2>10. d \in EdRecord
    BY <1>1, <1>2, <2>6, <2>8, <2>9 DEF EdRecord
  <2>11. posted[p] = e.current[p] /\ \A q \in Paths \ {p} : posted[q] = e.posted[q]
    BY <1>1, <2>7
  <2>12. ReplayStep(e.posted[p], p, r) = d.posted[p]
    BY <1>4, <2>1, <2>3, <2>4, <2>8, <2>11, PatchesApply DEF ReplayStep
  <2>13. Extends(e, d, p)
    BY <2>4, <2>8, <2>11, <2>12 DEF Extends
  <2>14. QueueInv(d)
    <3>1. Len(e.queue) \in Nat /\ Len(d.queue) = Len(e.queue) + 1 /\ d.queue[Len(e.queue) + 1] = r
          /\ \A i \in 1..Len(e.queue) : d.queue[i] = e.queue[i] /\ e.queue[i].clientSeq \in Nat
      <4>1. \A i \in 1..Len(e.queue) : e.queue[i] \in DiffRequest
        BY <1>1
      <4>2. \A i \in 1..Len(e.queue) : e.queue[i].clientSeq \in Nat
        BY <4>1 DEF DiffRequest
      <4>3. /\ Len(e.queue) \in Nat /\ Len(d.queue) = Len(e.queue) + 1 /\ d.queue[Len(e.queue) + 1] = r
            /\ \A i \in 1..Len(e.queue) : d.queue[i] = e.queue[i]
        BY <1>1, <2>4, <2>8
      <4> QED
        BY <4>2, <4>3
    <3>2. \A i \in 1..Len(d.queue) : i \in 1..Len(e.queue) \/ i = Len(e.queue) + 1
      BY <3>1
    <3>3. ASSUME NEW i \in 1..Len(d.queue)
          PROVE  d.queue[i].clientSeq <= d.sequence /\ d.queue[i].by \subseteq {d.queue[i].origin}
      <4>1. CASE i \in 1..Len(e.queue)
        <5>1. PICK n \in Nat : n = e.queue[i].clientSeq /\ n <= e.sequence
          BY <3>1, <4>1 DEF QueueInv
        <5> QED
          BY <1>1, <2>8, <3>1, <4>1, <5>1 DEF QueueInv
      <4>2. CASE i = Len(e.queue) + 1
        BY <1>1, <2>4, <2>8, <3>1, <4>2
      <4> QED
        BY <3>2, <4>1, <4>2
    <3>4. ASSUME NEW i \in 1..Len(d.queue), NEW j \in 1..Len(d.queue), i < j
          PROVE  d.queue[i].clientSeq < d.queue[j].clientSeq
      <4>1. i \in 1..Len(e.queue)
        BY <3>1, <3>4
      <4>2. CASE j \in 1..Len(e.queue)
        BY <3>1, <3>4, <4>1, <4>2 DEF QueueInv
      <4>3. CASE j = Len(e.queue) + 1
        <5>1. PICK n \in Nat : n = e.queue[i].clientSeq /\ n <= e.sequence
          BY <3>1, <4>1 DEF QueueInv
        <5>2. d.queue[i] = e.queue[i] /\ d.queue[j] = r
          BY <3>1, <4>1, <4>3
        <5>3. r.clientSeq = e.sequence + 1 /\ e.sequence \in Nat
          BY <1>1, <2>4, <3>1
        <5> QED
          BY <5>1, <5>2, <5>3
      <4> QED
        BY <3>2, <4>2, <4>3
    <3> QED
      BY <3>3, <3>4 DEF QueueInv
  <2> QED
    BY <2>8, <2>10, <2>11, <2>13, <2>14 DEF d
<1> QED
  BY <1>3, <1>4

(* A timer fires, or is made to. *)
LEMMA FlushPathInv ==
    ASSUME NEW e, NEW f \in Paths, EdInv(e, f), NEW p \in Paths
    PROVE  LET d == flushPath(e, p) IN
           /\ EdInv(d, f) /\ d.timers = e.timers \ {p} /\ d.current = e.current
           /\ d.posted[p] = d.current[p] /\ d.by[p] = {} /\ Extends(e, d, p)
<1>1. CASE p \notin e.timers
  <2>1. flushPath(e, p) = e
    BY <1>1 DEF flushPath
  <2>2. Extends(e, e, p)
    BY DEF Extends
  <2> QED
    BY <1>1, <2>1, <2>2 DEF EdInv
<1>2. CASE p \in e.timers
  <2>1. PICK x : x = [e EXCEPT !.timers = @ \ {p}]
    OBVIOUS
  <2>2. /\ x \in EdRecord /\ x.timers = e.timers \ {p} /\ x.posted = e.posted /\ x.current = e.current
        /\ x.sequence = e.sequence /\ x.queue = e.queue /\ x.by = e.by
    BY <2>1 DEF EdInv, EdRecord
  <2>3. PICK d : d = enqueue(x, p, "manual")
    OBVIOUS
  <2>4. flushPath(e, p) = d
    BY <1>2, <2>1, <2>3 DEF flushPath
  <2>5. QueueInv(x) /\ x.by[p] \subseteq {"manual"} /\ "manual" \in Origins
    BY <2>2 DEF EdInv, QueueInv, Origins
  <2>6. /\ d \in EdRecord /\ d.timers = x.timers /\ d.current = x.current
        /\ d.by = [x.by EXCEPT ![p] = {}] /\ d.posted[p] = x.current[p]
        /\ Extends(x, d, p) /\ QueueInv(d)
    BY <2>2, <2>3, <2>5, EnqueueGrows
  <2>7. Extends(e, d, p)
    BY <2>2, <2>6 DEF Extends
  <2>8. d.by[p] = {} /\ \A q \in Paths \ {p} : d.by[q] = e.by[q] /\ d.posted[q] = e.posted[q]
    BY <2>2, <2>6, <2>7 DEF EdRecord, Extends
  <2>9. ASSUME NEW q \in Paths
        PROVE  d.by[q] \subseteq {"manual"} /\ (q \notin d.timers => d.by[q] = {} /\ d.posted[q] = d.current[q])
    BY <2>2, <2>6, <2>8 DEF EdInv
  <2>10. EdInv(d, f)
    BY <2>2, <2>6, <2>9 DEF EdInv
  <2> QED
    BY <2>2, <2>4, <2>6, <2>7, <2>8, <2>10
<1> QED
  BY <1>1, <1>2

-----------------------------------------------------------------------------
(* The queue, the wire and the log.  Parameters: the debouncer e, its      *)
(* queue q, the wire w, the answer a, the last sequence l, the log m, the  *)
(* strayed files s and the run r.  P is all that is still to be handled,   *)
(* in the order of its numbers; the page has given up the first g of it.   *)

Unsent(q, a) == IF a = "none" THEN q ELSE Tail(q)
Pend(q, w, a) == w \o Unsent(q, a)
Left(w, a) == IF a = "awaited" THEN Len(w) - 1 ELSE Len(w)

(* The request the page waits for is the first of the queue and the last   *)
(* on the wire.                                                            *)
LinkInv(q, w, a) ==
    /\ a # "none" => q # <<>>
    /\ a = "awaited" => w # <<>> /\ w[Len(w)] = Head(q)

(* Only what was given up may be overtaken. *)
WireInv(P, g, l, n) ==
    /\ \A i \in 1..Len(P) : P[i].clientSeq <= n /\ (g < i => l < P[i].clientSeq)
    /\ \A i, j \in 1..Len(P) : i < j => P[i].clientSeq < P[j].clientSeq
    /\ l <= n

(* Files no edit of which is lost or will be dropped as out of order. *)
Intact(P, l, s) == {p \in Paths \ s : \A i \in 1..Len(P) : P[i].path = p => l < P[i].clientSeq}

TextNow(m, p) == Replay(Starter[p], m, p, Len(m))

(* What is logged and what is still to be handled make the posted text. *)
TextInv(e, P, l, m, s) ==
    \A p \in Intact(P, l, s) : Replay(TextNow(m, p), P, p, Len(P)) = e.posted[p]

(* The code of a run is logged, or will be once what was queued is. *)
CodeLogged(m, r) == \E k \in 0..Len(m) : Replay(Starter[r.path], m, r.path, k) = r.text
CodeQueued(P, m, r) ==
    \E i \in 1..Len(P) : P[i].clientSeq <= r.after /\ Replay(TextNow(m, r.path), P, r.path, i) = r.text
RunInv(P, l, m, s, r) ==
    r.pc = "flush" => r.text \in Texts /\ (r.path \in Intact(P, l, s) => CodeLogged(m, r) \/ CodeQueued(P, m, r))

PendInv(e, P, g, l, m, s, r) ==
    (s # Paths => WireInv(P, g, l, e.sequence)) /\ TextInv(e, P, l, m, s) /\ RunInv(P, l, m, s, r)

SentInv(e, w, a, l, m, s, r) ==
    LinkInv(e.queue, w, a) /\ PendInv(e, Pend(e.queue, w, a), Left(w, a), l, m, s, r)

(* The queue is not touched. *)
LEMMA SameQueue ==
    ASSUME NEW e, NEW d, NEW w, NEW a, NEW l, NEW m, NEW s \in SUBSET Paths, NEW t \in SUBSET Paths, NEW r,
           SentInv(e, w, a, l, m, s, r), s \subseteq t, d.queue = e.queue, d.sequence = e.sequence,
           \A p \in Paths \ t : d.posted[p] = e.posted[p]
    PROVE  SentInv(d, w, a, l, m, t, r)
<1>1. PICK P : P = Pend(e.queue, w, a)
  OBVIOUS
<1>2. PICK g : g = Left(w, a)
  OBVIOUS
<1>3. LinkInv(e.queue, w, a) /\ PendInv(e, P, g, l, m, s, r)
  BY <1>1, <1>2 DEF SentInv
<1>4. \A p \in Intact(P, l, t) : p \in Intact(P, l, s) /\ p \in Paths \ t
  BY DEF Intact
<1>5. t # Paths => WireInv(P, g, l, d.sequence)
  BY <1>3 DEF PendInv
<1>6. TextInv(d, P, l, m, t)
  BY <1>3, <1>4 DEF PendInv, TextInv
<1>7. RunInv(P, l, m, t, r)
  BY <1>3, <1>4 DEF PendInv, RunInv
<1>8. PendInv(d, P, g, l, m, t, r)
  BY <1>5, <1>6, <1>7 DEF PendInv
<1> QED
  BY <1>1, <1>2, <1>3, <1>8 DEF SentInv

(* What is still to be handled. *)
LEMMA PendTyped ==
    ASSUME NEW q \in Seq(DiffRequest), NEW w \in Seq(DiffRequest), NEW a, LinkInv(q, w, a)
    PROVE  /\ Unsent(q, a) \in Seq(DiffRequest) /\ Pend(q, w, a) \in Seq(DiffRequest)
           /\ Len(Pend(q, w, a)) = Len(w) + Len(Unsent(q, a))
           /\ Left(w, a) \in Nat /\ Left(w, a) <= Len(w) /\ Len(w) <= Left(w, a) + 1
           /\ \A j \in 1..Len(w) : Pend(q, w, a)[j] = w[j]
           /\ \A j \in 1..Len(Unsent(q, a)) : Pend(q, w, a)[Len(w) + j] = Unsent(q, a)[j]
<1>1. PICK u \in Seq(DiffRequest) : u = Unsent(q, a)
  <2>1. CASE a = "none"
    BY <2>1 DEF Unsent
  <2>2. CASE a # "none"
    <3>1. q # <<>> /\ Tail(q) \in Seq(DiffRequest)
      BY <2>2 DEF LinkInv
    <3> QED
      BY <2>2, <3>1 DEF Unsent
  <2> QED
    BY <2>1, <2>2
<1>2. /\ w \o u \in Seq(DiffRequest) /\ Len(w \o u) = Len(w) + Len(u)
      /\ \A j \in 1..Len(w) : (w \o u)[j] = w[j]
      /\ \A j \in 1..Len(u) : (w \o u)[Len(w) + j] = u[j]
  OBVIOUS
<1>3. Pend(q, w, a) = w \o u
  BY <1>1 DEF Pend
<1>4. Left(w, a) \in Nat /\ Left(w, a) <= Len(w) /\ Len(w) <= Left(w, a) + 1
  <2>1. Len(w) \in Nat /\ (a = "awaited" => Len(w) # 0)
    BY DEF LinkInv
  <2> QED
    BY <2>1 DEF Left
<1> QED
  BY <1>1, <1>2, <1>3, <1>4

(* What the page has not given up is in its queue. *)
LEMMA PendQueued ==
    ASSUME NEW q \in Seq(DiffRequest), NEW w \in Seq(DiffRequest), NEW a, LinkInv(q, w, a),
           NEW j \in 1..Len(Pend(q, w, a)), Left(w, a) < j
    PROVE  Pend(q, w, a)[j] \in Range(q)
<1>1. PICK u \in Seq(DiffRequest) : u = Unsent(q, a)
  BY PendTyped
<1>2. PICK P \in Seq(DiffRequest) : P = Pend(q, w, a) /\ Len(P) = Len(w) + Len(u)
  BY <1>1, PendTyped
<1>3. /\ \A k \in 1..Len(w) : P[k] = w[k]
      /\ \A k \in 1..Len(u) : P[Len(w) + k] = u[k]
  BY <1>1, <1>2, PendTyped
<1>4. \A k \in 1..Len(u) : u[k] \in Range(q)
  <2>1. CASE a = "none"
    BY <1>1, <2>1 DEF Unsent, Range
  <2>2. CASE a # "none"
    <3>1. q # <<>> /\ u = Tail(q)
      BY <1>1, <2>2 DEF Unsent, LinkInv
    <3>2. Len(q) = Len(u) + 1 /\ DOMAIN q = 1..Len(q) /\ \A k \in 1..Len(u) : u[k] = q[k + 1]
      BY <3>1
    <3>3. \A k \in 1..Len(u) : k + 1 \in DOMAIN q
      BY <3>2
    <3> QED
      BY <3>2, <3>3 DEF Range
  <2> QED
    BY <2>1, <2>2
<1>5. CASE j <= Len(w)
  <2>1. a = "awaited" /\ j = Len(w)
    BY <1>5 DEF Left
  <2>2. q # <<>> /\ w[j] = Head(q)
    BY <2>1 DEF LinkInv
  <2>3. Head(q) = q[1] /\ 1 \in DOMAIN q
    BY <2>2
  <2>4. P[j] = w[j]
    BY <1>3, <1>5
  <2> QED
    BY <1>2, <2>2, <2>3, <2>4 DEF Range
<1>6. CASE ~(j <= Len(w))
  <2>1. PICK k \in 1..Len(u) : j = Len(w) + k
    <3>1. j - Len(w) \in 1..Len(u) /\ j = Len(w) + (j - Len(w))
      BY <1>2, <1>6
    <3> QED
      BY <3>1
  <2> QED
    BY <1>2, <1>3, <1>4, <2>1
<1> QED
  BY <1>5, <1>6

(* A request is added to what is still to be handled. *)
LEMMA PendAppend ==
    ASSUME NEW q \in Seq(DiffRequest), NEW w \in Seq(DiffRequest), NEW r \in DiffRequest, NEW a, LinkInv(q, w, a)
    PROVE  LinkInv(Append(q, r), w, a) /\ Pend(Append(q, r), w, a) = Append(Pend(q, w, a), r)
<1>1. Append(q, r) # <<>> /\ (q # <<>> => Head(Append(q, r)) = Head(q))
  OBVIOUS
<1>2. LinkInv(Append(q, r), w, a)
  BY <1>1 DEF LinkInv
<1>3. PICK u \in Seq(DiffRequest) : u = Unsent(q, a)
  BY PendTyped
<1>4. Unsent(Append(q, r), a) = Append(u, r)
  <2>1. CASE a = "none"
    BY <1>3, <2>1 DEF Unsent
  <2>2. CASE a # "none"
    <3>1. q # <<>> /\ u = Tail(q)
      BY <1>3, <2>2 DEF Unsent, LinkInv
    <3>2. Tail(Append(q, r)) = Append(Tail(q), r)
      BY <3>1
    <3> QED
      BY <2>2, <3>1, <3>2 DEF Unsent
  <2> QED
    BY <2>1, <2>2
<1>5. w \o Append(u, r) = Append(w \o u, r)
  OBVIOUS
<1> QED
  BY <1>2, <1>3, <1>4, <1>5 DEF Pend

(* A diff is queued. *)
LEMMA ExtendKeeps ==
    ASSUME NEW e \in EdRecord, NEW d \in EdRecord, NEW p \in Paths, Extends(e, d, p),
           NEW w \in Seq(DiffRequest), NEW a, NEW l \in Nat, NEW m, NEW s \in SUBSET Paths, NEW r, r.path \in Paths,
           SentInv(e, w, a, l, m, s, r)
    PROVE  SentInv(d, w, a, l, m, s, r)
<1>1. CASE d.queue = e.queue /\ d.sequence = e.sequence /\ d.posted[p] = e.posted[p]
  <2>1. \A q \in Paths \ s : d.posted[q] = e.posted[q]
    BY <1>1 DEF Extends
  <2> QED
    BY <1>1, <2>1, SameQueue
<1>2. ASSUME NEW x \in DiffRequest, d.queue = Append(e.queue, x), x.path = p, x.clientSeq = e.sequence + 1,
             d.sequence = e.sequence + 1, ReplayStep(e.posted[p], p, x) = d.posted[p]
      PROVE  SentInv(d, w, a, l, m, s, r)
  <2>1. e.queue \in Seq(DiffRequest) /\ e.sequence \in Nat /\ LinkInv(e.queue, w, a)
    BY DEF SentInv, EdRecord
  <2>2. PICK P \in Seq(DiffRequest) : P = Pend(e.queue, w, a)
    BY <2>1, PendTyped
  <2>3. PICK g \in Nat : g = Left(w, a)
    BY <2>1, PendTyped
  <2>4. PICK Q : Q = Append(P, x)
    OBVIOUS
  <2>5. LinkInv(d.queue, w, a) /\ Pend(d.queue, w, a) = Q
    BY <1>2, <2>1, <2>2, <2>4, PendAppend
  <2>6. PendInv(e, P, g, l, m, s, r)
    BY <2>2, <2>3 DEF SentInv
  <2>7. /\ Len(P) \in Nat /\ Len(Q) = Len(P) + 1 /\ Q[Len(P) + 1] = x /\ Q \in Seq(DiffRequest)
        /\ \A i \in 1..Len(P) : Q[i] = P[i] /\ i \in 1..Len(Q)
        /\ \A i \in 1..Len(Q) : i \in 1..Len(P) \/ i = Len(P) + 1
    BY <2>4
  <2>8. \A q \in Intact(Q, l, s) : q \in Intact(P, l, s)
    BY <2>7 DEF Intact
  <2>9. ASSUME s # Paths PROVE WireInv(Q, g, l, d.sequence)
    <3>1. WireInv(P, g, l, e.sequence)
      BY <2>6, <2>9 DEF PendInv
    <3>2. \A i \in 1..Len(P) : P[i].clientSeq \in Nat
      <4>1. \A i \in 1..Len(P) : P[i] \in DiffRequest
        OBVIOUS
      <4> QED
        BY <4>1 DEF DiffRequest
    <3>3. ASSUME NEW i \in 1..Len(Q) PROVE Q[i].clientSeq <= d.sequence /\ (g < i => l < Q[i].clientSeq)
      <4>1. CASE i \in 1..Len(P)
        <5>1. PICK n \in Nat : n = P[i].clientSeq /\ n <= e.sequence /\ (g < i => l < n)
          BY <3>1, <3>2, <4>1 DEF WireInv
        <5> QED
          BY <1>2, <2>1, <2>7, <4>1, <5>1
      <4>2. CASE i = Len(P) + 1
        <5>1. l <= e.sequence
          BY <3>1 DEF WireInv
        <5> QED
          BY <1>2, <2>1, <2>7, <4>2, <5>1
      <4> QED
        BY <2>7, <4>1, <4>2
    <3>4. ASSUME NEW i \in 1..Len(Q), NEW j \in 1..Len(Q), i < j PROVE Q[i].clientSeq < Q[j].clientSeq
      <4>1. i \in 1..Len(P)
        BY <2>7, <3>4
      <4>2. CASE j \in 1..Len(P)
        BY <2>7, <3>1, <3>4, <4>1, <4>2 DEF WireInv
      <4>3. CASE j = Len(P) + 1
        <5>1. PICK n \in Nat : n = P[i].clientSeq /\ n <= e.sequence
          BY <3>1, <3>2, <4>1 DEF WireInv
        <5>2. Q[i].clientSeq = n /\ Q[j].clientSeq = e.sequence + 1
          BY <1>2, <2>7, <4>1, <4>3, <5>1
        <5> QED
          BY <2>1, <5>1, <5>2
      <4> QED
        BY <2>7, <4>2, <4>3
    <3>5. l <= d.sequence
      BY <1>2, <2>1, <3>1 DEF WireInv
    <3> QED
      BY <3>3, <3>4, <3>5 DEF WireInv
  <2>10. TextInv(d, Q, l, m, s)
    <3>1. ASSUME NEW q \in Intact(Q, l, s) PROVE Replay(TextNow(m, q), Q, q, Len(Q)) = d.posted[q]
      <4>1. Replay(TextNow(m, q), P, q, Len(P)) = e.posted[q] /\ q \in Paths
        BY <2>6, <2>8, <3>1 DEF PendInv, TextInv, Intact
      <4>2. Replay(TextNow(m, q), Q, q, Len(P) + 1) = ReplayStep(e.posted[q], q, x)
        BY <2>4, <4>1, ReplayAppend
      <4>3. q # p => ReplayStep(e.posted[q], q, x) = e.posted[q] /\ d.posted[q] = e.posted[q]
        BY <1>2, <4>1 DEF ReplayStep, Extends
      <4> QED
        BY <1>2, <2>7, <4>2, <4>3
    <3> QED
      BY <3>1 DEF TextInv
  <2>11. RunInv(Q, l, m, s, r)
    <3>1. ASSUME CodeQueued(P, m, r) PROVE CodeQueued(Q, m, r)
      <4>1. PICK i \in 1..Len(P) : P[i].clientSeq <= r.after /\ Replay(TextNow(m, r.path), P, r.path, i) = r.text
        BY <3>1 DEF CodeQueued
      <4>2. i \in 1..Len(Q) /\ Q[i] = P[i] /\ i \in 0..Len(P)
        BY <2>7
      <4>3. Replay(TextNow(m, r.path), Q, r.path, i) = Replay(TextNow(m, r.path), P, r.path, i)
        BY <2>4, <4>2, ReplayAppend
      <4> QED
        BY <4>1, <4>2, <4>3 DEF CodeQueued
    <3> QED
      BY <2>6, <2>8, <3>1 DEF PendInv, RunInv
  <2>12. PendInv(d, Q, g, l, m, s, r)
    BY <2>9, <2>10, <2>11 DEF PendInv
  <2> QED
    BY <2>3, <2>5, <2>12 DEF SentInv
<1> QED
  BY <1>1, <1>2 DEF Extends

(* Requests have numbers. *)
LEMMA Numbered == ASSUME NEW P \in Seq(DiffRequest) PROVE \A j \in 1..Len(P) : P[j].clientSeq \in Nat
<1>1. \A j \in 1..Len(P) : P[j] \in DiffRequest
  OBVIOUS
<1>2. \A x \in DiffRequest : x.clientSeq \in Nat
  BY DEF DiffRequest
<1> QED
  BY <1>1, <1>2

(* What handling the i-th request makes of the last sequence, the log and  *)
(* the strayed files: it is recorded, or the edit is lost.                 *)
Outcome(x, l, n, m, k, t) ==
    \/ l < x.clientSeq /\ n = x.clientSeq /\ \A p : TextNow(k, p) = ReplayStep(TextNow(m, p), p, x)
    \/ n = l /\ k = m /\ x.path \in t

(* A file that is intact afterwards was so before; nothing of it that is   *)
(* older than the request was still to be handled.                         *)
LEMMA HandledIntact ==
    ASSUME NEW P \in Seq(DiffRequest), NEW i \in 1..Len(P), NEW Q, Q = RemoveAt(P, i), NEW g \in Nat,
           NEW l \in Nat, NEW n \in Nat, NEW m, NEW k, NEW s \in SUBSET Paths, NEW t \in SUBSET Paths, s \subseteq t,
           NEW last, s # Paths => WireInv(P, g, l, last), Outcome(P[i], l, n, m, k, t), NEW p \in Intact(Q, n, t)
    PROVE  /\ p \in Intact(P, l, s) /\ s # Paths
           /\ TextNow(k, p) = ReplayStep(TextNow(m, p), p, P[i])
           /\ P[i].path # p \/ \A j \in 1..(i - 1) : P[j].path # p
<1>1. /\ Len(P) \in Nat /\ Len(Q) = Len(P) - 1 /\ i \in Nat
      /\ \A j \in 1..(i - 1) : Q[j] = P[j]
      /\ \A j \in i..(Len(P) - 1) : Q[j] = P[j + 1]
  <2>1. Len(P) \in Nat /\ i \in Nat
    OBVIOUS
  <2> QED
    BY <2>1, Removed
<1>2. \A j \in 1..Len(P) : P[j].clientSeq \in Nat
  BY Numbered
<1>3. p \in Paths /\ p \notin t /\ p \notin s /\ s # Paths
  BY DEF Intact
<1>4. \A j \in 1..Len(Q) : Q[j].path = p => n < Q[j].clientSeq
  BY DEF Intact
<1>5. l <= n
  <2>1. P[i].clientSeq \in Nat
    BY <1>2
  <2> QED
    BY <2>1 DEF Outcome
<1>6. ASSUME NEW j \in 1..Len(P), j # i, P[j].path = p PROVE n < P[j].clientSeq
  <2>1. CASE j < i
    <3>1. j \in 1..(i - 1) /\ j \in 1..Len(Q)
      BY <1>1, <2>1
    <3>2. Q[j] = P[j]
      BY <1>1, <3>1
    <3> QED
      BY <1>4, <1>6, <3>1, <3>2
  <2>2. CASE i < j
    <3>1. PICK c \in 1..Len(Q) : c \in i..(Len(P) - 1) /\ c + 1 = j
      <4>1. j - 1 \in 1..Len(Q) /\ j - 1 \in i..(Len(P) - 1) /\ (j - 1) + 1 = j
        BY <1>1, <2>2
      <4> QED
        BY <4>1
    <3>2. Q[c] = P[j]
      BY <1>1, <3>1
    <3> QED
      BY <1>4, <1>6, <3>1, <3>2
  <2> QED
    BY <1>1, <1>6, <2>1, <2>2
<1>7. P[i].path = p => l < P[i].clientSeq /\ n = P[i].clientSeq
  BY <1>3 DEF Outcome
<1>8. p \in Intact(P, l, s)
  <2>1. ASSUME NEW j \in 1..Len(P), P[j].path = p PROVE l < P[j].clientSeq
    <3>1. CASE j = i
      BY <1>7, <2>1, <3>1
    <3>2. CASE j # i
      <4>1. n < P[j].clientSeq /\ P[j].clientSeq \in Nat
        BY <1>2, <1>6, <2>1, <3>2
      <4> QED
        BY <1>5, <4>1
    <3> QED
      BY <3>1, <3>2
  <2> QED
    BY <1>3, <2>1 DEF Intact
<1>9. TextNow(k, p) = ReplayStep(TextNow(m, p), p, P[i])
  <2>1. CASE n = l /\ k = m /\ P[i].path \in t
    <3>1. P[i].path # p
      BY <1>3, <2>1
    <3> QED
      BY <2>1, <3>1 DEF ReplayStep
  <2> QED
    BY <2>1 DEF Outcome
<1>10. ASSUME P[i].path = p, NEW j \in 1..(i - 1), P[j].path = p PROVE FALSE
  <2>1. j \in 1..Len(P) /\ j < i /\ j # i
    BY <1>1
  <2>2. P[j].clientSeq < P[i].clientSeq
    BY <1>3, <2>1 DEF WireInv
  <2>3. n < P[j].clientSeq /\ n = P[i].clientSeq
    BY <1>6, <1>7, <1>10, <2>1
  <2>4. P[i].clientSeq \in Nat /\ P[j].clientSeq \in Nat
    BY <1>2, <2>1
  <2> QED
    BY <2>2, <2>3, <2>4
<1> QED
  BY <1>3, <1>8, <1>9, <1>10

(* The numbers still rise, and only what was given up may be overtaken. *)
LEMMA HandledWire ==
    ASSUME NEW P \in Seq(DiffRequest), NEW i \in 1..Len(P), NEW Q, Q = RemoveAt(P, i), NEW g \in Nat, NEW h \in Nat,
           i <= g + 1, h = IF i <= g THEN g - 1 ELSE g, NEW l \in Nat, NEW n \in Nat, NEW last \in Nat,
           WireInv(P, g, l, last), n = l \/ (l < P[i].clientSeq /\ n = P[i].clientSeq)
    PROVE  WireInv(Q, h, n, last)
<1>1. /\ Len(P) \in Nat /\ Len(Q) = Len(P) - 1 /\ i \in Nat
      /\ \A j \in 1..(i - 1) : Q[j] = P[j]
      /\ \A j \in i..(Len(P) - 1) : Q[j] = P[j + 1]
  <2>1. Len(P) \in Nat /\ i \in Nat
    OBVIOUS
  <2> QED
    BY <2>1, Removed
<1>2. \A j \in 1..Len(P) : P[j].clientSeq \in Nat
  BY Numbered
<1> DEFINE at(j) == IF j < i THEN j ELSE j + 1
<1>3. ASSUME NEW j \in 1..Len(Q) PROVE at(j) \in 1..Len(P) /\ Q[j] = P[at(j)]
  <2>1. CASE j < i
    BY <1>1, <2>1
  <2>2. CASE ~(j < i)
    BY <1>1, <2>2
  <2> QED
    BY <2>1, <2>2
<1>4. ASSUME NEW j \in 1..Len(Q) PROVE Q[j].clientSeq <= last /\ (h < j => n < Q[j].clientSeq)
  <2>1. Q[j].clientSeq <= last
    BY <1>3 DEF WireInv
  <2>2. ASSUME h < j PROVE n < Q[j].clientSeq
    <3>1. ~(j < i) /\ g < j + 1 /\ i < j + 1
      BY <1>1, <2>2
    <3>2. j + 1 \in 1..Len(P) /\ Q[j] = P[j + 1]
      BY <1>3, <3>1
    <3>3. l < P[j + 1].clientSeq /\ P[i].clientSeq < P[j + 1].clientSeq
      BY <3>1, <3>2 DEF WireInv
    <3> QED
      BY <3>2, <3>3
  <2> QED
    BY <2>1, <2>2
<1>5. ASSUME NEW j \in 1..Len(Q), NEW c \in 1..Len(Q), j < c PROVE Q[j].clientSeq < Q[c].clientSeq
  <2>1. at(j) < at(c)
    BY <1>1, <1>5
  <2>2. at(j) \in 1..Len(P) /\ at(c) \in 1..Len(P) /\ Q[j] = P[at(j)] /\ Q[c] = P[at(c)]
    BY <1>3
  <2> HIDE DEF at
  <2> QED
    BY <2>1, <2>2 DEF WireInv
<1>6. n <= last
  BY <1>2 DEF WireInv
<1> QED
  BY <1>4, <1>5, <1>6 DEF WireInv

(* The code of a run is logged, or still on its way. *)
LEMMA HandledCode ==
    ASSUME NEW P \in Seq(DiffRequest), NEW i \in 1..Len(P), NEW Q, Q = RemoveAt(P, i), NEW m, NEW k,
           Len(m) \in Nat, Len(k) \in Nat, Len(m) <= Len(k), NEW r, r.after \in Nat,
           \A j \in 0..Len(m) : Replay(Starter[r.path], k, r.path, j) = Replay(Starter[r.path], m, r.path, j),
           TextNow(k, r.path) = ReplayStep(TextNow(m, r.path), r.path, P[i]),
           P[i].path # r.path \/ \A j \in 1..(i - 1) : P[j].path # r.path,
           \A j \in 1..Len(P) : \A c \in 1..Len(P) : j < c => P[j].clientSeq < P[c].clientSeq,
           CodeLogged(m, r) \/ CodeQueued(P, m, r)
    PROVE  CodeLogged(k, r) \/ CodeQueued(Q, k, r)
<1>1. /\ Len(P) \in Nat /\ Len(Q) \in Nat /\ Len(Q) = Len(P) - 1 /\ i \in Nat
      /\ \A j \in 1..(i - 1) : Q[j] = P[j]
      /\ \A j \in i..(Len(P) - 1) : Q[j] = P[j + 1]
  <2>1. Len(P) \in Nat /\ i \in Nat
    OBVIOUS
  <2> QED
    BY <2>1, Removed
<1>2. \A j \in 1..Len(P) : P[j].clientSeq \in Nat
  BY Numbered
<1>3. PICK p : p = r.path
  OBVIOUS
<1>4. PICK text : text = TextNow(m, p)
  OBVIOUS
<1>5. PICK t : t = TextNow(k, p) /\ t = ReplayStep(text, p, P[i])
  BY <1>3, <1>4
<1>6. /\ \A n \in i..Len(P) : Replay(t, Q, p, n - 1) = Replay(text, P, p, n)
      /\ \A n \in 0..(i - 1) : \/ Replay(text, P, p, n) = text
                               \/ t = text /\ Replay(t, Q, p, n) = Replay(text, P, p, n)
  BY <1>3, <1>5, ReplayWithout
<1>7. \A j \in 0..Len(m) : j \in 0..Len(k)
  OBVIOUS
<1>8. text = r.text => CodeLogged(k, r)
  <2>1. Len(m) \in 0..Len(m)
    OBVIOUS
  <2> QED
    BY <1>3, <1>4, <1>7, <2>1 DEF CodeLogged, TextNow
<1>9. t = r.text => CodeLogged(k, r)
  <2>1. Len(k) \in 0..Len(k)
    OBVIOUS
  <2> QED
    BY <1>3, <1>5, <2>1 DEF CodeLogged, TextNow
<1>10. CASE CodeLogged(m, r)
  BY <1>7, <1>10 DEF CodeLogged
<1>11. CASE CodeQueued(P, m, r)
  <2>1. PICK c \in 1..Len(P) : P[c].clientSeq <= r.after /\ Replay(text, P, p, c) = r.text
    BY <1>3, <1>4, <1>11 DEF CodeQueued
  <2>2. CASE c < i
    <3>1. c \in 0..(i - 1) /\ c \in 1..(i - 1) /\ c \in 1..Len(Q)
      BY <1>1, <2>2
    <3>2. CASE Replay(text, P, p, c) = text
      BY <1>8, <2>1, <3>2
    <3>3. CASE t = text /\ Replay(t, Q, p, c) = Replay(text, P, p, c)
      <4>1. Q[c].clientSeq <= r.after /\ Replay(t, Q, p, c) = r.text
        BY <1>1, <2>1, <3>1, <3>3
      <4> QED
        BY <1>3, <1>5, <3>1, <4>1 DEF CodeQueued
    <3> QED
      BY <1>6, <3>1, <3>2, <3>3
  <2>3. CASE i < c
    <3>1. PICK d \in 1..Len(Q) : d \in i..(Len(P) - 1) /\ d + 1 = c /\ d = c - 1
      <4>1. c - 1 \in 1..Len(Q) /\ c - 1 \in i..(Len(P) - 1) /\ (c - 1) + 1 = c
        BY <1>1, <2>3
      <4> QED
        BY <4>1
    <3>2. Q[d] = P[c] /\ c \in i..Len(P)
      BY <1>1, <2>3, <3>1
    <3>3. Replay(t, Q, p, d) = r.text
      BY <1>6, <2>1, <3>1, <3>2
    <3> QED
      BY <1>3, <1>5, <2>1, <3>2, <3>3 DEF CodeQueued
  <2>4. CASE c = i
    <3>1. Replay(t, Q, p, i - 1) = r.text
      <4>1. i \in i..Len(P)
        BY <1>1
      <4> QED
        BY <1>6, <2>1, <2>4, <4>1
    <3>2. CASE i = 1
      <4>1. i - 1 = 0
        BY <3>2
      <4>2. Replay(t, Q, p, 0) = t
        BY <1>1, ReplaySteps
      <4>3. t = r.text
        BY <3>1, <4>1, <4>2
      <4> QED
        BY <1>9, <4>3
    <3>3. CASE i # 1
      <4>1. PICK d \in 1..Len(Q) : d = i - 1 /\ d \in 1..(i - 1) /\ d \in 1..Len(P) /\ d < i
        <5>1. i - 1 \in 1..Len(Q) /\ i - 1 \in 1..(i - 1) /\ i - 1 \in 1..Len(P) /\ i - 1 < i
          BY <1>1, <3>3
        <5> QED
          BY <5>1
      <4>2. P[d].clientSeq < P[i].clientSeq /\ P[i].clientSeq <= r.after
        BY <2>1, <2>4, <4>1
      <4>3. P[d].clientSeq \in Nat /\ P[i].clientSeq \in Nat
        BY <1>2, <4>1
      <4>4. Q[d] = P[d] /\ P[d].clientSeq <= r.after
        BY <1>1, <4>1, <4>2, <4>3
      <4>5. Replay(t, Q, p, d) = r.text
        BY <3>1, <4>1
      <4> QED
        BY <1>3, <1>5, <4>4, <4>5 DEF CodeQueued
    <3> QED
      BY <3>2, <3>3
  <2> QED
    BY <1>1, <2>2, <2>3, <2>4
<1> QED
  BY <1>10, <1>11

(* A request is handled, in whatever order. *)
HandledHolds(e, P, i, Q, g, h, l, n, m, k, s, t, r) ==
    /\ e.sequence \in Nat /\ P \in Seq(DiffRequest) /\ i \in 1..Len(P) /\ Q = RemoveAt(P, i)
    /\ g \in Nat /\ h \in Nat /\ i <= g + 1 /\ h = IF i <= g THEN g - 1 ELSE g
    /\ l \in Nat /\ n \in Nat /\ Len(m) \in Nat /\ Len(k) \in Nat /\ Len(m) <= Len(k)
    /\ s \in SUBSET Paths /\ t \in SUBSET Paths /\ s \subseteq t /\ r.after \in Nat
    /\ PendInv(e, P, g, l, m, s, r) /\ Outcome(P[i], l, n, m, k, t)
    /\ \A p : \A j \in 0..Len(m) : Replay(Starter[p], k, p, j) = Replay(Starter[p], m, p, j)

LEMMA HandledKeeps ==
    ASSUME NEW e, NEW P, NEW i, NEW Q, NEW g, NEW h, NEW l, NEW n, NEW m, NEW k, NEW s, NEW t, NEW r,
           HandledHolds(e, P, i, Q, g, h, l, n, m, k, s, t, r)
    PROVE  PendInv(e, Q, h, n, k, t, r)
<1>0. /\ e.sequence \in Nat /\ P \in Seq(DiffRequest) /\ i \in 1..Len(P) /\ Q = RemoveAt(P, i)
      /\ g \in Nat /\ h \in Nat /\ i <= g + 1 /\ h = IF i <= g THEN g - 1 ELSE g
      /\ l \in Nat /\ n \in Nat /\ Len(m) \in Nat /\ Len(k) \in Nat /\ Len(m) <= Len(k)
      /\ s \in SUBSET Paths /\ t \in SUBSET Paths /\ s \subseteq t /\ r.after \in Nat
      /\ PendInv(e, P, g, l, m, s, r) /\ Outcome(P[i], l, n, m, k, t)
      /\ \A p : \A j \in 0..Len(m) : Replay(Starter[p], k, p, j) = Replay(Starter[p], m, p, j)
  BY DEF HandledHolds
<1> USE <1>0
<1>1. s # Paths => WireInv(P, g, l, e.sequence)
  BY DEF PendInv
<1>2. ASSUME NEW p \in Intact(Q, n, t)
      PROVE  /\ p \in Intact(P, l, s) /\ s # Paths
             /\ TextNow(k, p) = ReplayStep(TextNow(m, p), p, P[i])
             /\ P[i].path # p \/ \A j \in 1..(i - 1) : P[j].path # p
  <2>1. PICK last : last = e.sequence
    OBVIOUS
  <2>2. s # Paths => WireInv(P, g, l, last)
    BY <1>1, <2>1
  <2> QED
    BY <1>2, <2>2, HandledIntact
<1>3. ASSUME t # Paths PROVE WireInv(Q, h, n, e.sequence)
  <2>1. WireInv(P, g, l, e.sequence)
    BY <1>1, <1>3
  <2>2. n = l \/ (l < P[i].clientSeq /\ n = P[i].clientSeq)
    BY DEF Outcome
  <2> QED
    BY <2>1, <2>2, HandledWire
<1>4. ASSUME NEW p \in Intact(Q, n, t) PROVE Replay(TextNow(k, p), Q, p, Len(Q)) = e.posted[p]
  <2>1. PICK text : text = TextNow(m, p)
    OBVIOUS
  <2>2. PICK u : u = TextNow(k, p) /\ u = ReplayStep(text, p, P[i])
    BY <1>2, <2>1
  <2>3. \A c \in i..Len(P) : Replay(u, Q, p, c - 1) = Replay(text, P, p, c)
    BY <1>2, <2>2, ReplayWithout
  <2>4. Len(P) \in i..Len(P) /\ Len(Q) = Len(P) - 1
    BY Removed
  <2>5. Replay(text, P, p, Len(P)) = e.posted[p]
    BY <1>2, <2>1 DEF PendInv, TextInv
  <2> QED
    BY <2>2, <2>3, <2>4, <2>5
<1>5. ASSUME r.pc = "flush", r.path \in Intact(Q, n, t) PROVE CodeLogged(k, r) \/ CodeQueued(Q, k, r)
  <2>1. /\ r.path \in Intact(P, l, s) /\ s # Paths
        /\ TextNow(k, r.path) = ReplayStep(TextNow(m, r.path), r.path, P[i])
        /\ P[i].path # r.path \/ \A j \in 1..(i - 1) : P[j].path # r.path
    BY <1>2, <1>5
  <2>2. CodeLogged(m, r) \/ CodeQueued(P, m, r)
    BY <1>5, <2>1 DEF PendInv, RunInv
  <2>3. \A j \in 1..Len(P) : \A c \in 1..Len(P) : j < c => P[j].clientSeq < P[c].clientSeq
    BY <1>1, <2>1 DEF WireInv
  <2>4. \A j \in 0..Len(m) : Replay(Starter[r.path], k, r.path, j) = Replay(Starter[r.path], m, r.path, j)
    OBVIOUS
  <2> QED
    BY <2>1, <2>2, <2>3, <2>4, HandledCode
<1>6. TextInv(e, Q, n, k, t)
  BY <1>4 DEF TextInv
<1>7. RunInv(Q, n, k, t, r)
  BY <1>5 DEF PendInv, RunInv
<1> QED
  BY <1>3, <1>6, <1>7 DEF PendInv

-----------------------------------------------------------------------------
(* The steps.                                                              *)

RunRecord == [pc : {"none", "flush"}, path : Paths, text : Texts \cup {<<>>}, after : Nat]

EInv ==
    /\ EditorTypeOK
    /\ EdInv(ed, file)
    /\ SentInv(ed, wire, answer, lastDiff, log, strayed, run)
    /\ \A r \in Range(wire) \cup Range(log) : r.by \subseteq {r.origin}
    /\ RunsShown

(* A step of the page that sends nothing and runs nothing. *)
LEMMA PageKeeps ==
    ASSUME EInv, UNCHANGED <<wire, answer, session, lastDiff, log, ran>>, file' \in Paths, EdInv(ed', file'),
           SentInv(ed', wire, answer, lastDiff, log, strayed', run'), run' \in RunRecord, strayed' \subseteq Paths,
           inputs' \in 0..MaxInputs, losses' \in 0..MaxLosses
    PROVE  EInv'
<1>1. EditorTypeOK'
  BY DEF EInv, EditorTypeOK, EdInv, EdRecord, RunRecord
<1>2. (\A r \in Range(wire) \cup Range(log) : r.by \subseteq {r.origin})'
  BY DEF EInv
<1>3. RunsShown'
  BY DEF EInv, RunsShown, Replayed
<1>4. SentInv(ed, wire, answer, lastDiff, log, strayed, run)'
  OBVIOUS
<1> QED
  BY <1>1, <1>2, <1>3, <1>4 DEF EInv

(* What the type says of the page. *)
LEMMA PageTyped ==
    ASSUME EInv
    PROVE  /\ file \in Paths /\ ed \in EdRecord /\ run \in RunRecord /\ run.path \in Paths /\ lastDiff \in Nat
           /\ strayed \in SUBSET Paths /\ log \in Seq(DiffRequest) /\ wire \in Seq(DiffRequest)
           /\ inputs \in 0..MaxInputs /\ losses \in 0..MaxLosses
           /\ ed.current \in [Paths -> Texts] /\ ed.posted \in [Paths -> Texts] /\ ed.timers \subseteq Paths
           /\ ed.queue \in Seq(DiffRequest) /\ ed.sequence \in Nat /\ run.after \in Nat
  BY DEF EInv, EditorTypeOK, EdRecord, RunRecord

(* An input is counted. *)
LEMMA InputTyped ==
    ASSUME EInv, Input
    PROVE  UNCHANGED <<wire, answer, session, lastDiff, log, ran, losses>> /\ inputs' \in 0..MaxInputs
  BY EditorBounds DEF EInv, EditorTypeOK, Input, serverVars

(* Text is written, by the candidate or from a suggestion. *)
LEMMA WrittenTyped ==
    ASSUME NEW e \in EdRecord, NEW p \in Paths, NEW content \in Texts, NEW origin \in Origins
    PROVE  LET d == Written(e, p, content, origin) IN
           /\ d \in EdRecord /\ d.posted = e.posted /\ d.timers = e.timers /\ d.sequence = e.sequence
           /\ d.queue = e.queue /\ d.current[p] = content /\ d.by[p] \subseteq e.by[p] \cup {origin}
           /\ \A q \in Paths \ {p} : d.current[q] = e.current[q] /\ d.by[q] = e.by[q]
<1> DEFINE d == Written(e, p, content, origin)
<1>1. /\ e.posted \in [Paths -> Texts] /\ e.current \in [Paths -> Texts] /\ e.timers \in SUBSET Paths
      /\ e.sequence \in Nat /\ e.queue \in Seq(DiffRequest) /\ e.by \in [Paths -> SUBSET {"manual", "ai_applied"}]
  BY DEF EdRecord
<1>2. PICK b \in SUBSET {"manual", "ai_applied"} :
         b = (IF content = e.current[p] THEN e.by[p] ELSE e.by[p] \cup {origin}) /\ b \subseteq e.by[p] \cup {origin}
  <2>1. e.by[p] \in SUBSET {"manual", "ai_applied"} /\ e.by[p] \cup {origin} \in SUBSET {"manual", "ai_applied"}
    BY <1>1 DEF Origins
  <2>2. CASE content = e.current[p]
    BY <2>1, <2>2
  <2>3. CASE content # e.current[p]
    BY <2>1, <2>3
  <2> QED
    BY <2>2, <2>3
<1>3. PICK by \in [Paths -> SUBSET {"manual", "ai_applied"}] : by = [e.by EXCEPT ![p] = b]
  BY <1>1
<1>4. PICK current \in [Paths -> Texts] : current = [e.current EXCEPT ![p] = content]
  BY <1>1
<1>5. d = [e EXCEPT !.current = current, !.by = by]
  BY <1>2, <1>3, <1>4 DEF Written, EdRecord
<1>6. /\ d \in EdRecord /\ d.posted = e.posted /\ d.timers = e.timers /\ d.sequence = e.sequence
      /\ d.queue = e.queue /\ d.current = current /\ d.by = by
  BY <1>1, <1>5 DEF EdRecord
<1> HIDE DEF d
<1>7. current[p] = content /\ by[p] = b /\ \A q \in Paths \ {p} : current[q] = e.current[q] /\ by[q] = e.by[q]
  BY <1>1, <1>3, <1>4
<1> QED
  BY <1>2, <1>6, <1>7 DEF d

(* The candidate types. *)
LEMMA EditInv == ASSUME EInv, Edit PROVE EInv'
<1>1. PICK content \in Texts : ed' = [Written(ed, file, content, "manual") EXCEPT !.timers = @ \cup {file}]
  BY DEF Edit
<1>2. PICK d : d = Written(ed, file, content, "manual")
  OBVIOUS
<1>3. EdInv(ed, file) /\ SentInv(ed, wire, answer, lastDiff, log, strayed, run) /\ "manual" \in Origins
  BY DEF EInv, Origins
<1>4. /\ d \in EdRecord /\ d.posted = ed.posted /\ d.timers = ed.timers /\ d.sequence = ed.sequence
      /\ d.queue = ed.queue /\ d.by[file] \subseteq ed.by[file] \cup {"manual"}
      /\ \A q \in Paths \ {file} : d.current[q] = ed.current[q] /\ d.by[q] = ed.by[q]
  <2>1. ed \in EdRecord /\ file \in Paths
    BY PageTyped
  <2> QED
    BY <1>2, <1>3, <2>1, WrittenTyped
<1>5. /\ ed' \in EdRecord /\ ed'.posted = ed.posted /\ ed'.timers = ed.timers \cup {file}
      /\ ed'.sequence = ed.sequence /\ ed'.queue = ed.queue /\ ed'.by = d.by /\ ed'.current = d.current
  <2>1. ed' = [d EXCEPT !.timers = @ \cup {file}] /\ file \in Paths
    BY <1>1, <1>2, PageTyped
  <2> QED
    BY <1>4, <2>1 DEF EdRecord
<1>6. QueueInv(ed')
  BY <1>3, <1>5 DEF EdInv, QueueInv
<1>7. \A p \in Paths : ed'.by[p] \subseteq {"manual"}
  BY <1>3, <1>4, <1>5 DEF EdInv
<1>8. \A p \in Paths \ ed'.timers : ed'.by[p] = {} /\ ed'.posted[p] = ed'.current[p]
  BY <1>3, <1>4, <1>5 DEF EdInv
<1>9. EdInv(ed', file)
  BY <1>3, <1>5, <1>6, <1>7, <1>8 DEF EdInv
<1>10. SentInv(ed', wire, answer, lastDiff, log, strayed, run)
  BY <1>3, <1>5, PageTyped, SameQueue
<1>11. file' = file /\ run' = run /\ strayed' = strayed
  BY DEF Edit
<1> QED
  BY <1>9, <1>10, <1>11, PageTyped, PageKeeps, InputTyped DEF Edit

(* A suggestion is applied: what was typed before is a diff of its own. *)
LEMMA ApplyAIInv == ASSUME EInv, ApplyAI PROVE EInv'
<1>1. PICK content \in Texts :
         ed' = enqueue(Written(flushPath(ed, file), file, content, "ai_applied"), file, "ai_applied")
  BY DEF ApplyAI
<1>2. PICK x : x = flushPath(ed, file)
  OBVIOUS
<1>3. PICK y : y = Written(x, file, content, "ai_applied")
  OBVIOUS
<1>4. EdInv(ed, file) /\ SentInv(ed, wire, answer, lastDiff, log, strayed, run) /\ "ai_applied" \in Origins
  BY DEF EInv, Origins
<1>5. /\ EdInv(x, file) /\ x.timers = {} /\ x.by[file] = {} /\ Extends(ed, x, file) /\ x \in EdRecord
  <2>1. EdInv(x, file) /\ x.timers = ed.timers \ {file} /\ x.by[file] = {} /\ Extends(ed, x, file)
    BY <1>2, <1>4, PageTyped, FlushPathInv
  <2> QED
    BY <1>4, <2>1 DEF EdInv
<1>6. /\ y \in EdRecord /\ y.posted = x.posted /\ y.timers = {} /\ y.sequence = x.sequence
      /\ y.queue = x.queue /\ y.by[file] \subseteq {"ai_applied"}
      /\ \A q \in Paths \ {file} : y.current[q] = x.current[q] /\ y.by[q] = x.by[q]
  <2>1. /\ y \in EdRecord /\ y.posted = x.posted /\ y.timers = x.timers /\ y.sequence = x.sequence
        /\ y.queue = x.queue /\ y.by[file] \subseteq x.by[file] \cup {"ai_applied"}
        /\ \A q \in Paths \ {file} : y.current[q] = x.current[q] /\ y.by[q] = x.by[q]
    <3>1. file \in Paths
      BY PageTyped
    <3> QED
      BY <1>3, <1>4, <1>5, <3>1, WrittenTyped
  <2> QED
    BY <1>5, <2>1
<1>7. QueueInv(y)
  BY <1>5, <1>6 DEF EdInv, QueueInv
<1>8. PICK z : z = enqueue(y, file, "ai_applied")
  OBVIOUS
<1>9. /\ z \in EdRecord /\ z.timers = {} /\ z.current = y.current /\ z.by = [y.by EXCEPT ![file] = {}]
      /\ z.posted[file] = y.current[file] /\ Extends(y, z, file) /\ QueueInv(z)
  <2>1. file \in Paths
    BY PageTyped
  <2>2. /\ z \in EdRecord /\ z.timers = y.timers /\ z.current = y.current /\ z.by = [y.by EXCEPT ![file] = {}]
        /\ z.posted[file] = y.current[file] /\ Extends(y, z, file) /\ QueueInv(z)
    BY <1>4, <1>6, <1>7, <1>8, <2>1, EnqueueGrows
  <2> QED
    BY <1>6, <2>2
<1>10. Extends(x, z, file)
  BY <1>6, <1>9 DEF Extends
<1>11. ASSUME NEW p \in Paths PROVE z.by[p] = {} /\ z.posted[p] = z.current[p]
  <2>1. z.by[p] = IF p = file THEN {} ELSE y.by[p]
    BY <1>6, <1>9 DEF EdRecord
  <2>2. CASE p = file
    BY <1>9, <2>1, <2>2
  <2>3. CASE p # file
    <3>1. z.posted[p] = x.posted[p] /\ z.current[p] = x.current[p] /\ x.by[p] = {} /\ x.posted[p] = x.current[p]
      BY <1>5, <1>6, <1>9, <1>10, <2>3 DEF Extends, EdInv
    <3> QED
      BY <1>6, <2>1, <2>3, <3>1
  <2> QED
    BY <2>2, <2>3
<1>12. EdInv(z, file)
  BY <1>9, <1>11 DEF EdInv
<1>13. SentInv(x, wire, answer, lastDiff, log, strayed, run)
  BY <1>4, <1>5, PageTyped, ExtendKeeps
<1>14. SentInv(z, wire, answer, lastDiff, log, strayed, run)
  BY <1>5, <1>9, <1>10, <1>13, PageTyped, ExtendKeeps
<1>15. file' = file /\ run' = run /\ strayed' = strayed /\ ed' = z
  BY <1>1, <1>2, <1>3, <1>8 DEF ApplyAI
<1> QED
  BY <1>12, <1>14, <1>15, PageTyped, PageKeeps, InputTyped DEF ApplyAI

(* Pending edits are flushed. *)
LEMMA FlushKeeps ==
    ASSUME EInv, NEW p \in Paths
    PROVE  LET x == flushPath(ed, p) IN
           /\ flush(ed) = flushPath(ed, file)
           /\ EdInv(x, file) /\ x \in EdRecord /\ x.timers = ed.timers \ {p} /\ x.current = ed.current
           /\ x.posted[p] = x.current[p]
           /\ SentInv(x, wire, answer, lastDiff, log, strayed, run)
<1>1. EdInv(ed, file) /\ SentInv(ed, wire, answer, lastDiff, log, strayed, run)
  BY DEF EInv
<1>2. PICK x : x = flushPath(ed, p)
  OBVIOUS
<1>3. /\ EdInv(x, file) /\ x.timers = ed.timers \ {p} /\ x.current = ed.current
      /\ x.posted[p] = x.current[p] /\ Extends(ed, x, p)
  BY <1>1, <1>2, PageTyped, FlushPathInv
<1>4. x \in EdRecord
  BY <1>3 DEF EdInv
<1>5. SentInv(x, wire, answer, lastDiff, log, strayed, run)
  BY <1>1, <1>3, <1>4, PageTyped, ExtendKeeps
<1>6. flush(ed) = flushPath(ed, file)
  BY <1>1, FlushOne DEF EdInv
<1> QED
  BY <1>2, <1>3, <1>4, <1>5, <1>6

(* The debounce time of a file is over. *)
LEMMA TimerFiresInv == ASSUME EInv, TimerFires PROVE EInv'
<1>1. PICK p \in Paths : ed' = flushPath(ed, p)
  BY PageTyped DEF TimerFires
<1>2. EdInv(ed', file) /\ SentInv(ed', wire, answer, lastDiff, log, strayed, run)
  BY <1>1, FlushKeeps
<1>3. UNCHANGED <<file, run, wire, answer, session, lastDiff, log, ran, strayed, inputs, losses>>
  BY DEF TimerFires, serverVars
<1> QED
  BY <1>2, <1>3, PageTyped, PageKeeps

(* The other file comes up, with its starter. *)
LEMMA SwitchLanguageInv == ASSUME EInv, SwitchLanguage PROVE EInv'
<1>1. PICK next \in Paths \ {file} :
         /\ ed' = track(flush(ed), next, Starter[next]) /\ file' = next
         /\ strayed' = IF ed.current[next] = Starter[next] THEN strayed ELSE strayed \cup {next}
  BY DEF SwitchLanguage
<1>2. PICK x : x = flushPath(ed, file)
  OBVIOUS
<1>3. /\ EdInv(x, file) /\ x \in EdRecord /\ x.timers = {} /\ x.current = ed.current /\ flush(ed) = x
      /\ SentInv(x, wire, answer, lastDiff, log, strayed, run)
  <2>1. /\ EdInv(x, file) /\ x \in EdRecord /\ x.timers = ed.timers \ {file} /\ x.current = ed.current
        /\ flush(ed) = x /\ SentInv(x, wire, answer, lastDiff, log, strayed, run)
    BY <1>2, PageTyped, FlushKeeps
  <2>2. ed.timers \subseteq {file}
    BY DEF EInv, EdInv
  <2> QED
    BY <2>1, <2>2
<1>4. Starter[next] \in Texts
  BY PathsAssumption
<1>5. /\ x.posted \in [Paths -> Texts] /\ x.current \in [Paths -> Texts]
      /\ x.by \in [Paths -> SUBSET {"manual", "ai_applied"}] /\ x.sequence \in Nat /\ x.queue \in Seq(DiffRequest)
  BY <1>3 DEF EdRecord
<1>6. ed' = [x EXCEPT !.posted[next] = Starter[next], !.current[next] = Starter[next], !.by[next] = {}]
  BY <1>1, <1>3 DEF track
<1>7. /\ ed'.posted = [x.posted EXCEPT ![next] = Starter[next]]
      /\ ed'.current = [x.current EXCEPT ![next] = Starter[next]]
      /\ ed'.by = [x.by EXCEPT ![next] = {}]
      /\ ed'.timers = {} /\ ed'.sequence = x.sequence /\ ed'.queue = x.queue
  BY <1>3, <1>6 DEF EdRecord
<1>8. ed' \in EdRecord
  <2>1. ed' = [posted |-> ed'.posted, current |-> ed'.current, timers |-> ed'.timers, sequence |-> ed'.sequence,
               queue |-> ed'.queue, by |-> ed'.by]
    BY <1>3, <1>6 DEF EdRecord
  <2>2. /\ ed'.posted \in [Paths -> Texts] /\ ed'.current \in [Paths -> Texts]
        /\ ed'.by \in [Paths -> SUBSET {"manual", "ai_applied"}]
    BY <1>4, <1>5, <1>7
  <2> QED
    BY <1>5, <1>7, <2>1, <2>2 DEF EdRecord
<1>9. QueueInv(ed')
  BY <1>3, <1>7 DEF EdInv, QueueInv
<1>10. ASSUME NEW p \in Paths PROVE ed'.by[p] = {} /\ ed'.posted[p] = ed'.current[p]
  <2>1. x.by[p] = {} /\ x.posted[p] = x.current[p]
    BY <1>3 DEF EdInv
  <2> QED
    BY <1>5, <1>7, <2>1
<1>11. EdInv(ed', file')
  BY <1>7, <1>8, <1>9, <1>10 DEF EdInv
<1>12. strayed \subseteq strayed' /\ strayed' \in SUBSET Paths /\ (next \notin strayed' => ed.current[next] = Starter[next])
  BY <1>1, PageTyped
<1>13. \A p \in Paths \ strayed' : ed'.posted[p] = x.posted[p]
  <2>1. x.posted[next] = x.current[next]
    BY <1>3 DEF EdInv
  <2> QED
    BY <1>3, <1>5, <1>7, <1>12, <2>1
<1>14. SentInv(ed', wire, answer, lastDiff, log, strayed', run)
  <2>1. strayed \in SUBSET Paths
    BY PageTyped
  <2>2. PICK t \in SUBSET Paths : t = strayed' /\ strayed \subseteq t
    BY <1>12
  <2>3. PICK d : d = ed'
    OBVIOUS
  <2>4. d.queue = x.queue /\ d.sequence = x.sequence /\ \A p \in Paths \ t : d.posted[p] = x.posted[p]
    BY <1>7, <1>13, <2>2, <2>3
  <2>5. SentInv(d, wire, answer, lastDiff, log, t, run)
    BY <1>3, <2>1, <2>2, <2>4, SameQueue
  <2> QED
    BY <2>2, <2>3, <2>5
<1>15. run' = run /\ file' \in Paths
  BY <1>1 DEF SwitchLanguage
<1> QED
  BY <1>11, <1>12, <1>14, <1>15, PageTyped, PageKeeps, InputTyped DEF SwitchLanguage

(* Run is clicked: its code is the text posted last, once flushed. *)
LEMMA RunClickedInv == ASSUME EInv, RunClicked PROVE EInv'
<1>1. PICK x : x = flushPath(ed, file)
  OBVIOUS
<1>2. /\ EdInv(x, file) /\ x \in EdRecord /\ x.current = ed.current /\ flush(ed) = x
      /\ x.posted[file] = x.current[file] /\ SentInv(x, wire, answer, lastDiff, log, strayed, run)
  <2>1. file \in Paths
    BY PageTyped
  <2> QED
    BY <1>1, <2>1, FlushKeeps
<1>3. PICK r : r = [pc |-> "flush", path |-> file, text |-> ed.current[file], after |-> x.sequence]
  OBVIOUS
<1>4. ed' = x /\ run' = r /\ file' = file /\ strayed' = strayed
  BY <1>2, <1>3 DEF RunClicked
<1>5. x.queue \in Seq(DiffRequest) /\ x.sequence \in Nat /\ file \in Paths /\ ed.current[file] \in Texts
      /\ log \in Seq(DiffRequest)
  BY <1>2, PageTyped DEF EdRecord
<1>6. r \in RunRecord /\ r.pc = "flush" /\ r.path = file /\ r.text = x.posted[file] /\ r.after = x.sequence
      /\ r.text \in Texts
  BY <1>2, <1>3, <1>5 DEF RunRecord
<1>7. PICK P \in Seq(DiffRequest) : P = Pend(x.queue, wire, answer)
  <2>1. LinkInv(x.queue, wire, answer)
    BY <1>2 DEF SentInv
  <2> QED
    BY <1>5, <2>1, PageTyped, PendTyped
<1>8. PendInv(x, P, Left(wire, answer), lastDiff, log, strayed, run)
  BY <1>2, <1>7 DEF SentInv
<1>9. ASSUME file \in Intact(P, lastDiff, strayed) PROVE CodeLogged(log, r) \/ CodeQueued(P, log, r)
  <2>1. /\ \A i \in 1..Len(P) : P[i].clientSeq <= x.sequence
        /\ Replay(TextNow(log, file), P, file, Len(P)) = r.text
    <3>1. strayed # Paths
      BY <1>9 DEF Intact
    <3> QED
      BY <1>6, <1>8, <1>9, <3>1 DEF PendInv, TextInv, WireInv
  <2>2. Len(P) \in Nat
    OBVIOUS
  <2>3. CASE Len(P) = 0
    <3>1. Replay(TextNow(log, file), P, file, 0) = TextNow(log, file)
      BY <2>2, ReplaySteps
    <3>2. TextNow(log, file) = r.text
      BY <2>1, <2>3, <3>1
    <3>3. Len(log) \in 0..Len(log)
      BY <1>5
    <3> QED
      BY <1>6, <3>2, <3>3 DEF TextNow, CodeLogged
  <2>4. CASE Len(P) # 0
    <3>1. Len(P) \in 1..Len(P)
      BY <2>2, <2>4
    <3> QED
      BY <1>6, <2>1, <3>1 DEF CodeQueued
  <2> QED
    BY <2>3, <2>4
<1>10. RunInv(P, lastDiff, log, strayed, r)
  BY <1>6, <1>9 DEF RunInv
<1>11. SentInv(x, wire, answer, lastDiff, log, strayed, r)
  BY <1>2, <1>7, <1>8, <1>10 DEF SentInv, PendInv
<1> QED
  BY <1>2, <1>4, <1>6, <1>11, PageTyped, PageKeeps, InputTyped DEF RunClicked

(* The run's code is sent when what was queued before it has been sent. *)
LEMMA RunCodeInv == ASSUME EInv, RunCode PROVE EInv'
<1>1. /\ run.pc = "flush" /\ Flushed(ed, run) /\ run' = NoRun
      /\ UNCHANGED <<file, ed, wire, answer, session, lastDiff, log, strayed, inputs, losses>>
  BY DEF RunCode, serverVars
<1>2. /\ log \in Seq(DiffRequest) /\ Len(log) \in Nat /\ run.path \in Paths /\ strayed \in SUBSET Paths
      /\ ed.queue \in Seq(DiffRequest)
  BY PageTyped
<1>3. run.text \in Texts /\ (~Unsettled(run.path) => CodeLogged(log, run))
  <2>1. SentInv(ed, wire, answer, lastDiff, log, strayed, run)
    BY DEF EInv
  <2>2. LinkInv(ed.queue, wire, answer) /\ wire \in Seq(DiffRequest)
    BY <2>1, PageTyped DEF SentInv
  <2>3. PICK P \in Seq(DiffRequest) : P = Pend(ed.queue, wire, answer)
    BY <1>2, <2>2, PendTyped
  <2>4. PICK g \in Nat : g = Left(wire, answer) /\ g <= Len(wire) /\ \A j \in 1..Len(wire) : P[j] = wire[j]
    BY <1>2, <2>2, <2>3, PendTyped
  <2>5. PendInv(ed, P, g, lastDiff, log, strayed, run)
    BY <2>1, <2>3, <2>4 DEF SentInv
  <2>6. ASSUME ~Unsettled(run.path) PROVE CodeLogged(log, run)
    <3>1. run.path \notin strayed /\ strayed # Paths /\ \A r \in Range(GivenUp) : r.path # run.path
      BY <1>2, <2>6 DEF Unsettled
    <3>2. ASSUME NEW j \in 1..g PROVE wire[j] \in Range(GivenUp)
      <4>1. CASE answer = "awaited"
        <5>1. GivenUp = SubSeq(wire, 1, Len(wire) - 1) /\ g = Len(wire) - 1
          BY <2>4, <4>1 DEF GivenUp, Front, Left
        <5>2. PICK v : v = SubSeq(wire, 1, Len(wire) - 1)
          OBVIOUS
        <5>3. DOMAIN v = 1..g /\ v[j] = wire[j]
          BY <2>2, <5>1, <5>2
        <5> QED
          BY <5>1, <5>2, <5>3 DEF Range
      <4>2. CASE answer # "awaited"
        BY <2>2, <2>4, <4>2 DEF GivenUp, Left, Range
      <4> QED
        BY <4>1, <4>2
    <3>3. \A j \in 1..Len(P) : j <= g => j \in 1..g /\ P[j].path # run.path
      <4>1. \A j \in 1..Len(P) : j <= g => j \in 1..g /\ j \in 1..Len(wire)
        BY <2>2, <2>4
      <4> QED
        BY <2>4, <3>1, <3>2, <4>1
    <3>4. ASSUME NEW j \in 1..Len(P), ~(j <= g) PROVE lastDiff < P[j].clientSeq /\ run.after < P[j].clientSeq
      <4>1. g < j
        BY <3>4
      <4>2. lastDiff < P[j].clientSeq
        BY <2>5, <3>1, <4>1 DEF PendInv, WireInv
      <4>3. P[j] \in Range(ed.queue)
        BY <1>2, <2>2, <2>3, <2>4, <4>1, PendQueued
      <4>4. P[j].clientSeq > run.after /\ P[j].clientSeq \in Nat /\ run.after \in Nat
        BY <1>1, <4>3, PageTyped, Numbered DEF Flushed
      <4> QED
        BY <4>2, <4>4
    <3>5. run.path \in Intact(P, lastDiff, strayed)
      BY <1>2, <3>1, <3>3, <3>4 DEF Intact
    <3>6. ASSUME CodeQueued(P, log, run) PROVE CodeLogged(log, run)
      <4>1. PICK c \in 1..Len(P) : P[c].clientSeq <= run.after /\ Replay(TextNow(log, run.path), P, run.path, c) = run.text
        BY <3>6 DEF CodeQueued
      <4>2. c <= g
        <5>1. P[c].clientSeq \in Nat /\ run.after \in Nat
          BY Numbered, PageTyped
        <5> QED
          BY <3>4, <4>1, <5>1
      <4>3. \A j \in 1..c : j \in 1..Len(P) /\ j <= g
        BY <4>2
      <4>4. \A j \in 1..c : P[j].path # run.path
        BY <3>3, <4>3
      <4>5. PICK text : text = TextNow(log, run.path)
        OBVIOUS
      <4>6. Replay(text, P, run.path, c) = text
        <5>1. Len(P) \in Nat /\ c \in 0..Len(P) /\ c \in 0..c
          OBVIOUS
        <5> QED
          BY <4>4, <5>1, ReplayIdle
      <4>7. TextNow(log, run.path) = run.text /\ Len(log) \in 0..Len(log)
        BY <1>2, <4>1, <4>5, <4>6
      <4> QED
        BY <4>7 DEF TextNow, CodeLogged
    <3> QED
      BY <1>1, <2>5, <3>5, <3>6 DEF PendInv, RunInv
  <2> QED
    BY <1>1, <2>5, <2>6 DEF PendInv, RunInv
<1>4. PICK x : x = [path |-> run.path, text |-> run.text, at |-> Len(log), unsettled |-> Unsettled(run.path)]
  OBVIOUS
<1>5. ran' \subseteq ran \cup {x}
  BY <1>4 DEF RunCode
<1>6. /\ x \in [path : Paths, text : Texts, at : 0..Len(log), unsettled : BOOLEAN]
      /\ x.path = run.path /\ x.text = run.text /\ x.at = Len(log) /\ (x.unsettled <=> Unsettled(run.path))
  <2>1. PICK b \in BOOLEAN : b = Unsettled(run.path)
    <3>1. Unsettled(run.path) \in BOOLEAN
      BY DEF Unsettled
    <3> QED
      BY <3>1
  <2>2. PICK n \in 0..Len(log) : n = Len(log)
    BY <1>2
  <2>3. x = [path |-> run.path, text |-> run.text, at |-> n, unsettled |-> b]
    BY <1>4, <2>1, <2>2
  <2>4. x \in [path : Paths, text : Texts, at : 0..Len(log), unsettled : BOOLEAN]
    BY <1>2, <1>3, <2>3
  <2>5. x.path = run.path /\ x.text = run.text /\ x.at = n /\ x.unsettled = b
    BY <2>3
  <2> QED
    BY <2>1, <2>2, <2>4, <2>5
<1>7. x.unsettled \/ \E k \in 0..x.at : Replayed(x.path, k) = x.text
  BY <1>3, <1>6 DEF CodeLogged, Replayed
<1>8. RunsShown'
  <2>1. \A p, k : Replayed(p, k)' = Replayed(p, k)
    BY <1>1 DEF Replayed
  <2> QED
    BY <1>5, <1>7, <2>1 DEF EInv, RunsShown
<1>9. NoRun \in RunRecord /\ NoRun.pc = "none"
  BY PathsAssumption DEF NoRun, RunRecord
<1>10. EditorTypeOK'
  BY <1>1, <1>5, <1>6, <1>9 DEF EInv, EditorTypeOK, RunRecord
<1>11. SentInv(ed, wire, answer, lastDiff, log, strayed, NoRun)
  BY <1>9 DEF EInv, SentInv, PendInv, RunInv
<1> QED
  BY <1>1, <1>8, <1>10, <1>11 DEF EInv

(* The oldest request is sent: it is still to be handled. *)
LEMMA PostInv == ASSUME EInv, Post PROVE EInv'
<1>1. /\ ed.queue # <<>> /\ answer = "none" /\ answer' = "awaited" /\ wire' = Append(wire, Head(ed.queue))
      /\ UNCHANGED <<file, ed, run, session, lastDiff, log, ran, strayed, inputs, losses>>
  BY DEF Post, pageVars, serverVars
<1>2. /\ ed.queue \in Seq(DiffRequest) /\ wire \in Seq(DiffRequest) /\ Head(ed.queue) \in DiffRequest
      /\ Head(ed.queue) = ed.queue[1] /\ 1 \in 1..Len(ed.queue)
  BY <1>1, PageTyped
<1>3. PICK w \in Seq(DiffRequest) : w = Append(wire, Head(ed.queue))
  <2>1. Append(wire, Head(ed.queue)) \in Seq(DiffRequest)
    BY <1>1, <1>2, Moved
  <2> QED
    BY <2>1
<1>4. /\ w # <<>> /\ w[Len(w)] = Head(ed.queue) /\ Len(w) = Len(wire) + 1 /\ Range(w) \subseteq Range(wire) \cup {Head(ed.queue)}
  <2>1. /\ Len(wire) \in Nat /\ DOMAIN wire = 1..Len(wire) /\ Len(w) = Len(wire) + 1 /\ DOMAIN w = 1..Len(w) /\ w # <<>>
        /\ w[Len(w)] = Head(ed.queue) /\ \A k \in 1..Len(wire) : w[k] = wire[k]
    BY <1>2, <1>3
  <2>2. \A k \in DOMAIN w : k \in DOMAIN wire \/ k = Len(w)
    BY <2>1
  <2> QED
    BY <2>1, <2>2 DEF Range
<1>5. Pend(ed.queue, w, "awaited") = Pend(ed.queue, wire, "none")
  <2>1. PICK q \in Seq(DiffRequest) : q = ed.queue /\ q # <<>>
    BY <1>1, <1>2
  <2>2. PICK u \in Seq(DiffRequest) : u = wire
    BY <1>2
  <2>3. SameWhole(u, q)
    BY <2>1, Moved
  <2>4. Append(u, Head(q)) \o Tail(q) = u \o q
    BY <2>3 DEF SameWhole
  <2> QED
    BY <1>3, <2>1, <2>2, <2>4 DEF Pend, Unsent
<1>6. Left(w, "awaited") = Left(wire, "none")
  BY <1>2, <1>4 DEF Left
<1>7. SentInv(ed, wire, "none", lastDiff, log, strayed, run)
  BY <1>1 DEF EInv
<1>8. SentInv(ed, w, "awaited", lastDiff, log, strayed, run)
  BY <1>1, <1>4, <1>5, <1>6, <1>7 DEF SentInv, LinkInv
<1>9. SentInv(ed, wire, answer, lastDiff, log, strayed, run)'
  BY <1>1, <1>3, <1>8
<1>10. EditorTypeOK'
  BY <1>1, <1>3 DEF EInv, EditorTypeOK
<1>11. RunsShown' /\ EdInv(ed, file)'
  BY <1>1 DEF EInv, RunsShown, Replayed
<1>12. (\A r \in Range(wire) \cup Range(log) : r.by \subseteq {r.origin})'
  <2>1. Head(ed.queue).by \subseteq {Head(ed.queue).origin}
    BY <1>2 DEF EInv, EdInv, QueueInv
  <2>2. \A r \in Range(w) \cup Range(log) : r.by \subseteq {r.origin}
    BY <1>4, <2>1 DEF EInv
  <2> QED
    BY <1>1, <1>3, <2>2
<1> QED
  BY <1>9, <1>10, <1>11, <1>12 DEF EInv

(* A post fails at the page: the request is given up, and still there. *)
LEMMA PostFailsInv == ASSUME EInv, PostFails PROVE EInv'
<1>1. /\ answer = "awaited" /\ answer' = "answered"
      /\ UNCHANGED <<file, ed, run, wire, session, lastDiff, log, ran, strayed, inputs>>
  BY DEF PostFails, pageVars, serverVars
<1>2. losses' \in 0..MaxLosses
  BY EditorBounds, PageTyped DEF PostFails
<1>3. SentInv(ed, wire, "awaited", lastDiff, log, strayed, run)
  BY <1>1 DEF EInv
<1>4. LinkInv(ed.queue, wire, "awaited") /\ LinkInv(ed.queue, wire, "answered")
  BY <1>3 DEF SentInv, LinkInv
<1>5. PICK P \in Seq(DiffRequest) : P = Pend(ed.queue, wire, "awaited") /\ P = Pend(ed.queue, wire, "answered")
  <2>1. Pend(ed.queue, wire, "awaited") \in Seq(DiffRequest)
    BY <1>4, PageTyped, PendTyped
  <2> QED
    BY <2>1 DEF Pend, Unsent
<1>6. PICK g \in Nat : g = Left(wire, "awaited") /\ Left(wire, "answered") = g + 1
  <2>1. wire \in Seq(DiffRequest) /\ wire # <<>>
    BY <1>4, PageTyped DEF LinkInv
  <2>2. Len(wire) \in Nat /\ Len(wire) # 0
    BY <2>1
  <2> QED
    BY <2>2 DEF Left
<1>7. PendInv(ed, P, g, lastDiff, log, strayed, run)
  BY <1>3, <1>5, <1>6 DEF SentInv
<1>8. ASSUME strayed # Paths PROVE WireInv(P, g + 1, lastDiff, ed.sequence)
  <2>1. \A i \in 1..Len(P) : g + 1 < i => g < i
    OBVIOUS
  <2> QED
    BY <1>7, <1>8, <2>1 DEF PendInv, WireInv
<1>9. SentInv(ed, wire, "answered", lastDiff, log, strayed, run)
  BY <1>4, <1>5, <1>6, <1>7, <1>8 DEF SentInv, PendInv
<1>10. SentInv(ed, wire, answer, lastDiff, log, strayed, run)'
  BY <1>1, <1>9
<1>11. EditorTypeOK'
  BY <1>1, <1>2 DEF EInv, EditorTypeOK
<1>12. RunsShown' /\ EdInv(ed, file)'
  BY <1>1 DEF EInv, RunsShown, Replayed
<1> QED
  BY <1>1, <1>10, <1>11, <1>12 DEF EInv

(* The page goes on with its queue. *)
LEMMA PostedInv == ASSUME EInv, Posted PROVE EInv'
<1>1. /\ answer = "answered" /\ answer' = "none" /\ ed' = [ed EXCEPT !.queue = Tail(@)]
      /\ UNCHANGED <<file, run, wire, session, lastDiff, log, ran, strayed, inputs, losses>>
  BY DEF Posted, serverVars
<1>2. EdInv(ed, file) /\ SentInv(ed, wire, "answered", lastDiff, log, strayed, run) /\ ed \in EdRecord
  BY <1>1, PageTyped DEF EInv
<1>3. PICK P : P = Tail(ed.queue)
  OBVIOUS
<1>4. /\ P \in Seq(DiffRequest) /\ Len(P) \in Nat /\ \A i \in 1..Len(P) : i + 1 \in 1..Len(ed.queue) /\ P[i] = ed.queue[i + 1]
  <2>1. ed.queue \in Seq(DiffRequest) /\ ed.queue # <<>>
    BY <1>2, PageTyped DEF SentInv, LinkInv
  <2>2. P \in Seq(DiffRequest) /\ Len(P) \in Nat /\ Len(ed.queue) = Len(P) + 1 /\ \A i \in 1..Len(P) : P[i] = ed.queue[i + 1]
    BY <1>3, <2>1
  <2> QED
    BY <2>2
<1>5. /\ ed' \in EdRecord /\ ed'.queue = P /\ ed'.posted = ed.posted /\ ed'.current = ed.current
      /\ ed'.timers = ed.timers /\ ed'.sequence = ed.sequence /\ ed'.by = ed.by
  BY <1>1, <1>2, <1>3, <1>4 DEF EdRecord
<1>6. QueueInv(ed')
  <2>1. \A i, j \in 1..Len(P) : i < j => i + 1 < j + 1
    BY <1>4
  <2> QED
    BY <1>2, <1>4, <1>5, <2>1 DEF EdInv, QueueInv
<1>7. EdInv(ed', file)
  BY <1>2, <1>5, <1>6 DEF EdInv
<1>8. Pend(ed'.queue, wire, "none") = Pend(ed.queue, wire, "answered") /\ Left(wire, "none") = Left(wire, "answered")
  BY <1>3, <1>5 DEF Pend, Unsent, Left
<1>9. LinkInv(ed'.queue, wire, "none")
  BY DEF LinkInv
<1>10. PendInv(ed', Pend(ed'.queue, wire, "none"), Left(wire, "none"), lastDiff, log, strayed, run)
  BY <1>2, <1>5, <1>8 DEF SentInv, PendInv, TextInv
<1>11. SentInv(ed', wire, "none", lastDiff, log, strayed, run)
  BY <1>9, <1>10 DEF SentInv
<1>12. EditorTypeOK'
  BY <1>1, <1>5 DEF EInv, EditorTypeOK, EdRecord
<1>13. RunsShown'
  BY <1>1 DEF EInv, RunsShown, Replayed
<1> QED
  BY <1>1, <1>7, <1>11, <1>12, <1>13 DEF EInv

(* A new page has nothing to send. *)
LEMMA NewDebouncerInv == EdInv(NewDebouncer, First) /\ NewDebouncer \in EdRecord
<1>1. /\ NewDebouncer.posted = Starter /\ NewDebouncer.current = Starter /\ NewDebouncer.timers = {}
      /\ NewDebouncer.queue = <<>> /\ NewDebouncer.sequence = 0 /\ \A p \in Paths : NewDebouncer.by[p] = {}
  BY DEF NewDebouncer
<1>2. NewDebouncer \in EdRecord
  <2>1. [p \in Paths |-> {}] \in [Paths -> SUBSET {"manual", "ai_applied"}] /\ <<>> \in Seq(DiffRequest)
    OBVIOUS
  <2> QED
    BY <2>1, PathsAssumption DEF NewDebouncer, EdRecord
<1>3. QueueInv(NewDebouncer)
  <2>1. Len(<<>>) = 0
    OBVIOUS
  <2> QED
    BY <1>1, <2>1 DEF QueueInv
<1> QED
  BY <1>1, <1>2, <1>3 DEF EdInv

(* The page is loaded again: every file has strayed. *)
LEMMA ReloadInv == ASSUME EInv, Reload PROVE EInv'
<1>1. /\ file' = First /\ ed' = NewDebouncer /\ run' = NoRun /\ answer' = "none" /\ strayed' = Paths
      /\ UNCHANGED <<wire, session, lastDiff, log, ran, inputs>>
  BY DEF Reload, serverVars
<1>2. losses' \in 0..MaxLosses
  BY EditorBounds, PageTyped DEF Reload
<1>3. EdInv(NewDebouncer, First) /\ NewDebouncer \in EdRecord
  BY NewDebouncerInv
<1>4. NoRun \in RunRecord /\ NoRun.pc = "none" /\ First \in Paths
  BY PathsAssumption DEF NoRun, RunRecord
<1>5. SentInv(NewDebouncer, wire, "none", lastDiff, log, Paths, NoRun)
  BY <1>4 DEF SentInv, LinkInv, PendInv, TextInv, Intact, RunInv
<1>6. SentInv(ed, wire, answer, lastDiff, log, strayed, run)'
  BY <1>1, <1>5
<1>7. EditorTypeOK'
  BY <1>1, <1>2, <1>3, <1>4 DEF EInv, EditorTypeOK, EdRecord, RunRecord
<1>8. RunsShown' /\ EdInv(ed, file)'
  BY <1>1, <1>3 DEF EInv, RunsShown, Replayed
<1> QED
  BY <1>1, <1>6, <1>7, <1>8 DEF EInv

(* The session ends. *)
LEMMA SessionEndsInv == ASSUME EInv, SessionEnds PROVE EInv'
<1>1. session' = "ended" /\ UNCHANGED <<file, ed, run, wire, answer, lastDiff, log, ran, strayed, inputs, losses>>
  BY DEF SessionEnds, pageVars
<1>2. EditorTypeOK'
  BY <1>1 DEF EInv, EditorTypeOK
<1>3. RunsShown' /\ EdInv(ed, file)' /\ SentInv(ed, wire, answer, lastDiff, log, strayed, run)'
  BY <1>1 DEF EInv, RunsShown, Replayed
<1> QED
  BY <1>1, <1>2, <1>3 DEF EInv

(* What handling a request does, however it ends. *)
Handled(i) ==
    /\ RecordDiff(wire[i]) \/ (strayed' = strayed \cup {wire[i].path} /\ UNCHANGED <<lastDiff, log>>)
    /\ Answered(i)
    /\ UNCHANGED <<file, ed, run, session, ran, inputs>>
    /\ losses' \in 0..MaxLosses

(* The log grows by the request or not at all, and replay with it. *)
LEMMA HandledLog ==
    ASSUME EInv, NEW i \in DOMAIN wire, Handled(i), NEW r, r = wire[i]
    PROVE  /\ i \in 1..Len(wire) /\ r \in DiffRequest /\ lastDiff' \in Nat
           /\ log' \in Seq(DiffRequest) /\ Len(log) \in Nat /\ Len(log') \in Nat /\ Len(log) <= Len(log')
           /\ Range(log') \subseteq Range(log) \cup {r}
           /\ strayed \subseteq strayed' /\ strayed' \in SUBSET Paths
           /\ \A p : \A j \in 0..Len(log) : Replay(Starter[p], log', p, j) = Replay(Starter[p], log, p, j)
           /\ Outcome(r, lastDiff, lastDiff', log, log', strayed')
<1>1. /\ log \in Seq(DiffRequest) /\ Len(log) \in Nat /\ strayed \in SUBSET Paths /\ lastDiff \in Nat
      /\ wire \in Seq(DiffRequest) /\ i \in 1..Len(wire)
  BY PageTyped
<1>2. r \in DiffRequest
  BY <1>1
<1>3. r.path \in Paths /\ r.clientSeq \in Nat
  BY <1>2 DEF DiffRequest
<1>4. CASE strayed' = strayed \cup {r.path} /\ lastDiff' = lastDiff /\ log' = log
  <2>1. strayed \subseteq strayed' /\ strayed' \in SUBSET Paths /\ r.path \in strayed'
    BY <1>1, <1>3, <1>4
  <2> QED
    BY <1>1, <1>2, <1>4, <2>1 DEF Outcome
<1>5. CASE lastDiff < r.clientSeq /\ lastDiff' = r.clientSeq /\ log' = Append(log, r) /\ strayed' = strayed
  <2>1. PICK k : k = Append(log, r)
    OBVIOUS
  <2>2. /\ k \in Seq(DiffRequest) /\ Len(k) = Len(log) + 1 /\ Len(k) \in Nat /\ DOMAIN k = 1..Len(k)
        /\ k[Len(log) + 1] = r /\ \A j \in 1..Len(log) : k[j] = log[j]
    BY <1>1, <1>2, <2>1
  <2>3. Range(k) \subseteq Range(log) \cup {r}
    <3>1. DOMAIN log = 1..Len(log)
      BY <1>1
    <3>2. ASSUME NEW j \in 1..Len(k) PROVE k[j] \in Range(log) \cup {r}
      <4>1. j \in 1..Len(log) \/ j = Len(log) + 1
        BY <1>1, <2>2
      <4> QED
        BY <2>2, <3>1, <4>1 DEF Range
    <3> QED
      BY <2>2, <3>2 DEF Range
  <2>4. \A p : \A j \in 0..Len(log) : Replay(Starter[p], k, p, j) = Replay(Starter[p], log, p, j)
    BY <1>1, <1>2, <2>1, ReplayAppend
  <2>5. ASSUME NEW p PROVE TextNow(k, p) = ReplayStep(TextNow(log, p), p, r)
    <3>1. Replay(Starter[p], k, p, Len(log) + 1) = ReplayStep(Replay(Starter[p], log, p, Len(log)), p, r)
      BY <1>1, <1>2, <2>1, ReplayAppend
    <3> QED
      BY <2>2, <3>1 DEF TextNow
  <2>6. Outcome(r, lastDiff, r.clientSeq, log, k, strayed)
    BY <1>5, <2>5 DEF Outcome
  <2>7. Len(log) <= Len(k)
    BY <1>1, <2>2
  <2> QED
    BY <1>1, <1>2, <1>3, <1>5, <2>1, <2>2, <2>3, <2>4, <2>6, <2>7
<1> QED
  BY <1>4, <1>5 DEF Handled, RecordDiff

(* What is still to be handled loses the request. *)
LEMMA HandledPend ==
    ASSUME NEW q \in Seq(DiffRequest), NEW w \in Seq(DiffRequest), NEW a, NEW b, LinkInv(q, w, a), NEW i \in 1..Len(w),
           b = IF a = "awaited" /\ i = Len(w) THEN "answered" ELSE a
    PROVE  /\ LinkInv(q, RemoveAt(w, i), b)
           /\ Pend(q, RemoveAt(w, i), b) = RemoveAt(Pend(q, w, a), i)
           /\ i <= Left(w, a) + 1
           /\ Left(RemoveAt(w, i), b) = IF i <= Left(w, a) THEN Left(w, a) - 1 ELSE Left(w, a)
<1>1. PICK v : v = RemoveAt(w, i)
  OBVIOUS
<1>2. PICK u \in Seq(DiffRequest) : u = Unsent(q, a) /\ u = Unsent(q, b)
  <2>1. Unsent(q, a) \in Seq(DiffRequest)
    BY PendTyped
  <2>2. b = "none" <=> a = "none"
    OBVIOUS
  <2>3. Unsent(q, b) = Unsent(q, a)
    BY <2>2 DEF Unsent
  <2> QED
    BY <2>1, <2>3
<1>3. /\ v \in Seq(DiffRequest) /\ Len(v) = Len(w) - 1 /\ Len(w) \in Nat /\ i \in Nat
      /\ \A j \in 1..(i - 1) : v[j] = w[j]
      /\ \A j \in i..(Len(w) - 1) : v[j] = w[j + 1]
  <2>1. Len(w) \in Nat /\ i \in Nat
    OBVIOUS
  <2> QED
    BY <1>1, <2>1, Removed
<1>4. LinkInv(q, v, b)
  <2>1. ASSUME b = "awaited" PROVE v # <<>> /\ v[Len(v)] = Head(q)
    <3>1. a = "awaited" /\ i # Len(w)
      BY <2>1
    <3>2. w[Len(w)] = Head(q) /\ Len(v) \in i..(Len(w) - 1) /\ Len(v) + 1 = Len(w) /\ Len(v) # 0
      BY <1>3, <3>1 DEF LinkInv
    <3>3. v[Len(v)] = w[Len(v) + 1]
      BY <1>3, <3>2
    <3> QED
      BY <1>3, <3>2, <3>3
  <2> QED
    BY <2>1 DEF LinkInv
<1>5. v \o u = RemoveAt(w \o u, i)
  BY <1>1, RemovedEarly
<1>6. i <= Left(w, a) + 1 /\ Left(v, b) = IF i <= Left(w, a) THEN Left(w, a) - 1 ELSE Left(w, a)
  <2>1. CASE a # "awaited"
    BY <1>3, <2>1 DEF Left
  <2>2. CASE a = "awaited" /\ i = Len(w)
    BY <1>3, <2>2 DEF Left
  <2>3. CASE a = "awaited" /\ i # Len(w)
    BY <1>3, <2>3 DEF Left
  <2> QED
    BY <2>1, <2>2, <2>3
<1> QED
  BY <1>1, <1>2, <1>4, <1>5, <1>6 DEF Pend

(* A request is handled. *)
LEMMA HandledInv == ASSUME EInv, NEW i \in DOMAIN wire, Handled(i) PROVE EInv'
<1>0. PICK r : r = wire[i]
  OBVIOUS
<1>1. /\ i \in 1..Len(wire) /\ r \in DiffRequest /\ lastDiff' \in Nat
      /\ log' \in Seq(DiffRequest) /\ Len(log) \in Nat /\ Len(log') \in Nat /\ Len(log) <= Len(log')
      /\ Range(log') \subseteq Range(log) \cup {r}
      /\ strayed \subseteq strayed' /\ strayed' \in SUBSET Paths
      /\ \A p : \A j \in 0..Len(log) : Replay(Starter[p], log', p, j) = Replay(Starter[p], log, p, j)
      /\ Outcome(r, lastDiff, lastDiff', log, log', strayed')
  BY <1>0, HandledLog
<1>2. /\ UNCHANGED <<file, ed, run, session, ran, inputs>> /\ losses' \in 0..MaxLosses /\ wire' = RemoveAt(wire, i)
      /\ answer' = IF answer = "awaited" /\ i = Len(wire) THEN "answered" ELSE answer
  BY DEF Handled, Answered
<1>3. /\ wire \in Seq(DiffRequest) /\ wire' \in Seq(DiffRequest) /\ r \in Range(wire) /\ Range(wire') \subseteq Range(wire)
  <2>1. wire \in Seq(DiffRequest) /\ Len(wire) \in Nat /\ i \in Nat
    BY <1>1, PageTyped
  <2>2. PICK v : v = RemoveAt(wire, i)
    OBVIOUS
  <2>3. /\ v \in Seq(DiffRequest) /\ Len(v) = Len(wire) - 1
        /\ \A j \in 1..(i - 1) : v[j] = wire[j]
        /\ \A j \in i..(Len(wire) - 1) : v[j] = wire[j + 1]
    BY <1>1, <2>1, <2>2, Removed
  <2>4. ASSUME NEW j \in 1..Len(v) PROVE v[j] \in Range(wire)
    <3>1. CASE j < i
      <4>1. j \in 1..(i - 1) /\ j \in DOMAIN wire
        BY <1>1, <2>1, <2>3, <3>1
      <4> QED
        BY <2>3, <4>1 DEF Range
    <3>2. CASE ~(j < i)
      <4>1. j \in i..(Len(wire) - 1) /\ j + 1 \in DOMAIN wire
        BY <1>1, <2>1, <2>3, <3>2
      <4> QED
        BY <2>3, <4>1 DEF Range
    <3> QED
      BY <3>1, <3>2
  <2>5. DOMAIN v = 1..Len(v)
    BY <2>3
  <2> QED
    BY <1>0, <1>2, <2>1, <2>2, <2>3, <2>4, <2>5 DEF Range
<1>4. EditorTypeOK'
  <2>1. \A n \in 0..Len(log) : n \in 0..Len(log')
    BY <1>1
  <2>2. ASSUME NEW x \in ran PROVE x \in [path : Paths, text : Texts, at : 0..Len(log'), unsettled : BOOLEAN]
    <3>1. x \in [path : Paths, text : Texts, at : 0..Len(log), unsettled : BOOLEAN]
      BY DEF EInv, EditorTypeOK
    <3> QED
      BY <2>1, <3>1
  <2>3. ran' \subseteq [path : Paths, text : Texts, at : 0..Len(log'), unsettled : BOOLEAN]
    BY <1>2, <2>2
  <2>4. answer' \in {"none", "awaited", "answered"}
    BY <1>2 DEF EInv, EditorTypeOK
  <2> QED
    BY <1>1, <1>2, <1>3, <2>3, <2>4 DEF EInv, EditorTypeOK
<1>5. (\A x \in Range(wire) \cup Range(log) : x.by \subseteq {x.origin})'
  BY <1>1, <1>3 DEF EInv
<1>6. RunsShown'
  <2>1. ASSUME NEW x \in ran PROVE x.unsettled \/ \E k \in 0..x.at : Replay(Starter[x.path], log', x.path, k) = x.text
    <3>1. x.unsettled \/ \E k \in 0..x.at : Replay(Starter[x.path], log, x.path, k) = x.text
      BY DEF EInv, RunsShown, Replayed
    <3>2. x.at \in 0..Len(log)
      BY DEF EInv, EditorTypeOK
    <3>3. \A k \in 0..x.at : k \in 0..Len(log)
      BY <1>1, <3>2
    <3> QED
      BY <1>1, <3>1, <3>3
  <2> QED
    BY <1>2, <2>1 DEF RunsShown, Replayed
<1>7. SentInv(ed, wire', answer', lastDiff', log', strayed', run)
  <2>1. SentInv(ed, wire, answer, lastDiff, log, strayed, run)
    BY DEF EInv
  <2>2. LinkInv(ed.queue, wire, answer) /\ ed.queue \in Seq(DiffRequest)
    BY <2>1, PageTyped DEF SentInv
  <2>3. PICK P \in Seq(DiffRequest) : P = Pend(ed.queue, wire, answer) /\ Len(wire) <= Len(P) /\ P[i] = r
    <3>1. PICK P \in Seq(DiffRequest) : P = Pend(ed.queue, wire, answer)
      BY <1>3, <2>2, PendTyped
    <3>2. P[i] = wire[i] /\ Len(P) = Len(wire) + Len(Unsent(ed.queue, answer)) /\ Unsent(ed.queue, answer) \in Seq(DiffRequest)
      BY <1>1, <1>3, <2>2, <3>1, PendTyped
    <3>3. Len(wire) \in Nat /\ Len(Unsent(ed.queue, answer)) \in Nat
      BY <1>3, <3>2
    <3> QED
      BY <1>0, <3>1, <3>2, <3>3
  <2>4. PICK g \in Nat : g = Left(wire, answer)
    BY <1>3, <2>2, PendTyped
  <2>5. PICK b : b = answer'
    OBVIOUS
  <2>6. PICK v : v = RemoveAt(wire, i)
    OBVIOUS
  <2>7. PICK Q : Q = RemoveAt(P, i)
    OBVIOUS
  <2>8. /\ LinkInv(ed.queue, v, b) /\ Pend(ed.queue, v, b) = Q /\ i <= g + 1
        /\ Left(v, b) = IF i <= g THEN g - 1 ELSE g
    <3>1. PICK q \in Seq(DiffRequest) : q = ed.queue
      BY <2>2
    <3>2. PICK w \in Seq(DiffRequest) : w = wire
      BY <1>3
    <3>3. PICK a : a = answer
      OBVIOUS
    <3>4. LinkInv(q, w, a) /\ i \in 1..Len(w) /\ b = IF a = "awaited" /\ i = Len(w) THEN "answered" ELSE a
      BY <1>1, <1>2, <2>2, <2>5, <3>1, <3>2, <3>3
    <3>5. /\ LinkInv(q, RemoveAt(w, i), b)
          /\ Pend(q, RemoveAt(w, i), b) = RemoveAt(Pend(q, w, a), i)
          /\ i <= Left(w, a) + 1
          /\ Left(RemoveAt(w, i), b) = IF i <= Left(w, a) THEN Left(w, a) - 1 ELSE Left(w, a)
      BY <3>4, HandledPend
    <3> QED
      BY <2>3, <2>4, <2>6, <2>7, <3>1, <3>2, <3>3, <3>5
  <2>9. PICK h \in Nat : h = Left(v, b) /\ h = IF i <= g THEN g - 1 ELSE g
    <3>1. v \in Seq(DiffRequest)
      BY <1>2, <1>3, <2>6
    <3>2. Left(v, b) \in Nat
      BY <2>2, <2>8, <3>1, PendTyped
    <3> QED
      BY <2>8, <3>2
  <2>10. PICK t \in SUBSET Paths : t = strayed' /\ strayed \subseteq t
    BY <1>1
  <2>11. PICK n \in Nat : n = lastDiff'
    BY <1>1
  <2>12. PICK k : k = log' /\ Len(k) \in Nat /\ Len(log) <= Len(k)
    BY <1>1
  <2>13. Outcome(P[i], lastDiff, n, log, k, t)
    BY <1>1, <2>3, <2>10, <2>11, <2>12
  <2>14. PendInv(ed, P, g, lastDiff, log, strayed, run)
    BY <2>1, <2>3, <2>4 DEF SentInv
  <2>15. \A p : \A j \in 0..Len(log) : Replay(Starter[p], k, p, j) = Replay(Starter[p], log, p, j)
    BY <1>1, <2>12
  <2>16. ed.sequence \in Nat /\ lastDiff \in Nat /\ strayed \in SUBSET Paths /\ run.after \in Nat /\ i \in 1..Len(P)
    <3>1. Len(wire) \in Nat /\ Len(P) \in Nat
      BY <1>3
    <3> QED
      BY <1>1, <2>3, <3>1, PageTyped
  <2>17. PendInv(ed, Q, h, n, k, t, run)
    <3>1. PICK e : e = ed /\ e.sequence \in Nat
      BY <2>16
    <3>2. PICK z : z = run /\ z.after \in Nat
      BY <2>16
    <3>3. PICK l \in Nat : l = lastDiff
      BY <2>16
    <3>4. PICK m : m = log /\ Len(m) \in Nat
      BY <1>1
    <3>5. PICK s \in SUBSET Paths : s = strayed
      BY <2>16
    <3>6. HandledHolds(e, P, i, Q, g, h, l, n, m, k, s, t, z)
      BY <2>7, <2>8, <2>9, <2>10, <2>12, <2>13, <2>14, <2>15, <2>16, <3>1, <3>2, <3>3, <3>4, <3>5 DEF HandledHolds
    <3>7. PendInv(e, Q, h, n, k, t, z)
      BY <3>6, HandledKeeps
    <3> QED
      BY <3>1, <3>2, <3>7
  <2> QED
    BY <1>2, <2>5, <2>6, <2>8, <2>9, <2>10, <2>11, <2>12, <2>17 DEF SentInv
<1>8. SentInv(ed, wire, answer, lastDiff, log, strayed, run)' /\ EdInv(ed, file)'
  BY <1>2, <1>7 DEF EInv
<1> QED
  BY <1>4, <1>5, <1>6, <1>8 DEF EInv

(* The workspace records, drops or refuses a request. *)
LEMMA SubmitDiffInv == ASSUME EInv, NEW i \in DOMAIN wire, SubmitDiff(i) PROVE EInv'
<1>1. Handled(i)
  BY PageTyped DEF SubmitDiff, OutOfOrder, Refused, Handled, pageVars
<1> QED
  BY <1>1, HandledInv

(* A request is lost. *)
LEMMA SubmitFailsInv == ASSUME EInv, NEW i \in DOMAIN wire, SubmitFails(i) PROVE EInv'
<1>1. losses' \in 0..MaxLosses
  BY EditorBounds, PageTyped DEF SubmitFails
<1>2. Handled(i)
  BY <1>1 DEF SubmitFails, Handled, pageVars
<1> QED
  BY <1>2, HandledInv

(* The page and the log begin with the starters. *)
LEMMA InitEditorInv == ASSUME EditorInit PROVE EInv
<1>1. /\ file = First /\ ed = NewDebouncer /\ run = NoRun /\ wire = <<>> /\ answer = "none" /\ session = "active"
      /\ lastDiff = 0 /\ log = <<>> /\ ran = {} /\ strayed = {} /\ inputs = 0 /\ losses = 0
  BY DEF EditorInit
<1>2. EdInv(NewDebouncer, First) /\ NewDebouncer \in EdRecord
  BY NewDebouncerInv
<1>3. NoRun \in RunRecord /\ NoRun.pc = "none" /\ First \in Paths
  BY PathsAssumption DEF NoRun, RunRecord
<1>4. EditorTypeOK
  <2>1. log \in Seq(DiffRequest) /\ wire \in Seq(DiffRequest)
    BY <1>1
  <2> QED
    BY <1>1, <1>2, <1>3, <2>1, EditorBounds DEF EditorTypeOK, EdRecord, RunRecord
<1>5. NewDebouncer.queue = <<>> /\ NewDebouncer.sequence = 0 /\ NewDebouncer.posted = Starter
  BY DEF NewDebouncer
<1>6. Pend(<<>>, <<>>, "none") = <<>> /\ LinkInv(<<>>, <<>>, "none") /\ Left(<<>>, "none") = 0
  <2>1. <<>> \o <<>> = <<>> /\ Len(<<>>) = 0
    OBVIOUS
  <2> QED
    BY <2>1 DEF Pend, Unsent, LinkInv, Left
<1>7. Len(<<>>) = 0 /\ \A p, text : Replay(text, <<>>, p, 0) = text
  <2>1. Len(<<>>) = 0 /\ Len(<<>>) \in Nat
    OBVIOUS
  <2> QED
    BY <2>1, ReplaySteps
<1>8. WireInv(<<>>, 0, 0, 0)
  BY <1>7 DEF WireInv
<1>9. TextInv(NewDebouncer, <<>>, 0, <<>>, {})
  BY <1>5, <1>7 DEF TextInv, TextNow, Intact
<1>10. RunInv(<<>>, 0, <<>>, {}, NoRun)
  BY <1>3 DEF RunInv
<1>11. SentInv(ed, wire, answer, lastDiff, log, strayed, run)
  BY <1>1, <1>5, <1>6, <1>8, <1>9, <1>10 DEF SentInv, PendInv
<1>12. \A r \in Range(wire) \cup Range(log) : r.by \subseteq {r.origin}
  BY <1>1 DEF Range
<1> QED
  BY <1>1, <1>2, <1>4, <1>11, <1>12 DEF EInv, RunsShown

(* Every step keeps the invariant. *)
LEMMA StepEditorInv == ASSUME EInv, [EditorNext]_editorVars PROVE EInv'
<1>1. CASE UNCHANGED editorVars
  <2>1. UNCHANGED <<file, ed, run, wire, answer, session, lastDiff, log, ran, strayed, inputs, losses>>
    BY <1>1 DEF editorVars
  <2>2. EditorTypeOK'
    BY <2>1 DEF EInv, EditorTypeOK
  <2>3. RunsShown' /\ EdInv(ed, file)' /\ SentInv(ed, wire, answer, lastDiff, log, strayed, run)'
    BY <2>1 DEF EInv, RunsShown, Replayed
  <2> QED
    BY <2>1, <2>2, <2>3 DEF EInv
<1>2. CASE EditorNext
  BY <1>2, EditInv, ApplyAIInv, SwitchLanguageInv, RunClickedInv, TimerFiresInv, PostInv, PostedInv, RunCodeInv, PostFailsInv,
     ReloadInv, SubmitDiffInv, SubmitFailsInv, SessionEndsInv DEF EditorNext, Page, Handle
<1> QED
  BY <1>1, <1>2

(* The invariant says where every request comes from. *)
LEMMA OriginsFollow == ASSUME EInv PROVE OriginsTrue
<1>1. ed.queue \in Seq(DiffRequest)
  BY PageTyped
<1>2. \A r \in Range(ed.queue) : \E i \in 1..Len(ed.queue) : r = ed.queue[i]
  BY <1>1 DEF Range
<1>3. \A r \in Range(ed.queue) : r.by \subseteq {r.origin}
  BY <1>2 DEF EInv, EdInv, QueueInv
<1> QED
  BY <1>3 DEF EInv, OriginsTrue

(* The variables of the editor, the wire and the log keep their types: in  *)
(* particular every patch on its way is one between two texts of a file.   *)
THEOREM EditorTyped == EditorSpec => []EditorTypeOK
<1>1. EInv => EditorTypeOK
  BY DEF EInv
<1> QED
  BY <1>1, InitEditorInv, StepEditorInv, PTL DEF EditorSpec

(* Each diff has one, correct origin, in the queue, on its way and in the  *)
(* log: applySuggestion flushes what was typed before it.                  *)
THEOREM OriginsHold == EditorSpec => []OriginsTrue
  BY InitEditorInv, StepEditorInv, OriginsFollow, PTL DEF EditorSpec

(* The event log shows the code that ran: what a run was started with is   *)
(* what replay shows of its file at or before execution.requested, unless  *)
(* an edit of the file was lost or a post of it that failed at the page    *)
(* was still to be handled.                                                *)
THEOREM RunsAreShown == EditorSpec => []RunsShown
<1>1. EInv => RunsShown
  BY DEF EInv
<1> QED
  BY <1>1, InitEditorInv, StepEditorInv, PTL DEF EditorSpec

(* What the log lacks of the editor is still on its way: the log and then  *)
(* all requests that are on the wire, given up or not, or queued show the  *)
(* editor's text of every file that waits for no timer, of which no edit   *)
(* is lost and no request has been overtaken; and the log alone does once  *)
(* nothing is on its way.                                                  *)
Awaited == Pend(ed.queue, wire, answer)
LogCatchesUp ==
    \A p \in Intact(Awaited, lastDiff, strayed) \ ed.timers :
        /\ Replay(Replayed(p, Len(log)), Awaited, p, Len(Awaited)) = ed.current[p]
        /\ ed.queue = <<>> /\ wire = <<>> => Replayed(p, Len(log)) = ed.current[p]

(* The safety half of EditorIsLogged: DiffDebouncer and SubmitDiff lose no *)
(* edit but those that `strayed` names and those that will be dropped as   *)
(* out of order, also when posts fail at the page and are handled late.    *)
THEOREM EditorFollows == EditorSpec => []LogCatchesUp
<1>1. ASSUME EInv PROVE LogCatchesUp
  <2>1. SUFFICES ASSUME NEW p \in Intact(Awaited, lastDiff, strayed) \ ed.timers
                 PROVE  /\ Replay(Replayed(p, Len(log)), Awaited, p, Len(Awaited)) = ed.current[p]
                        /\ ed.queue = <<>> /\ wire = <<>> => Replayed(p, Len(log)) = ed.current[p]
    BY DEF LogCatchesUp
  <2>2. Replay(Replayed(p, Len(log)), Awaited, p, Len(Awaited)) = ed.posted[p]
    BY <1>1 DEF EInv, SentInv, PendInv, TextInv, TextNow, Replayed, Awaited
  <2>3. ed.posted[p] = ed.current[p]
    BY <1>1 DEF EInv, EdInv, Intact
  <2>4. ASSUME ed.queue = <<>>, wire = <<>> PROVE Replayed(p, Len(log)) = ed.current[p]
    <3>1. answer = "none"
      BY <1>1, <2>4 DEF EInv, SentInv, LinkInv
    <3>2. Awaited = <<>> \o <<>>
      BY <2>4, <3>1 DEF Awaited, Pend, Unsent
    <3>3. Len(Awaited) = 0 /\ Len(Awaited) \in Nat
      BY <3>2
    <3>4. Replay(Replayed(p, Len(log)), Awaited, p, 0) = Replayed(p, Len(log))
      BY <3>3, ReplaySteps
    <3> QED
      BY <2>2, <2>3, <3>3, <3>4
  <2> QED
    BY <2>2, <2>3, <2>4
<1> QED
  BY <1>1, InitEditorInv, StepEditorInv, PTL DEF EditorSpec

=============================================================================
