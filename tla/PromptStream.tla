---------------------------- MODULE PromptStream ----------------------------
(***************************************************************************)
(* A candidate's prompt, from the Candidate Workspace through the AI       *)
(* Gateway to the model and back as two chained event streams, and the     *)
(* ai.response.completed event that records it.  The candidate may leave,  *)
(* either service may die, and any call between them may fail.             *)
(*                                                                         *)
(* Text is counted in deltas: both streams keep their order, so what has   *)
(* arrived of an answer is told by how many deltas have.  The prompt's own *)
(* record (RecordEvents) is modelled in WorkspaceStore, the resolving of   *)
(* keys in KeyResolver.                                                    *)
(*                                                                         *)
(* A definition named X_Y is X with a fault Y: the properties below must   *)
(* fail when it takes the place of X.                                      *)
(***************************************************************************)
EXTENDS Integers, Sequences

CONSTANTS
    Prompts,
    MaxDeltas,  \* bound: deltas of an answer
    MaxFaults   \* bound: failed calls and dead services

ASSUME BoundsAssumption == MaxDeltas \in Nat /\ MaxFaults \in Nat

(* events.AIResponseStatus... *)
Statuses == {"completed", "truncated", "refused", "cancelled", "error"}

VARIABLES
    here,    \* the candidate is still connected
    shown,   \* deltas the candidate has received
    told,    \* the status of the candidate's done event
    ws,      \* where the workspace's handler is
    open,    \* the workspace's request to the gateway is under way
    up,      \* events on their way from the gateway to the workspace
    gw,      \* the gateway's handler: where it is, text and status
    key,     \* the gateway holds a copy of the company's key
    kafka,   \* the completion recorded
    lost,    \* the record's write failed, or the gateway died before it
    faults   \* faults so far

vars == <<here, shown, told, ws, open, up, gw, key, kafka, lost, faults>>
candidate == <<here, shown, told>>
record == <<kafka, lost>>

Idle == [pc |-> "idle", text |-> 0, status |-> "none"]
NoRecord == [text |-> 0, status |-> "none"]

Init ==
    /\ here = [p \in Prompts |-> TRUE]
    /\ shown = [p \in Prompts |-> 0]
    /\ told = [p \in Prompts |-> "none"]
    /\ ws = [p \in Prompts |-> "submit"]
    /\ open = [p \in Prompts |-> FALSE]
    /\ up = [p \in Prompts |-> <<>>]
    /\ gw = [p \in Prompts |-> Idle]
    /\ key = [p \in Prompts |-> FALSE]
    /\ kafka = [p \in Prompts |-> NoRecord]
    /\ lost = [p \in Prompts |-> FALSE]
    /\ faults = 0

Fault == faults < MaxFaults /\ faults' = faults + 1

-----------------------------------------------------------------------------
(* The Candidate Workspace.                                                *)

Leave(p) ==
    /\ here[p] /\ told[p] = "none"
    /\ here' = [here EXCEPT ![p] = FALSE]
    /\ UNCHANGED <<shown, told, ws, open, up, gw, key, record, faults>>

(* The handler returns, which ends its request to the gateway too. *)
Return(p) ==
    /\ ws' = [ws EXCEPT ![p] = "ended"]
    /\ open' = [open EXCEPT ![p] = FALSE]

(* A done event, which a candidate who left does not get. *)
SendDone(p, status) ==
    /\ told' = IF here[p] THEN [told EXCEPT ![p] = status] ELSE told
    /\ UNCHANGED <<here, shown>>
    /\ Return(p)

(* prompt.submitted is recorded; or the prompt is invalid, its mode        *)
(* unknown, or the store out of reach.                                     *)
Submit(p) ==
    /\ ws[p] = "submit"
    /\ \/ ws' = [ws EXCEPT ![p] = "accepted"] /\ UNCHANGED <<candidate, open>>
       \/ SendDone(p, "rejected")
    /\ UNCHANGED <<up, gw, key, record, faults>>

(* A write to a candidate who left fails, now or later. *)
Accepted(p) ==
    /\ ws[p] = "accepted"
    /\ \/ ws' = [ws EXCEPT ![p] = "call"] /\ UNCHANGED <<candidate, open>>
       \/ ~here[p] /\ SendDone(p, "unavailable")
    /\ UNCHANGED <<up, gw, key, record, faults>>

(* POST /v1/complete, with the company's own key (byok) or without. *)
Call(p) ==
    /\ ws[p] = "call"
    /\ ws' = [ws EXCEPT ![p] = "relay"]
    /\ open' = [open EXCEPT ![p] = TRUE]
    /\ \E mode \in {"managed", "byok"} :
          gw' = [gw EXCEPT ![p].pc = IF mode = "byok" THEN "key" ELSE "stream"]
    /\ UNCHANGED <<candidate, up, key, record, faults>>

(* The gateway is out of reach or answers with an error, or the candidate  *)
(* has left and the request's context is done.                             *)
CallFails(p) ==
    /\ ws[p] = "call"
    /\ SendDone(p, "unavailable")
    /\ IF here[p] THEN Fault ELSE UNCHANGED faults
    /\ UNCHANGED <<up, gw, key, record>>

RelayDelta(p) ==
    /\ ws[p] = "relay" /\ up[p] # <<>> /\ Head(up[p]) = "delta"
    /\ up' = [up EXCEPT ![p] = Tail(@)]
    /\ \/ /\ shown' = IF here[p] THEN [shown EXCEPT ![p] = @ + 1] ELSE shown
          /\ UNCHANGED <<here, told, ws, open>>
       \/ ~here[p] /\ SendDone(p, "unavailable")
    /\ UNCHANGED <<gw, key, record, faults>>

RelayDone(p) ==
    /\ ws[p] = "relay" /\ up[p] # <<>> /\ Head(up[p]) \in Statuses
    /\ up' = [up EXCEPT ![p] = Tail(@)]
    /\ SendDone(p, Head(up[p]))
    /\ UNCHANGED <<gw, key, record, faults>>

(* The stream ends before its done event, or the context is done. *)
RelayFails_IgnoresEnd(p) ==
    /\ ws[p] = "relay"
    /\ ~here[p]
    /\ SendDone(p, "unavailable")
    /\ UNCHANGED <<up, gw, key, record, faults>>
RelayFails(p) ==
    /\ ws[p] = "relay"
    /\ ~here[p] \/ (up[p] = <<>> /\ ~open[p])
    /\ SendDone(p, "unavailable")
    /\ UNCHANGED <<up, gw, key, record, faults>>

(* The connection to the gateway breaks while both ends live: part of what *)
(* was on its way arrives, and the gateway's request context is done.      *)
StreamBreaks(p) ==
    /\ open[p]
    /\ Fault
    /\ open' = [open EXCEPT ![p] = FALSE]
    /\ \E n \in 0..Len(up[p]) : up' = [up EXCEPT ![p] = SubSeq(@, 1, n)]
    /\ UNCHANGED <<candidate, ws, gw, key, record>>

(* The candidate's connection breaks when the workspace dies. *)
WorkspaceDies(p) ==
    /\ ws[p] # "ended"
    /\ Fault
    /\ Return(p)
    /\ here' = [here EXCEPT ![p] = FALSE]
    /\ UNCHANGED <<shown, told, up, gw, key, record>>

-----------------------------------------------------------------------------
(* The AI Gateway.                                                         *)

(* An error is the caller's doing when the request's context is done. *)
Failed(p) == IF open[p] THEN "error" ELSE "cancelled"

(* The provider call is over: the key is wiped and the record comes next. *)
Finish(p, status) ==
    /\ key' = [key EXCEPT ![p] = FALSE]
    /\ gw' = [gw EXCEPT ![p].pc = "emit", ![p].status = status]

resolveKey(p) ==
    /\ gw[p].pc = "key"
    /\ \/ key' = [key EXCEPT ![p] = TRUE] /\ gw' = [gw EXCEPT ![p].pc = "stream"]
       \/ Finish(p, Failed(p))
    /\ UNCHANGED <<candidate, ws, open, up, record, faults>>

(* Each delta is kept, then forwarded.  Once the workspace has gone the    *)
(* write fails, now or later.                                              *)
Delta(p) ==
    /\ gw[p].pc = "stream" /\ gw[p].text < MaxDeltas
    /\ \/ /\ gw' = [gw EXCEPT ![p].text = @ + 1]
          /\ up' = IF open[p] THEN [up EXCEPT ![p] = Append(@, "delta")] ELSE up
          /\ UNCHANGED key
       \/ /\ ~open[p]
          /\ gw' = [gw EXCEPT ![p] = [pc |-> "emit", text |-> gw[p].text + 1, status |-> "cancelled"]]
          /\ key' = [key EXCEPT ![p] = FALSE]
          /\ UNCHANGED up
    /\ UNCHANGED <<candidate, ws, open, record, faults>>

(* The provider's stream ends: with a stop reason, in an error, or short   *)
(* of a stop reason.                                                       *)
StreamEnds(p) ==
    /\ gw[p].pc = "stream"
    /\ \E status \in {"completed", "truncated", "refused", Failed(p)} : Finish(p, status)
    /\ UNCHANGED <<candidate, ws, open, up, record, faults>>

(* Whether the context of the record's write is done: it is detached from  *)
(* the caller's.                                                           *)
EmitCancelled_Caller(p) == ~open[p]
EmitCancelled(p) == FALSE

Replying(p) == gw' = [gw EXCEPT ![p].pc = "reply"]

(* The producer waits for every in-sync replica. *)
Emit_Async(p) ==
    /\ gw[p].pc = "emit"
    /\ Replying(p)
    /\ UNCHANGED <<candidate, ws, open, up, key, record, faults>>
Emit(p) ==
    /\ gw[p].pc = "emit"
    /\ kafka' = IF EmitCancelled(p) THEN kafka
                ELSE [kafka EXCEPT ![p] = [text |-> gw[p].text, status |-> gw[p].status]]
    /\ Replying(p)
    /\ UNCHANGED <<candidate, ws, open, up, key, lost, faults>>

(* The write fails or times out; the record may be there all the same. *)
EmitFails(p) ==
    /\ gw[p].pc = "emit"
    /\ Fault
    /\ lost' = [lost EXCEPT ![p] = TRUE]
    /\ \/ UNCHANGED kafka
       \/ kafka' = [kafka EXCEPT ![p] = [text |-> gw[p].text, status |-> gw[p].status]]
    /\ Replying(p)
    /\ UNCHANGED <<candidate, ws, open, up, key>>

Reply(p) ==
    /\ gw[p].pc = "reply"
    /\ gw' = [gw EXCEPT ![p].pc = "ended"]
    /\ up' = IF open[p] THEN [up EXCEPT ![p] = Append(@, gw[p].status)] ELSE up
    /\ UNCHANGED <<candidate, ws, open, key, record, faults>>

(* What was on its way to the workspace may arrive or not. *)
GatewayDies(p) ==
    /\ gw[p].pc \notin {"idle", "ended", "dead"}
    /\ Fault
    /\ gw' = [gw EXCEPT ![p].pc = "dead"]
    /\ key' = [key EXCEPT ![p] = FALSE]
    /\ open' = [open EXCEPT ![p] = FALSE]
    /\ lost' = [lost EXCEPT ![p] = @ \/ gw[p].pc # "reply"]
    /\ \E n \in 0..Len(up[p]) : up' = [up EXCEPT ![p] = SubSeq(@, 1, n)]
    /\ UNCHANGED <<candidate, ws, kafka>>

-----------------------------------------------------------------------------

Workspace(p) == \/ Submit(p) \/ Accepted(p) \/ Call(p)
                \/ RelayDelta(p) \/ RelayDone(p) \/ RelayFails(p)
Gateway(p) == resolveKey(p) \/ StreamEnds(p) \/ Emit(p) \/ Reply(p)

Next == \E p \in Prompts :
    \/ Workspace(p) \/ Gateway(p) \/ Delta(p)
    \/ Leave(p) \/ CallFails(p) \/ StreamBreaks(p) \/ WorkspaceDies(p) \/ EmitFails(p) \/ GatewayDies(p)

Spec == Init /\ [][Next]_vars

(* Calls return, and the provider ends its stream at last. *)
FairSpec == Spec /\ \A p \in Prompts : WF_vars(Workspace(p)) /\ WF_vars(Gateway(p))

-----------------------------------------------------------------------------
(* Properties.                                                             *)

(* Every variable has its type. *)
TypeOK ==
    /\ here \in [Prompts -> BOOLEAN]
    /\ shown \in [Prompts -> 0..MaxDeltas]
    /\ told \in [Prompts -> Statuses \cup {"none", "rejected", "unavailable"}]
    /\ ws \in [Prompts -> {"submit", "accepted", "call", "relay", "ended"}]
    /\ open \in [Prompts -> BOOLEAN]
    /\ up \in [Prompts -> Seq(Statuses \cup {"delta"})]
    /\ gw \in [Prompts -> [pc : {"idle", "key", "stream", "emit", "reply", "ended", "dead"},
                           text : 0..MaxDeltas, status : Statuses \cup {"none"}]]
    /\ key \in [Prompts -> BOOLEAN]
    /\ kafka \in [Prompts -> [text : 0..MaxDeltas, status : Statuses \cup {"none"}]]
    /\ lost \in [Prompts -> BOOLEAN]
    /\ faults \in 0..MaxFaults

Recorded(p) == kafka[p] # NoRecord

(* A candidate who is told how an answer ended has been shown all of it,   *)
(* and the record says the same, unless its write failed.  One who was cut *)
(* off, or left, was shown nothing that the record lacks.                  *)
ToldIsRecorded ==
    \A p \in Prompts :
        /\ told[p] \in Statuses =>
              \/ kafka[p] = [text |-> shown[p], status |-> told[p]]
              \/ lost[p] /\ ~Recorded(p)
        /\ Recorded(p) => shown[p] <= kafka[p].text

(* What the gateway would record of the answer as it stands. *)
Answer(p) == [text |-> gw[p].text, status |-> gw[p].status]

(* The deltas among the events of a stream, whose status, if any, is last. *)
Ends(u) == Len(u) > 0 /\ u[Len(u)] # "delta"
DeltasIn(u) == IF Ends(u) THEN Len(u) - 1 ELSE Len(u)

(* What makes ToldIsRecorded inductive: a prompt that has not reached the  *)
(* gateway has no answer; a record is the gateway's final answer; what is  *)
(* shown and what is on its way are a part of the text, and all of it as   *)
(* long as the candidate is there and the stream holds or has its end.     *)
PromptInv(p) ==
    /\ ws[p] \in {"submit", "accepted", "call"} => gw[p].pc = "idle"
    /\ gw[p].pc = "idle" => /\ gw[p] = Idle /\ up[p] = <<>> /\ shown[p] = 0
                            /\ ~open[p] /\ ~lost[p] /\ told[p] \notin Statuses
    /\ gw[p].pc \in {"idle", "key", "stream", "emit"} => kafka[p] = NoRecord
    /\ gw[p].pc \in {"emit", "reply", "ended"} => gw[p].status \in Statuses
    /\ gw[p].pc \in {"reply", "ended"} => Recorded(p) \/ lost[p]
    /\ Recorded(p) => kafka[p] = Answer(p)
    /\ \A k \in 1..Len(up[p]) :
          up[p][k] # "delta" => k = Len(up[p]) /\ gw[p].pc = "ended" /\ up[p][k] = gw[p].status
    /\ shown[p] + DeltasIn(up[p]) <= gw[p].text
    /\ ws[p] = "relay" => gw[p].pc # "idle"
    /\ ws[p] = "relay" /\ here[p] /\ (open[p] \/ Ends(up[p])) =>
          shown[p] + DeltasIn(up[p]) = gw[p].text
    /\ open[p] => ws[p] = "relay" /\ gw[p].pc # "dead"
    /\ told[p] # "none" => ws[p] = "ended"
    /\ told[p] \in Statuses => gw[p].pc = "ended" /\ told[p] = gw[p].status /\ shown[p] = gw[p].text

(* Every call the gateway takes is recorded, whoever leaves or dies before *)
(* it ends, unless the record's write fails or the gateway dies.           *)
CallsRecorded == \A p \in Prompts : gw[p].pc # "idle" ~> Recorded(p) \/ lost[p]

(* Every candidate who waits is told how the prompt ended. *)
PromptsAnswered == \A p \in Prompts : <>(told[p] # "none" \/ ~here[p])

=============================================================================
