---------------------------- MODULE LiveMonitor ----------------------------
(***************************************************************************)
(* Live monitoring of one interview: the events of its sessions leave      *)
(* Kafka, an Ingester puts each on the Bus (a ring of the newest events    *)
(* and a publish/subscribe channel in Redis), and a Handler per viewer     *)
(* streams them to the company's client, which reconnects for ever.        *)
(*                                                                         *)
(* The events and how they reach Kafka are those of SessionLog.            *)
(*                                                                         *)
(* A definition named X_Y is X with a fault Y: the properties below must   *)
(* fail when it takes the place of X.                                      *)
(***************************************************************************)
EXTENDS SessionLog, SequencesExt

CONSTANTS
    Viewers,
    Capacity,      \* RedisBus.capacity
    Buffer,        \* subscriptionBuffer
    MaxFaults,     \* bound: ingester crashes, disconnects, failed history reads
    MaxDrops,      \* bound: publications that pub/sub loses
    MaxExpiries    \* bound: expiries of the ring

ASSUME CapacityAssumption == Capacity \in Nat \ {0} /\ Buffer \in Nat \ {0}
ASSUME BoundsAssumption == MaxFaults \in Nat /\ MaxDrops \in Nat /\ MaxExpiries \in Nat

VARIABLES
    committed,  \* the consumer group's offset in each session's log
    handled,    \* sessions whose next message is on the Bus, not committed
    stored,     \* how much of each log the event log (ClickHouse) holds
    ring,       \* the sorted set of the newest events
    view,       \* the Handler serving each viewer
    client,     \* what each viewer's client has shown, in order
    faults,     \* faults so far
    drops,      \* publications that a subscriber missed so far
    expiries    \* expiries so far

vars == <<log, committed, handled, stored, ring, view, client, faults, drops, expiries>>

-----------------------------------------------------------------------------
Produce(n) ==
    /\ AppendEvent(n)
    /\ UNCHANGED <<committed, handled, stored, ring, view, client, faults, drops, expiries>>

(* The event log writer stores each log in order. *)
Store(s) ==
    /\ stored[s] < Len(log[s])
    /\ stored' = [stored EXCEPT ![s] = @ + 1]
    /\ UNCHANGED <<log, committed, handled, ring, view, client, faults, drops, expiries>>

History == UNION {{log[s][k] : k \in 1..stored[s]} : s \in Sessions}

-----------------------------------------------------------------------------
(* The Ingester and the Bus.                                               *)

Oldest(R) == IF R = {} THEN 0 ELSE CHOOSE n \in R : \A m \in R : n <= m

(* ZREMRANGEBYRANK: the newest Capacity members stay. *)
Trim(R) == {n \in R : Cardinality({m \in R : m > n}) < Capacity}

Off == [pc |-> "off", lastSent |-> 0, ch |-> << >>, oldest |-> 0,
        recent |-> {}, wire |-> << >>]

(* The subscription is opened before catching up and closed at the end. *)
Subscribed_Late(v) == view[v].pc = "live"
Subscribed(v) == view[v].pc # "off"

(* forward: an event that finds the buffer full is dropped. *)
HasRoom(v) == Len(view[v].ch) < Buffer

(* publishScript: trim and fan out, unless the ring holds the number.      *)
(* Redis may lose the message to some subscribers.                         *)
Publish(n) ==
    IF n \in ring
    THEN UNCHANGED <<ring, view, drops>>
    ELSE LET subscribers == {v \in Viewers : Subscribed(v)}
         IN  \E lost \in SUBSET subscribers :
                LET receivers == {v \in subscribers \ lost : HasRoom(v)}
                IN  /\ lost # {} => drops < MaxDrops
                    /\ drops' = IF receivers = subscribers THEN drops ELSE drops + 1
                    /\ ring' = Trim(ring \cup {n})
                    /\ view' = [v \in Viewers |->
                                  IF v \in receivers
                                  THEN [view[v] EXCEPT !.ch = Append(@, n)] ELSE view[v]]

(* Ingester.Run: fetch, Handle, ... *)
Ingest(s) ==
    /\ s \notin handled
    /\ committed[s] < Len(log[s])
    /\ Publish(log[s][committed[s] + 1])
    /\ handled' = handled \cup {s}
    /\ UNCHANGED <<log, committed, stored, client, faults, expiries>>

(* ... CommitMessages. *)
CommitOffset(s) ==
    /\ s \in handled
    /\ committed' = [committed EXCEPT ![s] = @ + 1]
    /\ handled' = handled \ {s}
    /\ UNCHANGED <<log, stored, ring, view, client, faults, drops, expiries>>

(* The ingester stops after Handle: a new reader gets the message again. *)
IngestFail(s) ==
    /\ s \in handled
    /\ faults < MaxFaults
    /\ faults' = faults + 1
    /\ handled' = handled \ {s}
    /\ UNCHANGED <<log, committed, stored, ring, view, client, drops, expiries>>

(* PEXPIRE: no event of the interview for the ring's TTL. *)
Expire ==
    /\ ring # {}
    /\ expiries < MaxExpiries
    /\ expiries' = expiries + 1
    /\ ring' = {}
    /\ UNCHANGED <<log, committed, handled, stored, view, client, faults, drops>>

-----------------------------------------------------------------------------
(* The Handler of a viewer.                                                *)

After(R, n) == {m \in R : m > n}

(* The place of n among the members of R, in ascending order. *)
Rank(R, n) == Cardinality({m \in R : m <= n})

Ascending(R) == [k \in 1..Cardinality(R) |-> CHOOSE n \in R : Rank(R, n) = k]

Send_Again(h, R) ==
    LET all == Ascending(R)
    IN  IF all = << >> THEN h ELSE [h EXCEPT !.wire = @ \o all, !.lastSent = Last(all)]

(* session.send, for each event of R in ascending order: those at or below *)
(* lastSent are skipped.                                                   *)
Send(h, R) ==
    LET new == Ascending(After(R, h.lastSent))
    IN  IF new = << >> THEN h ELSE [h EXCEPT !.wire = @ \o new, !.lastSent = Last(new)]

(* lastEventId of the client. *)
LastSeen(v) == IF client[v] = << >> THEN 0 ELSE Last(client[v])

SetView(v, h) ==
    /\ view' = [view EXCEPT ![v] = h]
    /\ UNCHANGED <<log, committed, handled, stored, ring, client, drops, expiries>>

(* Live: subscribe first.  The client resumes from the last event it saw.  *)
Connect(v) ==
    /\ view[v].pc = "off"
    /\ SetView(v, [Off EXCEPT !.pc = "oldest", !.lastSent = LastSeen(v)])
    /\ UNCHANGED faults

(* catchUp(true): Recent is two commands of one pipeline. *)
ReadOldest(v) ==
    /\ view[v].pc = "oldest"
    /\ SetView(v, [view[v] EXCEPT !.pc = "recent", !.oldest = Oldest(ring)])
    /\ UNCHANGED faults

ReadRecent(v) ==
    /\ view[v].pc = "recent"
    /\ LET h == [view[v] EXCEPT !.recent = After(ring, view[v].lastSent)]
       IN  IF h.oldest = 0 \/ h.oldest > h.lastSent + 1
           THEN SetView(v, [h EXCEPT !.pc = "history"])
           ELSE SetView(v, [Send(h, h.recent) EXCEPT
                               !.pc = "live", !.oldest = 0, !.recent = {}])
    /\ UNCHANGED faults

(* Timeline, up to where the ring begins, then the ring. *)
SendCatchUp(v, past) ==
    LET h == view[v]
    IN  SetView(v, [Send(Send(h, past), h.recent) EXCEPT
                       !.pc = "live", !.oldest = 0, !.recent = {}])

ReadHistory(v) ==
    /\ view[v].pc = "history"
    /\ SendCatchUp(v, {n \in After(History, view[v].lastSent) :
                          view[v].oldest = 0 \/ n < view[v].oldest})
    /\ UNCHANGED faults

HistoryFails(v) ==
    /\ view[v].pc = "history"
    /\ faults < MaxFaults
    /\ faults' = faults + 1
    /\ SendCatchUp(v, {})

(* The loop of Live: a gap before the event is repaired from the ring.     *)
Repair_None(h) == {}
Repair(h) == IF h.ch[1] > h.lastSent + 1 THEN After(ring, h.lastSent) ELSE {}

Forward(v) ==
    /\ view[v].pc = "live"
    /\ view[v].ch # << >>
    /\ LET h == view[v]
       IN  SetView(v, Send([Send(h, Repair(h)) EXCEPT !.ch = Tail(@)], {h.ch[1]}))
    /\ UNCHANGED faults

(* The connection, the subscription or the replica is gone; what was on    *)
(* the wire is lost.                                                       *)
Disconnect(v) ==
    /\ view[v].pc # "off"
    /\ faults < MaxFaults
    /\ faults' = faults + 1
    /\ SetView(v, Off)

(* watchLive: the client shows an event unless it is not above the last. *)
Receive(v) ==
    /\ view[v].wire # << >>
    /\ client' = [client EXCEPT ![v] = IF Head(view[v].wire) <= LastSeen(v) THEN @
                                       ELSE Append(@, Head(view[v].wire))]
    /\ view' = [view EXCEPT ![v].wire = Tail(@)]
    /\ UNCHANGED <<log, committed, handled, stored, ring, faults, drops, expiries>>

-----------------------------------------------------------------------------
Init ==
    /\ log = EmptyLog
    /\ committed = [s \in Sessions |-> 0]
    /\ handled = {}
    /\ stored = [s \in Sessions |-> 0]
    /\ ring = {}
    /\ view = [v \in Viewers |-> Off]
    /\ client = [v \in Viewers |-> << >>]
    /\ faults = 0
    /\ drops = 0
    /\ expiries = 0

Serve(v) ==
    \/ Connect(v) \/ ReadOldest(v) \/ ReadRecent(v) \/ ReadHistory(v)
    \/ Forward(v) \/ Receive(v)

Next ==
    \/ \E n \in Numbers : Produce(n)
    \/ \E s \in Sessions : Store(s) \/ Ingest(s) \/ CommitOffset(s) \/ IngestFail(s)
    \/ Expire
    \/ \E v \in Viewers : Serve(v) \/ HistoryFails(v) \/ Disconnect(v)

Spec == Init /\ [][Next]_vars

(* The ingester is restarted for ever, the client reconnects for ever and  *)
(* a Handler serves its connection.  Nothing obliges the candidates to     *)
(* produce events.                                                         *)
FairSpec ==
    /\ Spec
    /\ \A s \in Sessions : WF_vars(Ingest(s)) /\ WF_vars(CommitOffset(s))
    /\ \A v \in Viewers :
          /\ WF_vars(Connect(v)) /\ WF_vars(ReadOldest(v)) /\ WF_vars(ReadRecent(v))
          /\ WF_vars(ReadHistory(v)) /\ WF_vars(Forward(v)) /\ WF_vars(Receive(v))

-----------------------------------------------------------------------------
(* Properties.                                                             *)

(* Every variable has its type. *)
TypeOK ==
    /\ log \in [Sessions -> Seq(Numbers)]
    /\ committed \in [Sessions -> Nat]
    /\ handled \subseteq Sessions
    /\ stored \in [Sessions -> Nat]
    /\ ring \subseteq Numbers /\ Cardinality(ring) <= Capacity
    /\ view \in [Viewers -> [pc : {"off", "oldest", "recent", "history", "live"},
                             lastSent : Numbers \cup {0}, ch : Seq(Numbers),
                             oldest : Numbers \cup {0}, recent : SUBSET Numbers,
                             wire : Seq(Numbers)]]
    /\ client \in [Viewers -> Seq(Numbers)]
    /\ faults \in 0..MaxFaults
    /\ drops \in Nat
    /\ expiries \in 0..MaxExpiries

Shown(v) == Range(client[v])
Sent(v) == Shown(v) \cup Range(view[v].wire)

(* An event that reached Kafka after a later one of its session. *)
Late(n) ==
    LET l == log[SessionOf[n]]
    IN  \A k \in DOMAIN l : l[k] = n => \E j \in 1..(k - 1) : l[j] > n

(* What a Handler has on the wire is in ascending order and above all the  *)
(* client has shown: no event is sent twice and none late, although events *)
(* reach the ring out of order, are redelivered to it, are found again by  *)
(* catch-up and by repair, and the viewer reconnects.  lastSent bounds all *)
(* that was sent and is itself one of those, so that it skips nothing by   *)
(* mistake either.                                                         *)
OrderInv ==
    \A v \in Viewers :
        /\ \A j, k \in DOMAIN view[v].wire : j < k => view[v].wire[j] < view[v].wire[k]
        /\ \A m \in Shown(v) : \A n \in Range(view[v].wire) : m < n
        /\ view[v].pc = "off" => view[v].wire = << >>
        /\ view[v].pc # "off" =>
              /\ \A n \in Sent(v) : n <= view[v].lastSent
              /\ view[v].lastSent = 0 \/ view[v].lastSent \in Sent(v)

(* In an interview with one session, a Handler passes over an event that   *)
(* was not late only if the ring no longer holds it: whatever pub/sub      *)
(* lost, the repair finds everything that can still be found.  (After the  *)
(* ring has expired, a resent event may re-enter it behind the viewer.)    *)
SkippedIsGone ==
    \A v \in Viewers :
        view[v].pc = "live" /\ expiries = 0 =>
            \A n \in ring : n <= view[v].lastSent => n \in Sent(v) \/ Late(n)

(* So the client has shown every event at most once, and in order. *)
ShownInOrder ==
    \A v \in Viewers : \A j, k \in DOMAIN client[v] : j < k => client[v][j] < client[v][k]

(* No consumer is ahead of a log. *)
OffsetInv ==
    \A s \in Sessions :
        /\ committed[s] <= Len(log[s]) /\ stored[s] <= Len(log[s])
        /\ s \in handled => committed[s] < Len(log[s])

(* What the Bus may hold of a log, the message being handled included. *)
Ingested(s) == {log[s][k] : k \in DOMAIN log[s] \cap 1..(committed[s] + 1)}

(* The numbers that a viewer's Handler has, or has sent, come from there,  *)
(* but for what the history already had.                                   *)
SourceInv ==
    \A s \in Sessions :
        /\ ring \subseteq Ingested(s)
        /\ \A v \in Viewers :
              /\ Range(view[v].ch) \cup view[v].recent \subseteq Ingested(s)
              /\ Sent(v) \subseteq Range(log[s])

(* Until the ring expires, an event that was published is in the ring or   *)
(* is older than all of a full ring.                                       *)
RingInv ==
    expiries = 0 =>
        \A s \in Sessions : \A k \in DOMAIN log[s] :
            k <= committed[s] \/ (s \in handled /\ k = committed[s] + 1) =>
                log[s][k] \in ring \/ Cardinality(After(ring, log[s][k])) = Capacity

(* An event that was ingested and has left the ring. *)
Gone(n) ==
    /\ n \notin ring
    /\ \E k \in 1..committed[SessionOf[n]] : log[SessionOf[n]][k] = n

(* Whatever a Handler passes over or is about to pass over, late events    *)
(* apart, is gone.                                                         *)
SkipInv ==
    expiries = 0 =>
        \A v \in Viewers : \A n \in Numbers :
            /\ \A m \in Sent(v) : n < m /\ n \notin Sent(v) => Late(n) \/ Gone(n)
            /\ view[v].pc = "history" /\ n > view[v].lastSent /\ n \notin view[v].recent =>
                  \A m \in view[v].recent : n < m => Late(n) \/ Gone(n)

(* An event that is not late and stays in the ring is shown in the end,    *)
(* however often the viewer is cut off, unless a subscriber misses a       *)
(* message or the ring expires: the subscription is opened before the ring *)
(* is read.                                                                *)
PublishedIsShown ==
    \A v \in Viewers : \A n \in Numbers :
        n \in ring ~> \/ n \in Shown(v) \/ n \notin ring
                     \/ Late(n) \/ drops > 0 \/ expiries > 0

=============================================================================
