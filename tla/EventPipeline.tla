--------------------------- MODULE EventPipeline ---------------------------
(***************************************************************************)
(* What becomes of one interview's events after Kafka.  The event log      *)
(* writer copies them to ClickHouse and the event indexer to Typesense,    *)
(* both in batches, at least once.  The scoring service waits for the      *)
(* event log to reach a session-ending event, computes the session's       *)
(* metrics from it and stores a score.  The Housekeeper deletes all of it. *)
(*                                                                         *)
(* SaveScore and the Postgres part of Purge are single steps here; their   *)
(* statements are interleaved in WorkspaceStore.                           *)
(*                                                                         *)
(* A definition named X_Y is X with a fault Y: the properties below must   *)
(* fail when it takes the place of X.                                      *)
(***************************************************************************)
EXTENDS SessionLog

CONSTANTS
    Consumers,     \* the batching consumers a run has: "writer", "indexer"
    Triggers,      \* session.submitted and session.expired events
    Searchable,    \* events with text the indexer takes
    BatchSize,     \* Config.BatchSize of either consumer
    MaxAttempts,   \* ConsumerConfig.MaxAttempts
    MaxRows,       \* bound: copies of a row that are told apart
    MaxFaults      \* bound: failures and crashes

ASSUME ConsumersAssumption == Consumers \in {{"writer"}, {"writer", "indexer"}}
ASSUME TriggersAssumption == Triggers \subseteq Numbers
ASSUME SearchableAssumption == Searchable \subseteq Numbers
ASSUME LimitsAssumption == BatchSize \in Nat \ {0} /\ MaxAttempts \in Nat \ {0}
ASSUME BoundsAssumption == MaxRows \in Nat \ {0} /\ MaxFaults \in Nat

VARIABLES
    offset,   \* each consumer group's committed offset in each log
    read,     \* how far its reader has fetched
    phase,    \* "fill": collecting a batch; "commit": the batch is written
    rows,     \* how many copies of each event a consumer's store holds
    erased,   \* history: events deleted from a store, or refused by it
    acked,    \* the scoring service's committed offset in each log
    scorer,   \* the scoring consumer of each session's partition
    scores,   \* the score of each session
    purge,    \* what the Housekeeper is doing with the interview
    purged,   \* interviews.purged_at is set
    faults    \* faults so far

consumerVars == <<offset, read, phase, rows>>
vars == <<log, offset, read, phase, rows, erased, acked, scorer, scores, purge, purged, faults>>

Capped(k, most) == IF k < most THEN k ELSE most

NoScore == [upTo |-> 0, complete |-> FALSE, timeline |-> {}]

Idle == [pc |-> "fetch", attempt |-> 0, complete |-> FALSE, timeline |-> {}]

Stored(c) == {n \in Numbers : rows[c][n] > 0}

Produce(n) ==
    /\ AppendEvent(n)
    /\ UNCHANGED <<consumerVars, erased, acked, scorer, scores, purge, purged, faults>>

-----------------------------------------------------------------------------
(* The batching consumers.                                                 *)

(* The places of c's batch, and the events there that its store takes. *)
Batch(c) == UNION {{<<s, k>> : k \in (offset[c][s] + 1)..read[c][s]} : s \in Sessions}

Takes(c) == IF c = "indexer" THEN Searchable ELSE Numbers

BatchEvents(c) == {log[p[1]][p[2]] : p \in Batch(c)} \cap Takes(c)

Fetch(c, s) ==
    /\ phase[c] = "fill"
    /\ read[c][s] < Len(log[s])
    /\ Cardinality(Batch(c)) < BatchSize
    /\ read' = [read EXCEPT ![c][s] = @ + 1]
    /\ UNCHANGED <<log, offset, phase, rows, erased, acked, scorer, scores, purge, purged, faults>>

(* ClickHouse keeps a row for each insert until it merges them. *)
InsertRows(S) ==
    LET times(n) == Cardinality({p \in Batch("writer") : log[p[1]][p[2]] = n})
    IN  [n \in Numbers |-> IF n \in S THEN Capped(rows["writer"][n] + times(n), MaxRows)
                           ELSE rows["writer"][n]]

(* Typesense replaces a document whose id it has. *)
Upsert(S) == [n \in Numbers |-> IF n \in S THEN 1 ELSE rows["indexer"][n]]

Write(c, S) == rows' = [rows EXCEPT ![c] = IF c = "indexer" THEN Upsert(S) ELSE InsertRows(S)]

(* Typesense may refuse single documents for good: an ImportError, which   *)
(* the indexer reports and passes over.                                    *)
Refusals(c) == SUBSET (IF c = "indexer" THEN BatchEvents(c) ELSE {})

(* The batch is full, or BatchWait has passed, and the store answers. *)
Flush(c) ==
    /\ phase[c] = "fill"
    /\ Batch(c) # {}
    /\ \E refused \in Refusals(c) :
          /\ refused # {} => faults < MaxFaults
          /\ faults' = IF refused = {} THEN faults ELSE faults + 1
          /\ Write(c, BatchEvents(c) \ refused)
          /\ erased' = [erased EXCEPT ![c] = @ \cup refused]
    /\ phase' = [phase EXCEPT ![c] = "commit"]
    /\ UNCHANGED <<log, offset, read, acked, scorer, scores, purge, purged>>

CommitOffsets_Early(c) ==
    /\ Batch(c) # {}
    /\ offset' = [offset EXCEPT ![c] = read[c]]
    /\ phase' = [phase EXCEPT ![c] = "fill"]
    /\ UNCHANGED <<log, read, rows, erased, acked, scorer, scores, purge, purged, faults>>

(* Only after the store has acknowledged the whole batch. *)
CommitOffsets(c) ==
    /\ phase[c] = "commit"
    /\ offset' = [offset EXCEPT ![c] = read[c]]
    /\ phase' = [phase EXCEPT ![c] = "fill"]
    /\ UNCHANGED <<log, read, rows, erased, acked, scorer, scores, purge, purged, faults>>

(* What a failed write may have done: ClickHouse takes the block or not,   *)
(* Typesense any of the documents.                                         *)
PartlyWritten(c) == IF c = "indexer" THEN SUBSET BatchEvents(c) ELSE {{}, BatchEvents(c)}

Resume_Latest(c) == [s \in Sessions |-> Len(log[s])]

(* A new reader starts at the committed offset, or at the beginning. *)
Resume(c) == offset[c]

(* Run returns an error, or the process dies, and it is started again. *)
ConsumerFails(c) ==
    /\ Batch(c) # {}
    /\ faults < MaxFaults
    /\ faults' = faults + 1
    /\ \E S \in IF phase[c] = "fill" THEN PartlyWritten(c) ELSE {{}} : Write(c, S)
    /\ offset' = [offset EXCEPT ![c] = Resume(c)]
    /\ read' = [read EXCEPT ![c] = Resume(c)]
    /\ phase' = [phase EXCEPT ![c] = "fill"]
    /\ UNCHANGED <<log, erased, acked, scorer, scores, purge, purged>>

(* ReplacingMergeTree drops the older copies of a row when it likes. *)
Merge(n) ==
    /\ rows["writer"][n] > 1
    /\ rows' = [rows EXCEPT !["writer"][n] = 1]
    /\ UNCHANGED <<log, offset, read, phase, erased, acked, scorer, scores, purge, purged, faults>>

-----------------------------------------------------------------------------
(* Scoring.  Consumer.Run handles the messages of a partition one by one.  *)

(* A replica has several partitions and works on one of them at a time;    *)
(* here the sessions are independent, which only adds interleavings.       *)

Trigger(s) == log[s][acked[s] + 1]

AtStep(s, pc) == scorer[s].pc = pc

Set(s, r) ==
    /\ scorer' = [scorer EXCEPT ![s] = r]
    /\ UNCHANGED <<log, consumerVars, erased, purge, purged>>

Go(s, pc) == Set(s, [scorer[s] EXCEPT !.pc = pc])

(* handle: a message that is no trigger needs nothing but its commit. *)
FetchTrigger(s) ==
    /\ AtStep(s, "fetch")
    /\ acked[s] < Len(log[s])
    /\ Set(s, IF Trigger(s) \in Triggers
              THEN [Idle EXCEPT !.pc = "exists", !.attempt = 1]
              ELSE [Idle EXCEPT !.pc = "ack"])
    /\ UNCHANGED <<acked, scores, faults>>

ScoreExists(s) ==
    /\ AtStep(s, "exists")
    /\ Go(s, IF scores[s] # NoScore THEN "ack" ELSE "progress")
    /\ UNCHANGED <<acked, scores, faults>>

CaughtUp_CountsRows(upTo) ==
    LET R(k) == {n \in Stored("writer") : n <= upTo /\ rows["writer"][n] >= k}
    IN  /\ \E n \in Stored("writer") : n >= upTo
        /\ Cardinality(R(1)) + Cardinality(R(2)) >= upTo

(* Progress and CaughtUp: the largest number, and how many distinct ones   *)
(* there are up to the trigger.                                            *)
CaughtUp(upTo) ==
    /\ \E n \in Stored("writer") : n >= upTo
    /\ Cardinality({n \in Stored("writer") : n <= upTo}) >= upTo

Final(attempt) == attempt >= MaxAttempts

(* ErrBehind: sleep, then Score again from the start. *)
Behind_Uncounted(s) == Go(s, "exists")
Behind(s) == Set(s, [scorer[s] EXCEPT !.pc = "exists", !.attempt = @ + 1])

ReadProgress(s) ==
    /\ AtStep(s, "progress")
    /\ IF CaughtUp(Trigger(s)) \/ Final(scorer[s].attempt)
       THEN Set(s, [scorer[s] EXCEPT !.pc = "timeline", !.complete = CaughtUp(Trigger(s))])
       ELSE Behind(s)
    /\ UNCHANGED <<acked, scores, faults>>

(* SessionTimeline, read by a second query; Compute and recommend follow. *)
ReadTimeline(s) ==
    /\ AtStep(s, "timeline")
    /\ Set(s, [scorer[s] EXCEPT
                 !.pc = "save",
                 !.timeline = {n \in Stored("writer") : SessionOf[n] = s /\ n <= Trigger(s)}])
    /\ UNCHANGED <<acked, scores, faults>>

(* SaveScore waits for a purge to end; it does nothing for a purged        *)
(* interview (ErrInterviewGone) or a session that has its score.           *)
SaveScore(s) ==
    /\ AtStep(s, "save")
    /\ purge = "idle"
    /\ scores' = IF purged \/ scores[s] # NoScore THEN scores
                 ELSE [scores EXCEPT ![s] = [upTo |-> Trigger(s),
                                             complete |-> scorer[s].complete,
                                             timeline |-> scorer[s].timeline]]
    /\ Set(s, [Idle EXCEPT !.pc = "ack"])
    /\ UNCHANGED <<acked, faults>>

Acknowledge(s) ==
    /\ AtStep(s, "ack")
    /\ acked' = [acked EXCEPT ![s] = @ + 1]
    /\ Set(s, Idle)
    /\ UNCHANGED <<scores, faults>>

(* An error other than ErrBehind, or a crash: a new consumer fetches the   *)
(* message again and counts its attempts from 1.                           *)
ScorerFails(s) ==
    /\ ~AtStep(s, "fetch")
    /\ faults < MaxFaults
    /\ faults' = faults + 1
    /\ Set(s, Idle)
    /\ UNCHANGED <<acked, scores>>

-----------------------------------------------------------------------------
(* The Housekeeper.  Whether the interview is due is not modelled.         *)

PurgeStep(from, to) ==
    /\ purge = from
    /\ purge' = to
    /\ UNCHANGED <<log, offset, read, phase, acked, scorer, faults>>

PurgeLock ==
    /\ ~purged
    /\ PurgeStep("idle", "search")
    /\ UNCHANGED <<rows, erased, scores, purged>>

(* Typesense first, then ClickHouse. *)
Delete(c) ==
    /\ rows' = [d \in Consumers |-> IF d = c THEN [n \in Numbers |-> 0] ELSE rows[d]]
    /\ erased' = [d \in Consumers |-> IF d = c THEN erased[d] \cup Stored(d) ELSE erased[d]]
    /\ UNCHANGED <<scores, purged>>

DeleteSearch == PurgeStep("search", "events") /\ Delete("indexer")
DeleteEvents == PurgeStep("events", "commit") /\ Delete("writer")

(* Skeletonize the interview and write purge_log. *)
PurgeCommit ==
    /\ PurgeStep("commit", "idle")
    /\ purged' = TRUE
    /\ scores' = [s \in Sessions |-> NoScore]
    /\ UNCHANGED <<rows, erased>>

(* A delete or the commit fails, or the job dies: Postgres rolls back. *)
PurgeFails ==
    /\ purge # "idle"
    /\ faults < MaxFaults
    /\ faults' = faults + 1
    /\ purge' = "idle"
    /\ UNCHANGED <<log, consumerVars, erased, acked, scorer, scores, purged>>

-----------------------------------------------------------------------------
Init ==
    /\ log = EmptyLog
    /\ offset = [c \in Consumers |-> [s \in Sessions |-> 0]]
    /\ read = [c \in Consumers |-> [s \in Sessions |-> 0]]
    /\ phase = [c \in Consumers |-> "fill"]
    /\ rows = [c \in Consumers |-> [n \in Numbers |-> 0]]
    /\ erased = [c \in Consumers |-> {}]
    /\ acked = [s \in Sessions |-> 0]
    /\ scorer = [s \in Sessions |-> Idle]
    /\ scores = [s \in Sessions |-> NoScore]
    /\ purge = "idle"
    /\ purged = FALSE
    /\ faults = 0

Consume(c) == (\E s \in Sessions : Fetch(c, s)) \/ Flush(c) \/ CommitOffsets(c)

Score(s) ==
    \/ FetchTrigger(s) \/ ScoreExists(s) \/ ReadProgress(s) \/ ReadTimeline(s)
    \/ SaveScore(s) \/ Acknowledge(s)

Purge == PurgeLock \/ DeleteSearch \/ DeleteEvents \/ PurgeCommit

Next ==
    \/ \E n \in Numbers : Produce(n) \/ Merge(n)
    \/ \E c \in Consumers : Consume(c) \/ ConsumerFails(c)
    \/ \E s \in Sessions : Score(s) \/ ScorerFails(s)
    \/ Purge \/ PurgeFails

Spec == Init /\ [][Next]_vars

(* Consumers are restarted by Kubernetes for ever and a purge that has     *)
(* begun goes on; events, merges, purges and faults need not happen.       *)
FairSpec ==
    /\ Spec
    /\ \A c \in Consumers :
          /\ \A s \in Sessions : WF_vars(Fetch(c, s))
          /\ WF_vars(Flush(c)) /\ WF_vars(CommitOffsets(c))
    /\ \A s \in Sessions : WF_vars(Score(s))
    /\ WF_vars(DeleteSearch \/ DeleteEvents \/ PurgeCommit)

-----------------------------------------------------------------------------
(* Properties.                                                             *)

(* Every variable has its type. *)
TypeOK ==
    /\ log \in [Sessions -> Seq(Numbers)]
    /\ offset \in [Consumers -> [Sessions -> Nat]]
    /\ read \in [Consumers -> [Sessions -> Nat]]
    /\ phase \in [Consumers -> {"fill", "commit"}]
    /\ rows \in [Consumers -> [Numbers -> 0..MaxRows]]
    /\ erased \in [Consumers -> SUBSET Numbers]
    /\ acked \in [Sessions -> Nat]
    /\ scorer \in [Sessions ->
                     [pc : {"fetch", "exists", "progress", "timeline", "save", "ack"},
                      attempt : 0..MaxAttempts, complete : BOOLEAN,
                      timeline : SUBSET Numbers]]
    /\ scores \in [Sessions -> [upTo : {0} \cup Triggers, complete : BOOLEAN,
                                timeline : SUBSET Numbers]]
    /\ purge \in {"idle", "search", "events", "commit"}
    /\ purged \in BOOLEAN
    /\ faults \in 0..MaxFaults

(* An event below a consumer's committed offset is in its store, unless a  *)
(* purge deleted it from there or Typesense refused it: a batch that fails *)
(* half way, before or after the store took it, loses nothing.             *)
CommittedIsStored ==
    \A c \in Consumers, s \in Sessions : \A k \in 1..offset[c][s] :
        log[s][k] \in Takes(c) => log[s][k] \in Stored(c) \cup erased[c]

(* A score marked complete was computed from every event of its session up *)
(* to the trigger, although the log fills out of order and holds some rows *)
(* twice, and although progress and timeline are read by two queries.  The *)
(* exception is what a purge deleted: one that fails after its deletes     *)
(* leaves the interview to be scored from what is left.                    *)
CompleteIsWhole ==
    \A s \in Sessions :
        scores[s].complete =>
            \A n \in 1..scores[s].upTo :
                SessionOf[n] = s => n \in scores[s].timeline \cup erased["writer"]

(* A session-ending event whose message is committed has led to a score of *)
(* its session, unless the interview was purged: neither a log that lags   *)
(* nor a scorer that fails, at whatever step, lets one slip.               *)
AckedIsScored ==
    \A s \in Sessions : \A k \in 1..acked[s] :
        log[s][k] \in Triggers => scores[s] # NoScore \/ purged

(* What makes the three invariants inductive: a session's log holds its    *)
(* events only; a written batch is in the store before it is committed; a  *)
(* score in the making rests on what the event log held when it was read;  *)
(* a trigger is scored before its message is acknowledged.                 *)
Held(c, s, k) == log[s][k] \in Takes(c) => log[s][k] \in Stored(c) \cup erased[c]

LogKeyed == \A s \in Sessions : \A k \in 1..Len(log[s]) : SessionOf[log[s][k]] = s

BatchHeld ==
    \A c \in Consumers, s \in Sessions :
        /\ offset[c][s] <= read[c][s] /\ read[c][s] <= Len(log[s])
        /\ \A k \in 1..offset[c][s] : Held(c, s, k)
        /\ phase[c] = "commit" => \A k \in 1..read[c][s] : Held(c, s, k)

ScoreInv ==
    \A s \in Sessions :
        /\ acked[s] <= Len(log[s])
        /\ ~AtStep(s, "fetch") => acked[s] < Len(log[s])
        /\ scorer[s].pc \in {"exists", "progress", "timeline", "save"} => Trigger(s) \in Triggers
        /\ AtStep(s, "timeline") /\ scorer[s].complete =>
              1..Trigger(s) \subseteq Stored("writer") \cup erased["writer"]
        /\ AtStep(s, "save") /\ scorer[s].complete =>
              \A n \in 1..Trigger(s) :
                  SessionOf[n] = s => n \in scorer[s].timeline \cup erased["writer"]

AckInv ==
    \A s \in Sessions :
        AtStep(s, "ack") /\ Trigger(s) \in Triggers => scores[s] # NoScore \/ purged

(* Every event that reaches Kafka reaches the stores that take it (where a *)
(* purge may delete it again), however often a consumer is restarted.      *)
EventsReachStores ==
    \A n \in Numbers, c \in Consumers :
        InLog(n) /\ n \in Takes(c) ~> n \in Stored(c) \cup erased[c]

(* Every session that ended is scored, or its interview is purged, even if *)
(* a completion it waits for never arrives.                                *)
TriggersAreScored ==
    \A n \in Triggers : InLog(n) ~> scores[SessionOf[n]] # NoScore \/ purged

=============================================================================
