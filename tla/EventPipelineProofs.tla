------------------------ MODULE EventPipelineProofs ------------------------
(***************************************************************************)
(* Proofs about EventPipeline, for any number of events and sessions, any  *)
(* batch size, any number of attempts and any number of faults, with one   *)
(* consumer or both.                                                       *)
(***************************************************************************)
EXTENDS EventPipeline, FiniteSetTheorems, SequenceTheorems, TLAPS

IInv == TypeOK /\ LogKeyed /\ BatchHeld /\ ScoreInv /\ CompleteIsWhole

ScorerRecord == [pc : {"fetch", "exists", "progress", "timeline", "save", "ack"},
                 attempt : 0..MaxAttempts, complete : BOOLEAN, timeline : SUBSET Numbers]

ScoreRecord == [upTo : {0} \cup Triggers, complete : BOOLEAN, timeline : SUBSET Numbers]

(* There is always an event log writer. *)
LEMMA WriterIsThere == "writer" \in Consumers /\ \A c \in Consumers : c = "writer" \/ c = "indexer"
  BY ConsumersAssumption

(* A session's log only grows at its end. *)
LogKept == \A s \in Sessions : /\ Len(log[s]) <= Len(log'[s])
                               /\ \A k \in 1..Len(log[s]) : log'[s][k] = log[s][k]

(* What a store once held it holds, or it is known to be erased. *)
StoresKept == \A c \in Consumers : /\ Stored(c) \cup erased[c] \subseteq Stored(c)' \cup erased'[c]
                                   /\ erased[c] \subseteq erased'[c]

(* Steps that leave a log, or the stores, alone. *)
LEMMA LogSame == ASSUME TypeOK, UNCHANGED log PROVE LogKept
  BY DEF TypeOK, LogKept

LEMMA StoresSame == ASSUME UNCHANGED <<rows, erased>> PROVE StoresKept
  BY DEF StoresKept, Stored

-----------------------------------------------------------------------------
(* The parts of the invariant a step does not work on.                     *)

(* Batches that a step leaves as they are. *)
LEMMA BatchKept ==
    ASSUME IInv, TypeOK', LogKept, StoresKept, UNCHANGED <<offset, read, phase>>
    PROVE  BatchHeld'
<1> SUFFICES ASSUME NEW c \in Consumers, NEW s \in Sessions
             PROVE  /\ offset[c][s] <= read[c][s] /\ read[c][s] <= Len(log'[s])
                    /\ \A k \in 1..offset[c][s] : Held(c, s, k)'
                    /\ phase[c] = "commit" => \A k \in 1..read[c][s] : Held(c, s, k)'
  BY DEF BatchHeld
<1>1. /\ offset[c][s] <= read[c][s] /\ read[c][s] <= Len(log[s])
      /\ \A k \in 1..offset[c][s] : Held(c, s, k)
      /\ phase[c] = "commit" => \A k \in 1..read[c][s] : Held(c, s, k)
  BY DEF IInv, BatchHeld
<1>2. offset[c][s] \in Nat /\ read[c][s] \in Nat /\ Len(log[s]) \in Nat /\ Len(log'[s]) \in Nat
  BY DEF IInv, TypeOK
<1>3. ASSUME NEW k \in 1..Len(log[s]), Held(c, s, k) PROVE Held(c, s, k)'
  BY <1>3 DEF Held, LogKept, StoresKept, Takes
<1>4. Len(log[s]) <= Len(log'[s])
  BY DEF LogKept
<1>5. \A k \in 1..read[c][s] : k \in 1..Len(log[s])
  BY <1>1, <1>2
<1>6. \A k \in 1..offset[c][s] : k \in 1..Len(log[s])
  BY <1>1, <1>2
<1> QED
  BY <1>1, <1>2, <1>3, <1>4, <1>5, <1>6

(* Scores in the making that a step leaves as they are. *)
LEMMA ScoringKept ==
    ASSUME IInv, TypeOK', LogKept, StoresKept, NEW s \in Sessions,
           acked'[s] = acked[s], scorer'[s] = scorer[s]
    PROVE  /\ acked'[s] <= Len(log'[s])
           /\ ~AtStep(s, "fetch")' => acked'[s] < Len(log'[s])
           /\ scorer'[s].pc \in {"exists", "progress", "timeline", "save"} => Trigger(s)' \in Triggers
           /\ AtStep(s, "timeline")' /\ scorer'[s].complete =>
                 1..Trigger(s)' \subseteq Stored("writer")' \cup erased'["writer"]
           /\ AtStep(s, "save")' /\ scorer'[s].complete =>
                 \A n \in 1..Trigger(s)' :
                     SessionOf[n] = s => n \in scorer'[s].timeline \cup erased'["writer"]
<1>1. /\ acked[s] <= Len(log[s])
      /\ ~AtStep(s, "fetch") => acked[s] < Len(log[s])
      /\ scorer[s].pc \in {"exists", "progress", "timeline", "save"} => Trigger(s) \in Triggers
      /\ AtStep(s, "timeline") /\ scorer[s].complete =>
            1..Trigger(s) \subseteq Stored("writer") \cup erased["writer"]
      /\ AtStep(s, "save") /\ scorer[s].complete =>
            \A n \in 1..Trigger(s) : SessionOf[n] = s => n \in scorer[s].timeline \cup erased["writer"]
  BY DEF IInv, ScoreInv
<1>2. acked[s] \in Nat /\ Len(log[s]) \in Nat /\ Len(log'[s]) \in Nat /\ Len(log[s]) <= Len(log'[s])
  BY DEF IInv, TypeOK, LogKept
<1>3. ~AtStep(s, "fetch") => acked[s] + 1 \in 1..Len(log[s])
  BY <1>1, <1>2
<1>4. ~AtStep(s, "fetch") => Trigger(s)' = Trigger(s)
  BY <1>3 DEF Trigger, LogKept
<1>5. \A pc : AtStep(s, pc)' <=> AtStep(s, pc)
  BY DEF AtStep
<1>6. /\ Stored("writer") \cup erased["writer"] \subseteq Stored("writer")' \cup erased'["writer"]
      /\ erased["writer"] \subseteq erased'["writer"]
  BY WriterIsThere DEF StoresKept
<1>7. acked'[s] <= Len(log'[s]) /\ (~AtStep(s, "fetch")' => acked'[s] < Len(log'[s]))
  BY <1>1, <1>2, <1>5
<1>8. scorer'[s].pc \in {"exists", "progress", "timeline", "save"} => Trigger(s)' \in Triggers
  BY <1>1, <1>4 DEF AtStep
<1>9. AtStep(s, "timeline")' /\ scorer'[s].complete =>
         1..Trigger(s)' \subseteq Stored("writer")' \cup erased'["writer"]
  BY <1>1, <1>4, <1>6 DEF AtStep
<1>10. AtStep(s, "save")' /\ scorer'[s].complete =>
          \A n \in 1..Trigger(s)' :
              SessionOf[n] = s => n \in scorer'[s].timeline \cup erased'["writer"]
  BY <1>1, <1>4, <1>6 DEF AtStep
<1> QED
  BY <1>7, <1>8, <1>9, <1>10

(* All of them. *)
LEMMA ScorersKept ==
    ASSUME IInv, TypeOK', LogKept, StoresKept, UNCHANGED <<acked, scorer>>
    PROVE  ScoreInv'
  BY ScoringKept DEF ScoreInv

(* Stored scores that a step leaves as they are. *)
LEMMA ScoresKept ==
    ASSUME IInv, StoresKept, UNCHANGED scores
    PROVE  CompleteIsWhole'
<1>1. erased["writer"] \subseteq erased'["writer"]
  BY WriterIsThere DEF StoresKept
<1> QED
  BY <1>1 DEF IInv, CompleteIsWhole

-----------------------------------------------------------------------------
(* The log and the consumers.                                              *)

(* An event is produced. *)
LEMMA ProduceInv == ASSUME IInv, NEW n \in Numbers, Produce(n) PROVE IInv'
<1> DEFINE t == SessionOf[n]
<1>1. t \in Sessions /\ log \in [Sessions -> Seq(Numbers)]
  BY SessionOfAssumption DEF IInv, TypeOK
<1>2. log' = [log EXCEPT ![t] = Append(log[t], n)]
  BY DEF Produce, AppendEvent
<1>3. /\ Append(log[t], n) \in Seq(Numbers) /\ Len(Append(log[t], n)) = Len(log[t]) + 1
      /\ \A k \in 1..Len(log[t]) : Append(log[t], n)[k] = log[t][k]
      /\ Append(log[t], n)[Len(log[t]) + 1] = n
      /\ Len(log[t]) \in Nat
  BY <1>1, AppendProperties
<1>4. log' \in [Sessions -> Seq(Numbers)] /\ log'[t] = Append(log[t], n) /\ \A s \in Sessions \ {t} : log'[s] = log[s]
  BY <1>1, <1>2, <1>3
<1>5. UNCHANGED <<consumerVars, erased, acked, scorer, scores, purge, purged, faults>>
  BY DEF Produce
<1>6. TypeOK'
  BY <1>4, <1>5 DEF IInv, TypeOK, consumerVars
<1>7. LogKept
  <2> SUFFICES ASSUME NEW s \in Sessions
               PROVE  Len(log[s]) <= Len(log'[s]) /\ \A k \in 1..Len(log[s]) : log'[s][k] = log[s][k]
    BY DEF LogKept
  <2>1. CASE s = t
    BY <1>3, <1>4, <2>1
  <2>2. CASE s # t
    <3>1. log'[s] = log[s] /\ Len(log[s]) \in Nat
      BY <1>1, <1>4, <2>2
    <3> QED
      BY <3>1
  <2> QED
    BY <2>1, <2>2
<1>8. StoresKept
  BY <1>5, StoresSame DEF consumerVars
<1>9. LogKeyed'
  <2> SUFFICES ASSUME NEW s \in Sessions, NEW k \in 1..Len(log'[s])
               PROVE  SessionOf[log'[s][k]] = s
    BY DEF LogKeyed
  <2>1. CASE s # t
    <3>1. log'[s] = log[s]
      BY <1>4, <2>1
    <3> QED
      BY <3>1 DEF IInv, LogKeyed
  <2>2. CASE s = t /\ k = Len(log[t]) + 1
    BY <1>3, <1>4, <2>2
  <2>3. CASE s = t /\ k # Len(log[t]) + 1
    <3>1. k \in 1..Len(log[t])
      BY <1>3, <1>4, <2>3
    <3>2. log'[t][k] = log[t][k]
      BY <1>3, <1>4, <3>1
    <3> QED
      BY <1>1, <2>3, <3>1, <3>2 DEF IInv, LogKeyed
  <2> QED
    BY <2>1, <2>2, <2>3
<1>10. BatchHeld' /\ ScoreInv' /\ CompleteIsWhole'
  BY <1>5, <1>6, <1>7, <1>8, BatchKept, ScorersKept, ScoresKept DEF consumerVars
<1> QED
  BY <1>6, <1>9, <1>10 DEF IInv

(* A step that leaves the log as it is. *)
LEMMA LogKeyedKept == ASSUME IInv, UNCHANGED log PROVE LogKeyed'
  BY DEF IInv, LogKeyed

(* An event is fetched into a batch. *)
LEMMA FetchInv == ASSUME IInv, NEW c \in Consumers, NEW s \in Sessions, Fetch(c, s) PROVE IInv'
<1>1. UNCHANGED <<log, offset, phase, rows, erased, acked, scorer, scores, purge, purged, faults>>
  BY DEF Fetch
<1>2. /\ read[c][s] \in Nat /\ read[c] \in [Sessions -> Nat] /\ offset[c][s] \in Nat
      /\ Len(log[s]) \in Nat
  BY DEF IInv, TypeOK
<1>3. read' = [read EXCEPT ![c] = [read[c] EXCEPT ![s] = read[c][s] + 1]]
  BY DEF Fetch, IInv, TypeOK
<1>4. /\ read' \in [Consumers -> [Sessions -> Nat]]
      /\ \A d \in Consumers, r \in Sessions :
            read'[d][r] = IF d = c /\ r = s THEN read[c][s] + 1 ELSE read[d][r]
  BY <1>2, <1>3, SMTT(30) DEF IInv, TypeOK
<1>5. TypeOK'
  BY <1>1, <1>4 DEF IInv, TypeOK
<1>6. BatchHeld'
  <2> SUFFICES ASSUME NEW d \in Consumers, NEW r \in Sessions
               PROVE  /\ offset[d][r] <= read'[d][r] /\ read'[d][r] <= Len(log[r])
                      /\ \A k \in 1..offset[d][r] : Held(d, r, k)'
                      /\ phase[d] = "commit" => \A k \in 1..read'[d][r] : Held(d, r, k)'
    BY <1>1 DEF BatchHeld
  <2>1. \A k : Held(d, r, k)' <=> Held(d, r, k)
    BY <1>1 DEF Held, Stored, Takes
  <2>2. /\ offset[d][r] <= read[d][r] /\ read[d][r] <= Len(log[r])
        /\ \A k \in 1..offset[d][r] : Held(d, r, k)
        /\ phase[d] = "commit" => \A k \in 1..read[d][r] : Held(d, r, k)
    BY DEF IInv, BatchHeld
  <2>3. CASE d = c /\ r = s
    <3>1. read'[d][r] = read[c][s] + 1 /\ phase[d] # "commit" /\ read[c][s] < Len(log[s])
      BY <1>4, <2>3 DEF Fetch
    <3> QED
      BY <1>2, <2>1, <2>2, <2>3, <3>1
  <2>4. CASE ~(d = c /\ r = s)
    <3>1. read'[d][r] = read[d][r]
      BY <1>4, <2>4
    <3> QED
      BY <2>1, <2>2, <3>1
  <2> QED
    BY <2>3, <2>4
<1>7. LogKept /\ StoresKept /\ LogKeyed'
  BY <1>1, LogSame, StoresSame, LogKeyedKept DEF IInv
<1>8. ScoreInv' /\ CompleteIsWhole'
  BY <1>1, <1>5, <1>7, ScorersKept, ScoresKept
<1> QED
  BY <1>5, <1>6, <1>7, <1>8 DEF IInv

(* The places in the writer's batch where an event is. *)
Places(n) == {p \in Batch("writer") : log[p[1]][p[2]] = n}

(* There are finitely many: they are in the log of the event's session. *)
LEMMA PlacesFinite ==
    ASSUME IInv, NEW n \in Numbers
    PROVE  IsFiniteSet(Places(n)) /\ Cardinality(Places(n)) \in Nat
<1> DEFINE t == SessionOf[n]
           P == {t} \X (1..read["writer"][t])
<1>1. t \in Sessions
  BY SessionOfAssumption
<1>2. read["writer"][t] \in Nat
  BY <1>1, WriterIsThere DEF IInv, TypeOK
<1>3. IsFiniteSet({t}) /\ IsFiniteSet(1..read["writer"][t])
  <2>1. IsFiniteSet({t})
    BY FS_Singleton, Zenon
  <2>2. 1 \in Int /\ read["writer"][t] \in Int
    BY <1>2
  <2>3. IsFiniteSet(1..read["writer"][t])
    BY <2>2, FS_Interval
  <2> QED
    BY <2>1, <2>3
<1>4. IsFiniteSet(P)
  BY <1>3, FS_Product
<1>5. Places(n) \subseteq P
  <2> SUFFICES ASSUME NEW p \in Places(n) PROVE p \in P
    OBVIOUS
  <2>0. PICK s \in Sessions : \E k \in (offset["writer"][s] + 1)..read["writer"][s] : p = <<s, k>>
    BY DEF Places, Batch
  <2>1. PICK k \in (offset["writer"][s] + 1)..read["writer"][s] : p = <<s, k>>
    BY <2>0
  <2>2. /\ offset["writer"][s] \in Nat /\ read["writer"][s] \in Nat /\ Len(log[s]) \in Nat
        /\ read["writer"][s] <= Len(log[s])
    BY WriterIsThere DEF IInv, TypeOK, BatchHeld
  <2>3. k \in 1..Len(log[s]) /\ k \in 1..read["writer"][s]
    BY <2>2
  <2>4. log[s][k] = n
    BY <2>1 DEF Places
  <2>5. s = t
    BY <2>3, <2>4 DEF IInv, LogKeyed
  <2> QED
    BY <2>1, <2>3, <2>5
<1> QED
  BY <1>4, <1>5, FS_Subset, FS_CardinalityType

(* An event of the writer's batch is there at least once. *)
LEMMA PlacesOfBatch ==
    ASSUME IInv, NEW n \in BatchEvents("writer")
    PROVE  Cardinality(Places(n)) > 0
<1>1. PICK p \in Batch("writer") : n = log[p[1]][p[2]]
  BY DEF BatchEvents
<1>2. Places(n) # {}
  BY <1>1 DEF Places
<1>3. n \in Numbers
  BY DEF BatchEvents, Takes
<1>4. IsFiniteSet(Places(n)) /\ Cardinality(Places(n)) \in Nat
  BY <1>3, PlacesFinite
<1>5. Cardinality(Places(n)) # 0
  BY <1>2, <1>4, FS_EmptySet
<1> QED
  BY <1>4, <1>5

(* A write puts the events into the consumer's store and takes none out.   *)
LEMMA WriteStores ==
    ASSUME IInv, NEW c \in Consumers, NEW S \in SUBSET BatchEvents(c), Write(c, S)
    PROVE  /\ rows' \in [Consumers -> [Numbers -> 0..MaxRows]]
           /\ Stored(c)' = Stored(c) \cup S
           /\ \A d \in Consumers \ {c} : Stored(d)' = Stored(d)
<1> DEFINE new == IF c = "indexer" THEN Upsert(S) ELSE InsertRows(S)
<1>1. /\ rows \in [Consumers -> [Numbers -> 0..MaxRows]] /\ MaxRows \in Nat \ {0}
      /\ rows[c] \in [Numbers -> 0..MaxRows] /\ S \subseteq Numbers
      /\ Searchable \subseteq Numbers
  BY BoundsAssumption, SearchableAssumption DEF IInv, TypeOK, BatchEvents, Takes
<1>2. rows' = [rows EXCEPT ![c] = new]
  BY DEF Write
<1>3. /\ new \in [Numbers -> 0..MaxRows]
      /\ \A n \in Numbers : new[n] > 0 <=> n \in S \/ rows[c][n] > 0
  <2>1. CASE c = "indexer"
    <3>1. new = [n \in Numbers |-> IF n \in S THEN 1 ELSE rows[c][n]]
      BY <2>1 DEF Upsert
    <3> QED
      BY <1>1, <3>1
  <2>2. CASE c = "writer"
    <3>1. new = [n \in Numbers |-> IF n \in S THEN Capped(rows[c][n] + Cardinality(Places(n)), MaxRows)
                                   ELSE rows[c][n]]
      BY <2>2 DEF InsertRows, Places
    <3>2. ASSUME NEW n \in S
          PROVE  LET k == Capped(rows[c][n] + Cardinality(Places(n)), MaxRows)
                 IN  k \in 0..MaxRows /\ k > 0
      <4>1. n \in Numbers /\ rows[c][n] \in Nat
        BY <1>1
      <4>2. Cardinality(Places(n)) \in Nat
        BY <4>1, PlacesFinite
      <4>3. Cardinality(Places(n)) > 0
        BY <2>2, PlacesOfBatch
      <4> QED
        BY <1>1, <4>1, <4>2, <4>3 DEF Capped
    <3>3. \A n \in Numbers : new[n] \in 0..MaxRows
      BY <1>1, <3>1, <3>2
    <3>4. new \in [Numbers -> 0..MaxRows]
      BY <3>1, <3>3
    <3>5. \A n \in Numbers : new[n] > 0 <=> n \in S \/ rows[c][n] > 0
      BY <1>1, <3>1, <3>2
    <3> QED
      BY <3>4, <3>5
  <2> QED
    BY <2>1, <2>2, WriterIsThere
<1> HIDE DEF new
<1>4. rows' \in [Consumers -> [Numbers -> 0..MaxRows]]
  BY <1>1, <1>2, <1>3
<1>5. rows'[c] = new /\ \A d \in Consumers \ {c} : rows'[d] = rows[d]
  BY <1>1, <1>2
<1>6. Stored(c)' = Stored(c) \cup S
  BY <1>1, <1>3, <1>5 DEF Stored
<1>7. \A d \in Consumers \ {c} : Stored(d)' = Stored(d)
  BY <1>5 DEF Stored
<1> QED
  BY <1>4, <1>6, <1>7

(* A place of a consumer's batch holds an event of the batch, if its store *)
(* takes it.                                                               *)
LEMMA InBatch ==
    ASSUME NEW c \in Consumers, NEW s \in Sessions,
           NEW k \in (offset[c][s] + 1)..read[c][s], log[s][k] \in Takes(c)
    PROVE  log[s][k] \in BatchEvents(c)
<1>1. <<s, k>> \in Batch(c)
  BY DEF Batch
<1>2. log[s][k] = log[<<s, k>>[1]][<<s, k>>[2]]
  OBVIOUS
<1> QED
  BY <1>1, <1>2 DEF BatchEvents

(* A batch is written. *)
LEMMA FlushInv == ASSUME IInv, NEW c \in Consumers, Flush(c) PROVE IInv'
<1>1. PICK refused \in Refusals(c) :
         /\ refused # {} => faults < MaxFaults
         /\ faults' = IF refused = {} THEN faults ELSE faults + 1
         /\ Write(c, BatchEvents(c) \ refused)
         /\ erased' = [erased EXCEPT ![c] = @ \cup refused]
  BY DEF Flush
<1>2. /\ UNCHANGED <<log, offset, read, acked, scorer, scores, purge, purged>>
      /\ phase' = [phase EXCEPT ![c] = "commit"]
  BY DEF Flush
<1>3. refused \subseteq BatchEvents(c) /\ refused \subseteq Numbers
  BY SearchableAssumption DEF Refusals, BatchEvents, Takes
<1>4. /\ rows' \in [Consumers -> [Numbers -> 0..MaxRows]]
      /\ Stored(c)' = Stored(c) \cup (BatchEvents(c) \ refused)
      /\ \A d \in Consumers \ {c} : Stored(d)' = Stored(d)
  BY <1>1, WriteStores
<1>5. faults' \in 0..MaxFaults
  BY <1>1, BoundsAssumption DEF IInv, TypeOK
<1>6. /\ erased' \in [Consumers -> SUBSET Numbers] /\ erased'[c] = erased[c] \cup refused
      /\ \A d \in Consumers \ {c} : erased'[d] = erased[d]
  BY <1>1, <1>3 DEF IInv, TypeOK
<1>7. TypeOK'
  BY <1>2, <1>4, <1>5, <1>6 DEF IInv, TypeOK
<1>8. StoresKept
  BY <1>4, <1>6 DEF StoresKept
<1>9. LogKept /\ LogKeyed'
  BY <1>2, LogSame, LogKeyedKept DEF IInv
<1>10. BatchHeld'
  <2> SUFFICES ASSUME NEW d \in Consumers, NEW s \in Sessions
               PROVE  /\ offset[d][s] <= read[d][s] /\ read[d][s] <= Len(log[s])
                      /\ \A k \in 1..offset[d][s] : Held(d, s, k)'
                      /\ phase'[d] = "commit" => \A k \in 1..read[d][s] : Held(d, s, k)'
    BY <1>2 DEF BatchHeld
  <2>1. /\ offset[d][s] <= read[d][s] /\ read[d][s] <= Len(log[s])
        /\ \A k \in 1..offset[d][s] : Held(d, s, k)
        /\ phase[d] = "commit" => \A k \in 1..read[d][s] : Held(d, s, k)
    BY DEF IInv, BatchHeld
  <2>2. \A k : Held(d, s, k) => Held(d, s, k)'
    BY <1>2, <1>8 DEF Held, StoresKept, Takes
  <2>3. CASE d # c
    <3>1. phase'[d] = phase[d]
      BY <1>2, <2>3 DEF IInv, TypeOK
    <3> QED
      BY <2>1, <2>2, <3>1
  <2>4. CASE d = c
    <3>1. ASSUME NEW k \in 1..read[c][s] PROVE Held(c, s, k)'
      <4>1. offset[c][s] \in Nat /\ read[c][s] \in Nat
        BY DEF IInv, TypeOK
      <4>2. CASE k \in 1..offset[c][s]
        BY <2>1, <2>2, <2>4, <4>2
      <4>3. CASE k \in (offset[c][s] + 1)..read[c][s]
        <5>1. log[s][k] \in Takes(c) => log[s][k] \in BatchEvents(c)
          BY <4>3, InBatch
        <5> QED
          BY <1>2, <1>4, <1>6, <5>1 DEF Held, Takes
      <4> QED
        BY <4>1, <4>2, <4>3
    <3> QED
      BY <2>1, <2>2, <2>4, <3>1
  <2> QED
    BY <2>3, <2>4
<1>11. ScoreInv' /\ CompleteIsWhole'
  BY <1>2, <1>7, <1>8, <1>9, ScorersKept, ScoresKept
<1> QED
  BY <1>7, <1>9, <1>10, <1>11 DEF IInv

(* A batch that is written is committed. *)
LEMMA CommitOffsetsInv == ASSUME IInv, NEW c \in Consumers, CommitOffsets(c) PROVE IInv'
<1>1. /\ UNCHANGED <<log, read, rows, erased, acked, scorer, scores, purge, purged, faults>>
      /\ phase[c] = "commit" /\ phase' = [phase EXCEPT ![c] = "fill"]
      /\ offset' = [offset EXCEPT ![c] = read[c]]
  BY DEF CommitOffsets
<1>2. /\ offset' \in [Consumers -> [Sessions -> Nat]] /\ offset'[c] = read[c]
      /\ \A d \in Consumers \ {c} : offset'[d] = offset[d] /\ phase'[d] = phase[d]
      /\ phase'[c] = "fill"
  BY <1>1 DEF IInv, TypeOK
<1>3. TypeOK'
  BY <1>1, <1>2 DEF IInv, TypeOK
<1>4. LogKept /\ StoresKept /\ LogKeyed'
  BY <1>1, LogSame, StoresSame, LogKeyedKept DEF IInv
<1>5. BatchHeld'
  <2> SUFFICES ASSUME NEW d \in Consumers, NEW s \in Sessions
               PROVE  /\ offset'[d][s] <= read[d][s] /\ read[d][s] <= Len(log[s])
                      /\ \A k \in 1..offset'[d][s] : Held(d, s, k)'
                      /\ phase'[d] = "commit" => \A k \in 1..read[d][s] : Held(d, s, k)'
    BY <1>1 DEF BatchHeld
  <2>1. /\ offset[d][s] <= read[d][s] /\ read[d][s] <= Len(log[s])
        /\ \A k \in 1..offset[d][s] : Held(d, s, k)
        /\ phase[d] = "commit" => \A k \in 1..read[d][s] : Held(d, s, k)
    BY DEF IInv, BatchHeld
  <2>2. \A k : Held(d, s, k) => Held(d, s, k)'
    BY <1>1, <1>4 DEF Held, StoresKept, Takes
  <2>3. read[d][s] \in Nat
    BY DEF IInv, TypeOK
  <2>4. CASE d = c
    BY <1>1, <1>2, <2>1, <2>2, <2>3, <2>4
  <2>5. CASE d # c
    BY <1>2, <2>1, <2>2, <2>5
  <2> QED
    BY <2>4, <2>5
<1>6. ScoreInv' /\ CompleteIsWhole'
  BY <1>1, <1>3, <1>4, ScorersKept, ScoresKept
<1> QED
  BY <1>3, <1>4, <1>5, <1>6 DEF IInv

(* A consumer is started again, whatever its last write did. *)
LEMMA ConsumerFailsInv == ASSUME IInv, NEW c \in Consumers, ConsumerFails(c) PROVE IInv'
<1>1. /\ UNCHANGED <<log, erased, acked, scorer, scores, purge, purged>>
      /\ faults < MaxFaults /\ faults' = faults + 1
      /\ offset' = [offset EXCEPT ![c] = offset[c]]
      /\ read' = [read EXCEPT ![c] = offset[c]]
      /\ phase' = [phase EXCEPT ![c] = "fill"]
  BY DEF ConsumerFails, Resume
<1>2. PICK S \in SUBSET BatchEvents(c) : Write(c, S)
  BY DEF ConsumerFails, PartlyWritten
<1>3. /\ rows' \in [Consumers -> [Numbers -> 0..MaxRows]]
      /\ Stored(c)' = Stored(c) \cup S
      /\ \A d \in Consumers \ {c} : Stored(d)' = Stored(d)
  BY <1>2, WriteStores
<1>4. /\ offset' = offset
      /\ read' \in [Consumers -> [Sessions -> Nat]] /\ read'[c] = offset[c]
      /\ phase' \in [Consumers -> {"fill", "commit"}] /\ phase'[c] = "fill"
      /\ \A d \in Consumers \ {c} : read'[d] = read[d] /\ phase'[d] = phase[d]
  BY <1>1 DEF IInv, TypeOK
<1>5. faults' \in 0..MaxFaults
  BY <1>1, BoundsAssumption DEF IInv, TypeOK
<1>6. TypeOK'
  BY <1>1, <1>3, <1>4, <1>5 DEF IInv, TypeOK
<1>7. StoresKept
  BY <1>1, <1>3 DEF StoresKept
<1>8. LogKept /\ LogKeyed'
  BY <1>1, LogSame, LogKeyedKept DEF IInv
<1>9. BatchHeld'
  <2> SUFFICES ASSUME NEW d \in Consumers, NEW s \in Sessions
               PROVE  /\ offset[d][s] <= read'[d][s] /\ read'[d][s] <= Len(log[s])
                      /\ \A k \in 1..offset[d][s] : Held(d, s, k)'
                      /\ phase'[d] = "commit" => \A k \in 1..read'[d][s] : Held(d, s, k)'
    BY <1>1, <1>4 DEF BatchHeld
  <2>1. /\ offset[d][s] <= read[d][s] /\ read[d][s] <= Len(log[s])
        /\ \A k \in 1..offset[d][s] : Held(d, s, k)
        /\ phase[d] = "commit" => \A k \in 1..read[d][s] : Held(d, s, k)
    BY DEF IInv, BatchHeld
  <2>2. \A k : Held(d, s, k) => Held(d, s, k)'
    BY <1>1, <1>7 DEF Held, StoresKept, Takes
  <2>3. offset[d][s] \in Nat /\ read[d][s] \in Nat /\ Len(log[s]) \in Nat
    BY DEF IInv, TypeOK
  <2>4. CASE d = c
    BY <1>4, <2>1, <2>2, <2>3, <2>4, SMTT(30)
  <2>5. CASE d # c
    BY <1>4, <2>1, <2>2, <2>5
  <2> QED
    BY <2>4, <2>5
<1>10. ScoreInv' /\ CompleteIsWhole'
  BY <1>1, <1>6, <1>7, <1>8, ScorersKept, ScoresKept
<1> QED
  BY <1>6, <1>8, <1>9, <1>10 DEF IInv

(* ClickHouse drops copies of a row, never the last. *)
LEMMA MergeInv == ASSUME IInv, NEW n \in Numbers, Merge(n) PROVE IInv'
<1>1. /\ UNCHANGED <<log, offset, read, phase, erased, acked, scorer, scores, purge, purged, faults>>
      /\ rows["writer"][n] > 1
  BY DEF Merge
<1>2. rows' = [rows EXCEPT !["writer"] = [rows["writer"] EXCEPT ![n] = 1]]
  BY WriterIsThere DEF Merge, IInv, TypeOK
<1>3. /\ rows' \in [Consumers -> [Numbers -> 0..MaxRows]]
      /\ \A c \in Consumers, m \in Numbers :
            rows'[c][m] = IF c = "writer" /\ m = n THEN 1 ELSE rows[c][m]
  BY <1>2, WriterIsThere, BoundsAssumption DEF IInv, TypeOK
<1>4. TypeOK'
  BY <1>1, <1>3 DEF IInv, TypeOK
<1>5. \A c \in Consumers : Stored(c)' = Stored(c)
  <2>1. \A c \in Consumers, m \in Numbers : rows[c][m] \in Int
    BY DEF IInv, TypeOK
  <2>2. \A c \in Consumers, m \in Numbers : rows'[c][m] > 0 <=> rows[c][m] > 0
    BY <1>1, <1>3, <2>1
  <2> QED
    BY <2>2 DEF Stored
<1>6. StoresKept
  BY <1>1, <1>5 DEF StoresKept
<1>7. LogKept /\ LogKeyed'
  BY <1>1, LogSame, LogKeyedKept DEF IInv
<1>8. BatchHeld' /\ ScoreInv' /\ CompleteIsWhole'
  BY <1>1, <1>4, <1>6, <1>7, BatchKept, ScorersKept, ScoresKept
<1> QED
  BY <1>4, <1>7, <1>8 DEF IInv

-----------------------------------------------------------------------------
(* The Housekeeper.                                                        *)

(* What a delete takes out of a store is known to be erased. *)
LEMMA DeleteKept ==
    ASSUME IInv, NEW c, Delete(c)
    PROVE  /\ rows' \in [Consumers -> [Numbers -> 0..MaxRows]]
           /\ erased' \in [Consumers -> SUBSET Numbers]
           /\ StoresKept
<1>1. rows' \in [Consumers -> [Numbers -> 0..MaxRows]]
  BY BoundsAssumption DEF IInv, TypeOK, Delete
<1>2. erased' \in [Consumers -> SUBSET Numbers]
  BY DEF IInv, TypeOK, Delete, Stored
<1>3. ASSUME NEW d \in Consumers
      PROVE  /\ Stored(d) \cup erased[d] \subseteq Stored(d)' \cup erased'[d]
             /\ erased[d] \subseteq erased'[d]
  <2>1. CASE d = c
    BY <2>1 DEF Delete
  <2>2. CASE d # c
    BY <2>2 DEF Delete, Stored
  <2> QED
    BY <2>1, <2>2
<1> QED
  BY <1>1, <1>2, <1>3 DEF StoresKept

(* A step of the Housekeeper that keeps the scores. *)
LEMMA PurgeFrame ==
    ASSUME IInv, UNCHANGED <<log, offset, read, phase, acked, scorer>>,
           purge' \in {"idle", "search", "events", "commit"}, purged' \in BOOLEAN,
           faults' \in 0..MaxFaults,
           rows' \in [Consumers -> [Numbers -> 0..MaxRows]],
           erased' \in [Consumers -> SUBSET Numbers],
           scores' \in [Sessions -> ScoreRecord], StoresKept, CompleteIsWhole'
    PROVE  IInv'
<1>1. TypeOK'
  BY DEF IInv, TypeOK, ScoreRecord
<1>2. LogKept /\ LogKeyed'
  BY LogSame, LogKeyedKept DEF IInv
<1>3. BatchHeld' /\ ScoreInv'
  BY <1>1, <1>2, BatchKept, ScorersKept
<1> QED
  BY <1>1, <1>2, <1>3 DEF IInv

(* A purge begins, deletes, commits. *)
LEMMA PurgeInv == ASSUME IInv, Purge PROVE IInv'
<1>0. /\ scores \in [Sessions -> ScoreRecord] /\ faults \in 0..MaxFaults /\ purged \in BOOLEAN
      /\ rows \in [Consumers -> [Numbers -> 0..MaxRows]] /\ erased \in [Consumers -> SUBSET Numbers]
  BY DEF IInv, TypeOK, ScoreRecord
<1>1. CASE PurgeLock
  <2>1. UNCHANGED <<log, offset, read, phase, acked, scorer, faults, rows, erased, scores, purged>> /\ purge' = "search"
    BY <1>1 DEF PurgeLock, PurgeStep
  <2>2. StoresKept /\ CompleteIsWhole'
    BY <2>1, StoresSame, ScoresKept
  <2> QED
    BY <1>0, <2>1, <2>2, PurgeFrame
<1>2. CASE DeleteSearch
  <2>1. UNCHANGED <<log, offset, read, phase, acked, scorer, faults, scores, purged>> /\ purge' = "events"
    BY <1>2 DEF DeleteSearch, PurgeStep, Delete
  <2>2. /\ rows' \in [Consumers -> [Numbers -> 0..MaxRows]]
        /\ erased' \in [Consumers -> SUBSET Numbers] /\ StoresKept
    BY <1>2, DeleteKept DEF DeleteSearch
  <2>3. CompleteIsWhole'
    BY <2>1, <2>2, ScoresKept
  <2> QED
    BY <1>0, <2>1, <2>2, <2>3, PurgeFrame
<1>3. CASE DeleteEvents
  <2>1. UNCHANGED <<log, offset, read, phase, acked, scorer, faults, scores, purged>> /\ purge' = "commit"
    BY <1>3 DEF DeleteEvents, PurgeStep, Delete
  <2>2. /\ rows' \in [Consumers -> [Numbers -> 0..MaxRows]]
        /\ erased' \in [Consumers -> SUBSET Numbers] /\ StoresKept
    BY <1>3, DeleteKept DEF DeleteEvents
  <2>3. CompleteIsWhole'
    BY <2>1, <2>2, ScoresKept
  <2> QED
    BY <1>0, <2>1, <2>2, <2>3, PurgeFrame
<1>4. CASE PurgeCommit
  <2>1. /\ UNCHANGED <<log, offset, read, phase, acked, scorer, faults, rows, erased>>
        /\ purge' = "idle" /\ purged' = TRUE /\ scores' = [s \in Sessions |-> NoScore]
    BY <1>4 DEF PurgeCommit, PurgeStep
  <2>2. scores' \in [Sessions -> ScoreRecord] /\ CompleteIsWhole'
    BY <2>1 DEF ScoreRecord, NoScore, CompleteIsWhole
  <2>3. StoresKept
    BY <2>1, StoresSame
  <2> QED
    BY <1>0, <2>1, <2>2, <2>3, PurgeFrame
<1> QED
  BY <1>1, <1>2, <1>3, <1>4 DEF Purge

(* A purge fails. *)
LEMMA PurgeFailsInv == ASSUME IInv, PurgeFails PROVE IInv'
<1>1. UNCHANGED <<log, consumerVars, erased, acked, scorer, scores, purged>> /\ purge' = "idle"
  BY DEF PurgeFails
<1>2. /\ scores' \in [Sessions -> ScoreRecord] /\ faults' \in 0..MaxFaults /\ purged' \in BOOLEAN
      /\ rows' \in [Consumers -> [Numbers -> 0..MaxRows]] /\ erased' \in [Consumers -> SUBSET Numbers]
  BY <1>1, BoundsAssumption DEF IInv, TypeOK, ScoreRecord, PurgeFails, consumerVars
<1>3. StoresKept /\ CompleteIsWhole'
  BY <1>1, StoresSame, ScoresKept DEF consumerVars
<1> QED
  BY <1>1, <1>2, <1>3, PurgeFrame DEF consumerVars

-----------------------------------------------------------------------------
(* Scoring.                                                                *)

(* CaughtUp counts distinct events: it holds only of a log without gaps.   *)
LEMMA CaughtUpIsWhole ==
    ASSUME NEW upTo \in Numbers, CaughtUp(upTo)
    PROVE  1..upTo \subseteq Stored("writer")
<1> DEFINE T == {n \in Stored("writer") : n <= upTo}
<1>1. upTo \in Nat /\ upTo >= 1
  BY SessionOfAssumption DEF Numbers
<1>2. T \in SUBSET (1..upTo)
  BY <1>1, SessionOfAssumption DEF Stored, Numbers
<1>3. IsFiniteSet(1..upTo) /\ Cardinality(1..upTo) = upTo
  <2>1. 1 \in Int /\ upTo \in Int
    BY <1>1
  <2>2. IsFiniteSet(1..upTo) /\ Cardinality(1..upTo) = IF 1 > upTo THEN 0 ELSE upTo - 1 + 1
    BY <2>1, FS_Interval
  <2> QED
    BY <1>1, <2>2
<1>4. /\ IsFiniteSet(T) /\ Cardinality(T) <= Cardinality(1..upTo)
      /\ Cardinality(1..upTo) = Cardinality(T) => 1..upTo = T
  BY <1>2, <1>3, FS_Subset
<1>5. Cardinality(T) \in Nat
  BY <1>4, FS_CardinalityType
<1>6. Cardinality(T) >= upTo
  BY DEF CaughtUp
<1>7. 1..upTo = T
  BY <1>1, <1>3, <1>4, <1>5, <1>6
<1> QED
  BY <1>7

(* What ScoreInv says of one session. *)
Scoring(s) ==
    /\ acked[s] <= Len(log[s])
    /\ ~AtStep(s, "fetch") => acked[s] < Len(log[s])
    /\ scorer[s].pc \in {"exists", "progress", "timeline", "save"} => Trigger(s) \in Triggers
    /\ AtStep(s, "timeline") /\ scorer[s].complete =>
          1..Trigger(s) \subseteq Stored("writer") \cup erased["writer"]
    /\ AtStep(s, "save") /\ scorer[s].complete =>
          \A n \in 1..Trigger(s) : SessionOf[n] = s => n \in scorer[s].timeline \cup erased["writer"]

LEMMA ScoringIsInv == ScoreInv <=> \A s \in Sessions : Scoring(s)
  BY DEF ScoreInv, Scoring

(* A step of one session's scorer. *)
LEMMA ScorerFrame ==
    ASSUME IInv, NEW s \in Sessions, NEW r \in ScorerRecord, Set(s, r),
           acked' \in [Sessions -> Nat], \A x \in Sessions \ {s} : acked'[x] = acked[x],
           faults' \in 0..MaxFaults, scores' \in [Sessions -> ScoreRecord],
           CompleteIsWhole', Scoring(s)'
    PROVE  IInv'
<1>1. UNCHANGED <<log, consumerVars, erased, purge, purged>> /\ scorer' = [scorer EXCEPT ![s] = r]
  BY DEF Set
<1>2. /\ scorer' \in [Sessions -> ScorerRecord]
      /\ \A x \in Sessions \ {s} : scorer'[x] = scorer[x]
  BY <1>1 DEF IInv, TypeOK, ScorerRecord
<1>3. TypeOK'
  BY <1>1, <1>2 DEF IInv, TypeOK, ScorerRecord, ScoreRecord, consumerVars
<1>4. LogKept /\ StoresKept /\ LogKeyed'
  BY <1>1, LogSame, StoresSame, LogKeyedKept DEF IInv, consumerVars
<1>5. BatchHeld'
  BY <1>1, <1>3, <1>4, BatchKept DEF consumerVars
<1>6. ASSUME NEW x \in Sessions PROVE Scoring(x)'
  <2>1. CASE x = s
    BY <2>1
  <2>2. CASE x # s
    BY <1>2, <1>3, <1>4, <2>2, ScoringKept DEF Scoring
  <2> QED
    BY <2>1, <2>2
<1>7. ScoreInv'
  BY <1>6 DEF ScoreInv, Scoring
<1> QED
  BY <1>3, <1>4, <1>5, <1>7 DEF IInv

(* The facts the steps of a scorer start from. *)
LEMMA ScorerFacts ==
    ASSUME IInv, NEW s \in Sessions
    PROVE  /\ Scoring(s) /\ scorer[s] \in ScorerRecord /\ acked \in [Sessions -> Nat]
           /\ scores \in [Sessions -> ScoreRecord] /\ faults \in 0..MaxFaults
           /\ acked[s] \in Nat /\ Len(log[s]) \in Nat
           /\ \A x : Set(s, x) => /\ UNCHANGED log /\ scorer'[s] = x /\ erased' = erased
                                  /\ Stored("writer")' = Stored("writer") /\ purge' = purge
<1>1. Scoring(s)
  BY ScoringIsInv DEF IInv
<1>2. \A x : Set(s, x) => /\ UNCHANGED log /\ scorer'[s] = x /\ erased' = erased
                         /\ Stored("writer")' = Stored("writer") /\ purge' = purge
  BY DEF Set, IInv, TypeOK, Stored, consumerVars
<1> QED
  BY <1>1, <1>2 DEF IInv, TypeOK, ScorerRecord, ScoreRecord

(* Scores that a scorer's step leaves alone. *)
LEMMA SetKeepsScores ==
    ASSUME IInv, NEW s \in Sessions, NEW r, Set(s, r), UNCHANGED scores
    PROVE  CompleteIsWhole'
  BY StoresSame, ScoresKept DEF Set, consumerVars

(* A message is fetched. *)
LEMMA FetchTriggerInv == ASSUME IInv, NEW s \in Sessions, FetchTrigger(s) PROVE IInv'
<1>1. PICK r \in {[Idle EXCEPT !.pc = "exists", !.attempt = 1], [Idle EXCEPT !.pc = "ack"]} :
         /\ Set(s, r)
         /\ r.pc = "exists" => Trigger(s) \in Triggers
  BY DEF FetchTrigger, Idle
<1>2. r \in ScorerRecord /\ r.pc \in {"exists", "ack"}
  <2>1. 0 \in 0..MaxAttempts /\ 1 \in 0..MaxAttempts
    BY LimitsAssumption
  <2>2. CASE r = [Idle EXCEPT !.pc = "exists", !.attempt = 1]
    <3>1. r = [pc |-> "exists", attempt |-> 1, complete |-> FALSE, timeline |-> {}]
      BY <2>2 DEF Idle
    <3> QED
      BY <2>1, <3>1 DEF ScorerRecord
  <2>3. CASE r = [Idle EXCEPT !.pc = "ack"]
    <3>1. r = [pc |-> "ack", attempt |-> 0, complete |-> FALSE, timeline |-> {}]
      BY <2>3 DEF Idle
    <3> QED
      BY <2>1, <3>1 DEF ScorerRecord
  <2> QED
    BY <2>2, <2>3
<1>3. UNCHANGED <<acked, scores, faults>> /\ acked[s] < Len(log[s])
  BY DEF FetchTrigger
<1>4. Scoring(s)'
  BY <1>1, <1>2, <1>3, ScorerFacts DEF Scoring, AtStep, Trigger
<1> QED
  BY <1>1, <1>2, <1>3, <1>4, ScorerFacts, SetKeepsScores, ScorerFrame

(* A scorer that moves on keeps its type. *)
LEMMA GoTyped ==
    ASSUME NEW r \in ScorerRecord, NEW pc \in {"exists", "progress", "ack", "timeline", "save"}
    PROVE  /\ [r EXCEPT !.pc = pc] \in ScorerRecord
           /\ [r EXCEPT !.pc = pc].pc = pc
  BY DEF ScorerRecord

(* Is there a score? *)
LEMMA ScoreExistsInv == ASSUME IInv, NEW s \in Sessions, ScoreExists(s) PROVE IInv'
<1>1. PICK pc \in {"ack", "progress"} : Set(s, [scorer[s] EXCEPT !.pc = pc])
  BY DEF ScoreExists, Go
<1>2. /\ [scorer[s] EXCEPT !.pc = pc] \in ScorerRecord
      /\ [scorer[s] EXCEPT !.pc = pc].pc = pc
  <2>1. scorer[s] \in ScorerRecord
    BY ScorerFacts
  <2> QED
    BY <2>1, GoTyped, ZenonT(40)
<1>3. UNCHANGED <<acked, scores, faults>> /\ scorer[s].pc = "exists"
  BY DEF ScoreExists, AtStep
<1>4. scorer'[s].pc = pc
  BY <1>1, <1>2, ScorerFacts
<1>5. Scoring(s)'
  BY <1>1, <1>3, <1>4, ScorerFacts DEF Scoring, AtStep, Trigger
<1> QED
  BY <1>1, <1>2, <1>3, <1>5, ScorerFacts, SetKeepsScores, ScorerFrame

(* Has the event log caught up?  If it has, nothing up to the trigger is   *)
(* missing from it.                                                        *)
LEMMA ReadProgressInv == ASSUME IInv, NEW s \in Sessions, ReadProgress(s) PROVE IInv'
<1>1. UNCHANGED <<acked, scores, faults>> /\ scorer[s].pc = "progress"
  BY DEF ReadProgress, AtStep
<1>2. Trigger(s) \in Triggers /\ Trigger(s) \in Numbers /\ acked[s] < Len(log[s])
  BY <1>1, ScorerFacts, TriggersAssumption DEF Scoring, AtStep
<1>3. CASE Set(s, [scorer[s] EXCEPT !.pc = "timeline", !.complete = CaughtUp(Trigger(s))])
  <2> DEFINE r == [scorer[s] EXCEPT !.pc = "timeline", !.complete = CaughtUp(Trigger(s))]
  <2>1. CaughtUp(Trigger(s)) \in BOOLEAN
    BY DEF CaughtUp
  <2>2. r \in ScorerRecord /\ r.pc = "timeline" /\ r.complete = CaughtUp(Trigger(s))
    BY <2>1, ScorerFacts DEF ScorerRecord
  <2>3. CaughtUp(Trigger(s)) => 1..Trigger(s) \subseteq Stored("writer")
    BY <1>2, CaughtUpIsWhole
  <2> HIDE DEF r
  <2>4. Set(s, r)
    BY <1>3 DEF r
  <2>5. scorer'[s] = r /\ UNCHANGED log /\ erased' = erased /\ Stored("writer")' = Stored("writer")
    BY <2>4, ScorerFacts
  <2>6. Scoring(s)'
    BY <1>1, <1>2, <2>2, <2>3, <2>5, ScorerFacts DEF Scoring, AtStep, Trigger
  <2> QED
    BY <1>1, <2>2, <2>4, <2>6, ScorerFacts, SetKeepsScores, ScorerFrame
<1>4. CASE ~Final(scorer[s].attempt) /\ Behind(s)
  <2> DEFINE r == [scorer[s] EXCEPT !.pc = "exists", !.attempt = @ + 1]
  <2>1. scorer[s].attempt \in 0..MaxAttempts /\ scorer[s].attempt + 1 \in 0..MaxAttempts
    BY <1>4, ScorerFacts, LimitsAssumption DEF Final, ScorerRecord
  <2>2. r \in ScorerRecord /\ r.pc = "exists"
    BY <2>1, ScorerFacts DEF ScorerRecord
  <2> HIDE DEF r
  <2>3. Set(s, r)
    BY <1>4 DEF Behind, r
  <2>4. scorer'[s] = r /\ UNCHANGED log
    BY <2>3, ScorerFacts
  <2>5. Scoring(s)'
    BY <1>1, <1>2, <2>2, <2>4, ScorerFacts DEF Scoring, AtStep, Trigger
  <2> QED
    BY <1>1, <2>2, <2>3, <2>5, ScorerFacts, SetKeepsScores, ScorerFrame
<1> QED
  BY <1>3, <1>4 DEF ReadProgress

(* The timeline is read, by a second query: what it lacks was erased. *)
LEMMA ReadTimelineInv == ASSUME IInv, NEW s \in Sessions, ReadTimeline(s) PROVE IInv'
<1> DEFINE T == {n \in Stored("writer") : SessionOf[n] = s /\ n <= Trigger(s)}
           r == [scorer[s] EXCEPT !.pc = "save", !.timeline = T]
<1>1. UNCHANGED <<acked, scores, faults>> /\ scorer[s].pc = "timeline" /\ Set(s, r)
  BY DEF ReadTimeline, AtStep
<1>2. Trigger(s) \in Triggers /\ Trigger(s) \in Numbers /\ acked[s] < Len(log[s])
  BY <1>1, ScorerFacts, TriggersAssumption DEF Scoring, AtStep
<1>3. T \subseteq Numbers
  BY DEF Stored
<1>4. /\ r \in ScorerRecord /\ r.pc = "save" /\ r.complete = scorer[s].complete
      /\ r.timeline = T
  <2>1. scorer[s] \in ScorerRecord
    BY ScorerFacts
  <2> HIDE DEF T
  <2> QED
    BY <1>3, <2>1 DEF ScorerRecord
<1>5. scorer[s].complete => \A n \in 1..Trigger(s) : SessionOf[n] = s => n \in T \cup erased["writer"]
  <2> SUFFICES ASSUME scorer[s].complete, NEW n \in 1..Trigger(s), SessionOf[n] = s
               PROVE  n \in T \cup erased["writer"]
    OBVIOUS
  <2>1. n \in Stored("writer") \cup erased["writer"]
    BY <1>1, ScorerFacts DEF Scoring, AtStep
  <2>2. n <= Trigger(s)
    BY <1>2, SessionOfAssumption DEF Numbers
  <2> QED
    BY <2>1, <2>2
<1> HIDE DEF r
<1>6. scorer'[s] = r /\ UNCHANGED log /\ erased' = erased /\ Stored("writer")' = Stored("writer")
  BY <1>1, ScorerFacts
<1> HIDE DEF T
<1>7. Scoring(s)'
  BY <1>1, <1>2, <1>4, <1>5, <1>6, ScorerFacts DEF Scoring, AtStep, Trigger
<1> QED
  BY <1>1, <1>4, <1>7, ScorerFacts, SetKeepsScores, ScorerFrame

(* Idle, and Idle about to commit, are scorers. *)
LEMMA IdleTyped ==
    /\ Idle \in ScorerRecord /\ Idle.pc = "fetch"
    /\ [Idle EXCEPT !.pc = "ack"] \in ScorerRecord /\ [Idle EXCEPT !.pc = "ack"].pc = "ack"
<1>1. 0 \in 0..MaxAttempts
  BY LimitsAssumption
<1>2. ASSUME NEW r, r = [Idle EXCEPT !.pc = "ack"] PROVE r \in ScorerRecord /\ r.pc = "ack"
  <2>1. r = [pc |-> "ack", attempt |-> 0, complete |-> FALSE, timeline |-> {}]
    BY <1>2 DEF Idle
  <2> QED
    BY <1>1, <2>1 DEF ScorerRecord
<1>3. Idle \in ScorerRecord /\ Idle.pc = "fetch"
  BY <1>1 DEF Idle, ScorerRecord
<1> QED
  BY <1>2, <1>3

(* The score is saved, unless the interview is gone or has been scored. *)
LEMMA SaveScoreInv == ASSUME IInv, NEW s \in Sessions, SaveScore(s) PROVE IInv'
<1> DEFINE new == [upTo |-> Trigger(s), complete |-> scorer[s].complete, timeline |-> scorer[s].timeline]
<1>1. /\ UNCHANGED <<acked, faults>> /\ scorer[s].pc = "save" /\ Set(s, [Idle EXCEPT !.pc = "ack"])
      /\ scores' = scores \/ scores' = [scores EXCEPT ![s] = new]
  BY DEF SaveScore, AtStep
<1>2. Trigger(s) \in Triggers /\ Trigger(s) \in Numbers /\ acked[s] < Len(log[s])
  BY <1>1, ScorerFacts, TriggersAssumption DEF Scoring, AtStep
<1>3. new \in ScoreRecord
  <2>1. scorer[s] \in ScorerRecord
    BY ScorerFacts
  <2> QED
    BY <1>2, <2>1 DEF ScorerRecord, ScoreRecord
<1>4. /\ scorer'[s] = [Idle EXCEPT !.pc = "ack"] /\ UNCHANGED log /\ erased' = erased
  BY <1>1, ScorerFacts
<1>5. new.complete => \A n \in 1..new.upTo : SessionOf[n] = s => n \in new.timeline \cup erased'["writer"]
  BY <1>1, <1>4, ScorerFacts DEF Scoring, AtStep
<1> HIDE DEF new
<1>6. scores' \in [Sessions -> ScoreRecord]
  BY <1>1, <1>3, ScorerFacts
<1>7. CompleteIsWhole'
  <2>1. CASE scores' = scores
    BY <1>1, <2>1, SetKeepsScores
  <2>2. CASE scores' = [scores EXCEPT ![s] = new]
    <3>1. scores'[s] = new /\ \A x \in Sessions \ {s} : scores'[x] = scores[x]
      BY <2>2, ScorerFacts
    <3>2. ASSUME NEW x \in Sessions, scores'[x].complete, NEW n \in 1..scores'[x].upTo, SessionOf[n] = x
          PROVE  n \in scores'[x].timeline \cup erased'["writer"]
      <4>1. CASE x = s
        BY <1>5, <3>1, <3>2, <4>1
      <4>2. CASE x # s
        BY <1>4, <3>1, <3>2, <4>2 DEF IInv, CompleteIsWhole
      <4> QED
        BY <4>1, <4>2
    <3> QED
      BY <3>2 DEF CompleteIsWhole
  <2> QED
    BY <1>1, <2>1, <2>2
<1>8. scorer'[s].pc = "ack"
  BY <1>4, IdleTyped
<1>9. Scoring(s)'
  BY <1>1, <1>2, <1>4, <1>8, ScorerFacts DEF Scoring, AtStep
<1> QED
  BY <1>1, <1>6, <1>7, <1>9, IdleTyped, ScorerFacts, ScorerFrame

(* The message is committed. *)
LEMMA AcknowledgeInv == ASSUME IInv, NEW s \in Sessions, Acknowledge(s) PROVE IInv'
<1>1. /\ UNCHANGED <<scores, faults>> /\ scorer[s].pc = "ack" /\ Set(s, Idle)
      /\ acked' = [acked EXCEPT ![s] = acked[s] + 1]
  BY DEF Acknowledge, AtStep
<1>2. /\ acked' \in [Sessions -> Nat] /\ acked'[s] = acked[s] + 1
      /\ \A x \in Sessions \ {s} : acked'[x] = acked[x]
  BY <1>1, ScorerFacts
<1>3. scorer'[s].pc = "fetch" /\ UNCHANGED log
  BY <1>1, IdleTyped, ScorerFacts
<1>4. acked'[s] <= Len(log[s])
  BY <1>1, <1>2, ScorerFacts DEF Scoring, AtStep
<1>5. Scoring(s)'
  BY <1>3, <1>4 DEF Scoring, AtStep
<1> QED
  BY <1>1, <1>2, <1>5, IdleTyped, ScorerFacts, SetKeepsScores, ScorerFrame

(* The consumer fails and fetches again. *)
LEMMA ScorerFailsInv == ASSUME IInv, NEW s \in Sessions, ScorerFails(s) PROVE IInv'
<1>1. UNCHANGED <<acked, scores>> /\ Set(s, Idle) /\ faults < MaxFaults /\ faults' = faults + 1
  BY DEF ScorerFails
<1>2. faults' \in 0..MaxFaults
  BY <1>1, ScorerFacts, BoundsAssumption
<1>3. scorer'[s].pc = "fetch" /\ UNCHANGED log
  BY <1>1, IdleTyped, ScorerFacts
<1>4. Scoring(s)'
  BY <1>1, <1>3, ScorerFacts DEF Scoring, AtStep
<1> QED
  BY <1>1, <1>2, <1>4, IdleTyped, ScorerFacts, SetKeepsScores, ScorerFrame

-----------------------------------------------------------------------------
(* The theorems.                                                           *)

(* The invariant holds at first. *)
LEMMA InitInv == Init => IInv
<1> SUFFICES ASSUME Init PROVE IInv
  OBVIOUS
<1>1. scorer \in [Sessions -> ScorerRecord] /\ scores \in [Sessions -> ScoreRecord]
  BY IdleTyped DEF Init, ScoreRecord, NoScore
<1>2. log \in [Sessions -> Seq(Numbers)] /\ \A s \in Sessions : Len(log[s]) = 0
  BY DEF Init, EmptyLog
<1>3. /\ offset \in [Consumers -> [Sessions -> Nat]] /\ read \in [Consumers -> [Sessions -> Nat]]
      /\ phase \in [Consumers -> {"fill", "commit"}] /\ rows \in [Consumers -> [Numbers -> 0..MaxRows]]
      /\ erased \in [Consumers -> SUBSET Numbers] /\ acked \in [Sessions -> Nat]
      /\ purge = "idle" /\ purged = FALSE /\ faults \in 0..MaxFaults
  BY BoundsAssumption DEF Init
<1>4. TypeOK
  BY <1>1, <1>2, <1>3 DEF TypeOK, ScorerRecord, ScoreRecord
<1>5. LogKeyed
  BY <1>2 DEF LogKeyed
<1>6. BatchHeld
  BY <1>2 DEF Init, BatchHeld
<1>7. ScoreInv
  BY <1>2, IdleTyped DEF Init, ScoreInv, AtStep
<1>8. CompleteIsWhole
  BY DEF Init, CompleteIsWhole, NoScore
<1> QED
  BY <1>4, <1>5, <1>6, <1>7, <1>8 DEF IInv

(* Every step keeps it. *)
LEMMA StepInv == IInv /\ [Next]_vars => IInv'
<1> SUFFICES ASSUME IInv, [Next]_vars PROVE IInv'
  OBVIOUS
<1>1. ASSUME NEW c \in Consumers, Consume(c) PROVE IInv'
  BY <1>1, FetchInv, FlushInv, CommitOffsetsInv DEF Consume
<1>2. ASSUME NEW s \in Sessions, Score(s) PROVE IInv'
  BY <1>2, FetchTriggerInv, ScoreExistsInv, ReadProgressInv, ReadTimelineInv, SaveScoreInv, AcknowledgeInv
     DEF Score
<1>3. CASE UNCHANGED vars
  BY <1>3 DEF IInv, TypeOK, LogKeyed, BatchHeld, ScoreInv, CompleteIsWhole, Held, Stored, AtStep, Trigger,
              Takes, vars
<1> QED
  BY <1>1, <1>2, <1>3, ProduceInv, MergeInv, ConsumerFailsInv, ScorerFailsInv, PurgeInv, PurgeFailsInv DEF Next

(* The three facts below rest on this invariant of every reachable state. *)
THEOREM PipelineInvariant == Spec => []IInv
  BY InitInv, StepInv, PTL DEF Spec

(* Every variable of the pipeline keeps its type: attempts never exceed    *)
(* MaxAttempts, and a score is always for a session-ending event.          *)
THEOREM TypeCorrect == Spec => []TypeOK
<1>1. IInv => TypeOK
  BY DEF IInv
<1> QED
  BY <1>1, PipelineInvariant, PTL

(* No batch that fails, before or after the store took it, loses an event: *)
(* what lies below a committed offset is in the store or was erased.       *)
THEOREM NothingLost == Spec => []CommittedIsStored
<1>1. IInv => CommittedIsStored
  BY DEF IInv, BatchHeld, Held, CommittedIsStored
<1> QED
  BY <1>1, PipelineInvariant, PTL

(* A score that calls itself complete has seen every event of its session  *)
(* up to the trigger, or a purge deleted it.                               *)
THEOREM ScoresWhole == Spec => []CompleteIsWhole
<1>1. IInv => CompleteIsWhole
  BY DEF IInv
<1> QED
  BY <1>1, PipelineInvariant, PTL

-----------------------------------------------------------------------------
(* Acknowledged triggers.                                                  *)

(* A session that is scored, or whose interview is purged. *)
Dealt(s) == scores[s] # NoScore \/ purged

(* What is behind the offset, and the trigger that is being acknowledged. *)
AckedAt(s) ==
    /\ \A k \in 1..acked[s] : log[s][k] \in Triggers => Dealt(s)
    /\ AtStep(s, "ack") /\ Trigger(s) \in Triggers => Dealt(s)

LEMMA AckedParts == AckedIsScored /\ AckInv <=> \A s \in Sessions : AckedAt(s)
  BY DEF AckedIsScored, AckInv, AckedAt, Dealt

(* A session whose scorer does not move. *)
LEMMA AckedStays ==
    ASSUME IInv, NEW s \in Sessions, AckedAt(s), LogKept, Dealt(s) => Dealt(s)',
           acked'[s] = acked[s], scorer'[s] = scorer[s]
    PROVE  AckedAt(s)'
<1>1. acked[s] \in Nat /\ Len(log[s]) \in Nat /\ acked[s] <= Len(log[s])
      /\ (AtStep(s, "ack") => acked[s] < Len(log[s]))
  BY DEF IInv, TypeOK, ScoreInv, AtStep
<1>2. \A k \in 1..Len(log[s]) : log'[s][k] = log[s][k]
  BY DEF LogKept
<1>3. \A k \in 1..acked[s] : k \in 1..Len(log[s])
  BY <1>1
<1>4. AtStep(s, "ack") => acked[s] + 1 \in 1..Len(log[s])
  BY <1>1
<1>5. \A k \in 1..acked'[s] : log'[s][k] \in Triggers => Dealt(s)'
  BY <1>2, <1>3 DEF AckedAt
<1>6. AtStep(s, "ack")' => AtStep(s, "ack") /\ Trigger(s)' = Trigger(s)
  BY <1>2, <1>4 DEF AtStep, Trigger
<1> QED
  BY <1>5, <1>6 DEF AckedAt

(* An event is appended to its session's log. *)
LEMMA ProduceKeepsLog == ASSUME IInv, NEW n \in Numbers, Produce(n) PROVE LogKept
<1>1. SessionOf[n] \in Sessions /\ log \in [Sessions -> Seq(Numbers)]
  BY SessionOfAssumption DEF IInv, TypeOK
<1>2. log' = [log EXCEPT ![SessionOf[n]] = Append(log[SessionOf[n]], n)]
  BY DEF Produce, AppendEvent
<1>3. ASSUME NEW s \in Sessions
      PROVE  Len(log[s]) <= Len(log'[s]) /\ \A k \in 1..Len(log[s]) : log'[s][k] = log[s][k]
  <2>1. log[s] \in Seq(Numbers) /\ Len(log[s]) \in Nat
    BY <1>1
  <2>2. log'[s] = log[s] \/ log'[s] = Append(log[s], n)
    BY <1>1, <1>2
  <2> QED
    BY <2>1, <2>2, AppendProperties
<1> QED
  BY <1>3 DEF LogKept

(* A step of one session's scorer that acknowledges nothing. *)
LEMMA ScorerMoves ==
    ASSUME IInv, \A x \in Sessions : AckedAt(x), NEW s \in Sessions, NEW r, Set(s, r),
           acked' = acked, \A x \in Sessions : Dealt(x) => Dealt(x)',
           r.pc = "ack" /\ Trigger(s) \in Triggers => Dealt(s)'
    PROVE  \A x \in Sessions : AckedAt(x)'
<1>1. UNCHANGED log /\ LogKept /\ scorer' = [scorer EXCEPT ![s] = r]
  BY LogSame DEF Set, IInv
<1>2. scorer'[s] = r /\ \A x \in Sessions \ {s} : scorer'[x] = scorer[x]
  BY <1>1 DEF IInv, TypeOK
<1>3. ASSUME NEW x \in Sessions \ {s} PROVE AckedAt(x)'
  BY <1>1, <1>2, <1>3, AckedStays
<1>4. Trigger(s)' = Trigger(s)
  BY <1>1 DEF Trigger
<1>5. AckedAt(s)'
  BY <1>1, <1>2, <1>4 DEF AckedAt, AtStep
<1> QED
  BY <1>3, <1>5

(* The steps of a scorer. *)
LEMMA ScoreAcks ==
    ASSUME IInv, \A x \in Sessions : AckedAt(x), NEW s \in Sessions, Score(s) \/ ScorerFails(s)
    PROVE  \A x \in Sessions : AckedAt(x)'
<1>r. scorer[s] \in ScorerRecord
  BY ScorerFacts
<1>1. ASSUME UNCHANGED <<scores, purged>> PROVE \A x \in Sessions : Dealt(x)' <=> Dealt(x)
  BY <1>1 DEF Dealt
<1>2. ASSUME NEW r, Set(s, r), UNCHANGED <<acked, scores>>, r.pc = "ack" /\ Trigger(s) \in Triggers => Dealt(s)
      PROVE  \A x \in Sessions : AckedAt(x)'
  <2>1. UNCHANGED purged
    BY <1>2 DEF Set
  <2> QED
    BY <1>1, <1>2, <2>1, ScorerMoves
<1>3. CASE FetchTrigger(s)
  <2>1. [Idle EXCEPT !.pc = "exists", !.attempt = 1].pc = "exists"
    BY DEF Idle
  <2>2. CASE Trigger(s) \in Triggers
    BY <1>2, <1>3, <2>1, <2>2 DEF FetchTrigger
  <2>3. CASE Trigger(s) \notin Triggers
    BY <1>2, <1>3, <2>3 DEF FetchTrigger
  <2> QED
    BY <2>2, <2>3
<1>4. CASE ScoreExists(s)
  <2>1. CASE scores[s] # NoScore
    BY <1>2, <1>4, <2>1 DEF ScoreExists, Go, Dealt
  <2>2. CASE scores[s] = NoScore
    <3>1. [scorer[s] EXCEPT !.pc = "progress"].pc = "progress"
      BY <1>r DEF ScorerRecord
    <3> QED
      BY <1>2, <1>4, <2>2, <3>1 DEF ScoreExists, Go
  <2> QED
    BY <2>1, <2>2
<1>5. CASE ReadProgress(s)
  <2>1. CASE CaughtUp(Trigger(s)) \/ Final(scorer[s].attempt)
    <3>1. PICK r : r = [scorer[s] EXCEPT !.pc = "timeline", !.complete = CaughtUp(Trigger(s))]
      OBVIOUS
    <3>2. r.pc = "timeline"
      BY <1>r, <3>1 DEF ScorerRecord
    <3>3. Set(s, r)
      BY <1>5, <2>1, <3>1 DEF ReadProgress
    <3> QED
      BY <1>2, <1>5, <3>2, <3>3 DEF ReadProgress
  <2>2. CASE ~(CaughtUp(Trigger(s)) \/ Final(scorer[s].attempt))
    <3>1. PICK r : r = [scorer[s] EXCEPT !.pc = "exists", !.attempt = scorer[s].attempt + 1]
      OBVIOUS
    <3>2. r.pc = "exists"
      BY <1>r, <3>1 DEF ScorerRecord
    <3>3. Set(s, r)
      BY <1>5, <2>2, <3>1 DEF ReadProgress, Behind
    <3> QED
      BY <1>2, <1>5, <3>2, <3>3 DEF ReadProgress
  <2> QED
    BY <2>1, <2>2
<1>6. CASE ReadTimeline(s)
  <2>1. PICK r : r = [scorer[s] EXCEPT
                        !.pc = "save",
                        !.timeline = {n \in Stored("writer") : SessionOf[n] = s /\ n <= Trigger(s)}]
    OBVIOUS
  <2>2. r.pc = "save"
    BY <1>r, <2>1 DEF ScorerRecord
  <2>3. Set(s, r)
    BY <1>6, <2>1 DEF ReadTimeline
  <2> QED
    BY <1>2, <1>6, <2>2, <2>3 DEF ReadTimeline
<1>7. CASE SaveScore(s)
  <2>1. Trigger(s) \in Triggers /\ scores \in [Sessions -> ScoreRecord]
    BY <1>7, ScorerFacts DEF SaveScore, Scoring, AtStep
  <2>2. Trigger(s) # 0
    <3>1. Trigger(s) \in 1..N
      BY <2>1, TriggersAssumption DEF Numbers
    <3> QED
      BY <3>1, SessionOfAssumption
  <2>3. PICK new : /\ new.upTo # 0
                   /\ scores' = IF purged \/ scores[s] # NoScore THEN scores ELSE [scores EXCEPT ![s] = new]
    BY <1>7, <2>2 DEF SaveScore
  <2>4. new # NoScore
    BY <2>3 DEF NoScore
  <2>5. /\ Set(s, [Idle EXCEPT !.pc = "ack"]) /\ UNCHANGED <<acked, purged>>
    BY <1>7 DEF SaveScore, Set
  <2>6. Dealt(s)' /\ \A x \in Sessions : Dealt(x) => Dealt(x)'
    BY <2>1, <2>3, <2>4, <2>5 DEF Dealt
  <2> QED
    BY <2>5, <2>6, ScorerMoves
<1>8. CASE Acknowledge(s)
  <2>1. /\ Set(s, Idle) /\ acked' = [acked EXCEPT ![s] = acked[s] + 1]
        /\ UNCHANGED <<scores, purged, log>> /\ scorer[s].pc = "ack"
    BY <1>8 DEF Acknowledge, Set, AtStep
  <2>2. /\ acked[s] \in Nat /\ acked'[s] = acked[s] + 1
        /\ \A x \in Sessions \ {s} : acked'[x] = acked[x]
    BY <2>1, ScorerFacts
  <2>3. scorer'[s] = Idle /\ \A x \in Sessions \ {s} : scorer'[x] = scorer[x]
    BY <2>1 DEF Set, IInv, TypeOK
  <2>4. ASSUME NEW x \in Sessions \ {s} PROVE AckedAt(x)'
    BY <1>1, <2>1, <2>2, <2>3, <2>4, AckedStays, LogSame DEF IInv
  <2>5. ASSUME NEW k \in 1..acked'[s], log[s][k] \in Triggers PROVE Dealt(s)
    <3>1. k \in 1..acked[s] \/ k = acked[s] + 1
      BY <2>2
    <3> QED
      BY <2>1, <2>5, <3>1 DEF AckedAt, AtStep, Trigger
  <2>6. AckedAt(s)'
    BY <1>1, <2>1, <2>3, <2>5, IdleTyped DEF AckedAt, AtStep
  <2> QED
    BY <2>4, <2>6
<1>9. CASE ScorerFails(s)
  BY <1>2, <1>9, IdleTyped DEF ScorerFails
<1> QED
  BY <1>3, <1>4, <1>5, <1>6, <1>7, <1>8, <1>9 DEF Score

(* No trigger slips: a message is committed only once its session has a    *)
(* score or its interview is gone, whatever fails in between.              *)
THEOREM TriggersKept == Spec => []AckedIsScored
<1>1. ASSUME Init PROVE \A s \in Sessions : AckedAt(s)
  BY <1>1, IdleTyped DEF Init, AckedAt, AtStep
<1>2. ASSUME IInv, \A s \in Sessions : AckedAt(s), [Next]_vars PROVE \A s \in Sessions : AckedAt(s)'
  <2>1. ASSUME LogKept, UNCHANGED <<acked, scorer>>, \A s \in Sessions : Dealt(s) => Dealt(s)'
        PROVE  \A s \in Sessions : AckedAt(s)'
    BY <1>2, <2>1, AckedStays
  <2>2. ASSUME LogKept, UNCHANGED <<acked, scorer, scores, purged>> PROVE \A s \in Sessions : AckedAt(s)'
    BY <2>1, <2>2 DEF Dealt
  <2>3. ASSUME UNCHANGED <<log, acked, scorer, scores, purged>> PROVE \A s \in Sessions : AckedAt(s)'
    BY <1>2, <2>2, <2>3, LogSame DEF IInv
  <2>4. ASSUME NEW n \in Numbers, Produce(n) PROVE \A s \in Sessions : AckedAt(s)'
    BY <1>2, <2>2, <2>4, ProduceKeepsLog DEF Produce
  <2>5. ASSUME NEW c \in Consumers, Consume(c) \/ ConsumerFails(c)
        PROVE  UNCHANGED <<log, acked, scorer, scores, purged>>
    BY <2>5 DEF Consume, Fetch, Flush, CommitOffsets, ConsumerFails
  <2>6. ASSUME NEW n \in Numbers, Merge(n) PROVE UNCHANGED <<log, acked, scorer, scores, purged>>
    BY <2>6 DEF Merge
  <2>7. CASE PurgeCommit
    BY <1>2, <2>1, <2>7, LogSame DEF PurgeCommit, PurgeStep, Dealt, IInv
  <2>8. PurgeLock \/ DeleteSearch \/ DeleteEvents \/ PurgeFails \/ UNCHANGED vars
          => UNCHANGED <<log, acked, scorer, scores, purged>>
    BY DEF PurgeLock, DeleteSearch, DeleteEvents, Delete, PurgeFails, PurgeStep, vars
  <2> QED
    BY <1>2, <2>3, <2>4, <2>5, <2>6, <2>7, <2>8, ScoreAcks DEF Next, Purge
<1>3. IInv /\ AckedIsScored /\ AckInv /\ [Next]_vars => (AckedIsScored /\ AckInv)'
  BY <1>2, AckedParts DEF AckedIsScored, AckInv, AckedAt, Dealt
<1>4. Init => AckedIsScored /\ AckInv
  BY <1>1, AckedParts
<1> QED
  BY <1>3, <1>4, PipelineInvariant, PTL DEF Spec

=============================================================================
