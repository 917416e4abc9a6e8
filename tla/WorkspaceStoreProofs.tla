------------------------ MODULE WorkspaceStoreProofs ------------------------
(***************************************************************************)
(* Proofs about WorkspaceStore, for every set of interviews, invites,      *)
(* workers and relays, every batch size and every bound.                   *)
(***************************************************************************)
EXTENDS WorkspaceStore, FiniteSetTheorems, TLAPS

-----------------------------------------------------------------------------
(* Types.                                                                  *)

(* An idle worker's transaction has the type of a transaction. *)
LEMMA NoTxType == NoTx \in Tx /\ NoTx.op = "none" /\ NoTx.pc = "idle" /\ NoTx.locks = {}
  BY InvitesAssumption DEF NoTx, Tx, Pc

(* The first statement of a transaction is a program point. *)
LEMMA FirstPcType == \A op \in AllOps : FirstPc(op) \in Pc
  BY DEF AllOps, FirstPc, Pc

(* Appending to a stream adds the event to what was delivered. *)
LEMMA RangeAppend ==
  ASSUME NEW s \in Seq(Event), NEW e \in Event
  PROVE  Append(s, e) \in Seq(Event) /\ Range(Append(s, e)) = Range(s) \cup {e}
  <1>1. Append(s, e) \in Seq(Event) /\ DOMAIN Append(s, e) = 1..(Len(s) + 1)
    OBVIOUS
  <1>2. DOMAIN s = 1..Len(s) /\ Len(s) \in Nat
    OBVIOUS
  <1>3. \A k \in 1..Len(s) : Append(s, e)[k] = s[k]
    OBVIOUS
  <1>4. Append(s, e)[Len(s) + 1] = e
    OBVIOUS
  <1>5. \A k \in 1..(Len(s) + 1) : k \in 1..Len(s) \/ k = Len(s) + 1
    BY <1>2
  <1>6. \A x : x \in Range(Append(s, e)) <=> x \in Range(s) \cup {e}
    BY <1>1, <1>2, <1>3, <1>4, <1>5 DEF Range
  <1> QED
    BY <1>1, <1>6

(* What the provers need of TypeOK for the transaction of one worker. *)
LEMMA TxType ==
  ASSUME TypeOK, NEW t \in Workers
  PROVE  /\ tx \in [Workers -> Tx]
         /\ tx[t] \in Tx
         /\ tx[t].op \in AllOps \cup {"none"} /\ tx[t].pc \in Pc
         /\ tx[t].v \in Invites /\ tx[t].c \in Nat
         /\ tx[t].locks \subseteq Token /\ tx[t].first \in Nat /\ tx[t].id \in Nat
         /\ Iv(t) \in Interviews
         /\ lastSeq[Iv(t)] \in Nat
  <1>1. tx \in [Workers -> Tx] /\ lastSeq \in [Interviews -> Nat]
    BY DEF TypeOK
  <1>2. tx[t] \in Tx
    BY <1>1
  <1> QED
    BY <1>1, <1>2, InterviewOfAssumption DEF Tx, Iv

(* A statement that only moves tx[t] keeps the types. *)
LEMMA AdvanceType ==
  ASSUME TypeOK, NEW t \in Workers, NEW pc \in Pc, NEW locks \in SUBSET Token,
         Advance(t, pc, locks)
  PROVE  TypeOK'
  <1>1. tx \in [Workers -> Tx]
    BY DEF TypeOK
  <1>2. tx' = [tx EXCEPT ![t].pc = pc, ![t].locks = @ \cup locks]
    BY DEF Advance
  <1>3. tx' \in [Workers -> Tx]
    BY <1>1, <1>2 DEF Tx
  <1> QED
    BY <1>3 DEF TypeOK, Advance, tableVars

(* Every lock a statement takes is a row lock of its interview or invite. *)
LEMMA TokenType ==
  ASSUME TypeOK, NEW t \in Workers
  PROVE  /\ {<<"interview", Iv(t)>>} \in SUBSET Token
         /\ {<<"purge", Iv(t)>>} \in SUBSET Token
         /\ \A k \in {"invite", "session", "score", "fk"} :
               {<<k, tx[t].v>>} \in SUBSET Token
  BY TxType DEF Token

(* The program points. *)
LEMMA PcType ==
  /\ "idle" \in Pc /\ "alloc" \in Pc /\ "fk" \in Pc /\ "write" \in Pc
  /\ "commit" \in Pc /\ "stream" \in Pc /\ "external" \in Pc /\ "delete" \in Pc
  BY DEF Pc

(* A transaction that ends leaves its worker idle. *)
LEMMA EndType ==
  ASSUME TypeOK, NEW t \in Workers, tx' = [tx EXCEPT ![t] = NoTx]
  PROVE  tx' \in [Workers -> Tx]
  BY NoTxType DEF TypeOK

(* A rolled back transaction keeps the types. *)
LEMMA RollBackType ==
  ASSUME TypeOK, NEW t \in Workers, RollBack(t), failures' \in Nat
  PROVE  TypeOK'
  BY EndType DEF RollBack, TypeOK, tableVars

(* What the provers need of TypeOK for one relay. *)
LEMMA RelayType ==
  ASSUME TypeOK, NEW r \in Relays
  PROVE  /\ relay[r].batch \subseteq Event
         /\ relay[r].sent \subseteq Event
         /\ relay[r].locked \in BOOLEAN
  BY DEF TypeOK

(* Each step keeps the types. *)
LEMMA TypeStep ==
  ASSUME TypeOK, TxInv, [Next]_vars
  PROVE  TypeOK'
<1>1. ASSUME NEW t \in Workers, Begin(t) PROVE TypeOK'
  <2>1. PICK op \in Ops, v \in Invites, c \in 0..MaxDiff :
           tx' = [tx EXCEPT ![t] =
                    [NoTx EXCEPT !.op = op, !.pc = FirstPc(op), !.v = v, !.c = c]]
    BY <1>1 DEF Begin
  <2>2. op \in AllOps /\ FirstPc(op) \in Pc /\ c \in Nat
    BY FirstPcType, OpsAssumption, BoundsAssumption
  <2>3. [NoTx EXCEPT !.op = op, !.pc = FirstPc(op), !.v = v, !.c = c] \in Tx
    BY <2>2, NoTxType DEF Tx
  <2>4. tx' \in [Workers -> Tx]
    BY <2>1, <2>3 DEF TypeOK
  <2> QED
    BY <1>1, <2>4 DEF TypeOK, Begin, tableVars
<1>2. ASSUME NEW t \in Workers, ConsumeInvite(t) PROVE TypeOK'
  BY <1>2, TokenType, AdvanceType, PcType DEF ConsumeInvite
<1>3. ASSUME NEW t \in Workers, AdvanceDiff(t) PROVE TypeOK'
  BY <1>3, TokenType, AdvanceType, PcType DEF AdvanceDiff
<1>4. ASSUME NEW t \in Workers, InsertScore(t) PROVE TypeOK'
  BY <1>4, TokenType, AdvanceType, PcType DEF InsertScore
<1>5. ASSUME NEW t \in Workers, CheckForeignKeys(t) PROVE TypeOK'
  BY <1>5, TokenType, AdvanceType, PcType DEF CheckForeignKeys
<1>6. ASSUME NEW t \in Workers, AllocateSequence(t) PROVE TypeOK'
  <2>1. AllocLocks(t) \subseteq Token
    BY TokenType DEF AllocLocks
  <2>2. FirstOf(lastSeq[Iv(t)] + Count(tx[t].op), Count(tx[t].op)) \in Nat
    BY TxType DEF FirstOf, Count
  <2>3. tx' \in [Workers -> Tx]
    BY <1>6, <2>1, <2>2, TxType, PcType DEF AllocateSequence, Tx
  <2> QED
    BY <1>6, <2>3 DEF TypeOK, AllocateSequence, tableVars
<1>7. ASSUME NEW t \in Workers, InsertOutbox(t) PROVE TypeOK'
  <2>1. nextId \in Nat /\ nextId' \in Nat
    BY <1>7 DEF TypeOK, InsertOutbox
  <2>2. tx' \in [Workers -> Tx]
    BY <1>7, <2>1, TxType, PcType DEF InsertOutbox, Tx
  <2> QED
    BY <1>7, <2>1, <2>2 DEF TypeOK, InsertOutbox, tableVars
<1>8. ASSUME NEW t \in Workers, Commit(t) PROVE TypeOK'
  <2>1. tx' \in [Workers -> Tx]
    <3>1. CASE tx' = [tx EXCEPT ![t] = NoTx]
      BY <3>1, EndType
    <3>2. CASE tx' = [tx EXCEPT ![t].pc = "stream", ![t].locks = {}]
      BY <3>2, TxType, PcType DEF Tx
    <3> QED
      BY <1>8, <3>1, <3>2 DEF Commit
  <2>2. OutboxRow(t) \in Event
    <3>1. tx[t].op # "none"
      BY <1>8 DEF Commit, TxInv, TxOK
    <3> QED
      BY <3>1, TxType DEF OutboxRow, Event
  <2>3. lastSeq' \in [Interviews -> Nat]
    BY <1>8, TxType DEF Commit, CommitTables, Count, TypeOK
  <2>4. lastDiff' \in [Invites -> Nat]
    BY <1>8, TxType DEF Commit, CommitTables, TypeOK
  <2>5. accepted' \subseteq Invites /\ sessions' \subseteq Invites /\ scores' \subseteq Invites
    BY <1>8, TxType DEF Commit, CommitTables, TypeOK
  <2> QED
    BY <1>8, <2>1, <2>2, <2>3, <2>4, <2>5 DEF TypeOK, Commit, CommitTables
<1>9. ASSUME NEW t \in Workers, EmitCompletion(t) PROVE TypeOK'
  <2>1. CompletionOf(t) \in Event
    BY TxType DEF CompletionOf, Event
  <2>2. log' \in [Invites -> Seq(Event)]
    BY <1>9, <2>1, RangeAppend, TxType DEF EmitCompletion, TypeOK
  <2>3. tx' \in [Workers -> Tx] /\ failures' \in Nat
    BY <1>9, EndType DEF EmitCompletion, TypeOK
  <2> QED
    BY <1>9, <2>2, <2>3 DEF EmitCompletion, TypeOK, tableVars
<1>10. ASSUME NEW t \in Workers, LoseCompletion(t) PROVE TypeOK'
  BY <1>10, EndType DEF LoseCompletion, TypeOK, tableVars
<1>11. ASSUME NEW t \in Workers, PurgeLock(t) PROVE TypeOK'
  <2>1. {<<"interview", Iv(t)>>, <<"purge", Iv(t)>>} \in SUBSET Token
    BY TokenType
  <2> QED
    BY <1>11, <2>1, AdvanceType, PcType DEF PurgeLock
<1>12. ASSUME NEW t \in Workers, DeleteExternal(t) PROVE TypeOK'
  <2>1. {} \in SUBSET Token
    OBVIOUS
  <2> QED
    BY <1>12, <2>1, AdvanceType, PcType DEF DeleteExternal
<1>13. ASSUME NEW t \in Workers, PurgeRow(t) PROVE TypeOK'
  <2>1. PICK k \in RowsToDelete(t) : Advance(t, "delete", {k})
    BY <1>13 DEF PurgeRow
  <2>2. {k} \in SUBSET Token
    BY DEF RowsToDelete, InvitesOf, Token
  <2> QED
    BY <2>1, <2>2, AdvanceType, PcType
<1>14. ASSUME NEW t \in Workers, PurgeCommit(t) PROVE TypeOK'
  BY <1>14, EndType, TxType DEF PurgeCommit, TypeOK
<1>15. ASSUME NEW t \in Workers, NoRows(t) PROVE TypeOK'
  BY <1>15, RollBackType DEF NoRows, TypeOK
<1>16. ASSUME NEW t \in Workers, Abort(t) PROVE TypeOK'
  <2>1. failures' \in Nat
    BY <1>16 DEF Abort, TypeOK
  <2> QED
    BY <1>16, <2>1, RollBackType DEF Abort
<1>17. ASSUME NEW t \in Workers, DeadlockAbort(t) PROVE TypeOK'
  <2>1. RollBack(t) /\ failures' \in Nat
    BY <1>17 DEF DeadlockAbort, TypeOK
  <2> QED
    BY <2>1, RollBackType
<1>18. ASSUME NEW r \in Relays, DrainBegin(r) PROVE TypeOK'
  <2>1. FirstRows(outbox, BatchSize) \subseteq Event
    BY DEF FirstRows, TypeOK
  <2> QED
    BY <1>18, <2>1 DEF DrainBegin, TypeOK, tableVars
<1>19. ASSUME NEW r \in Relays, Publish(r) PROVE TypeOK'
  <2>1. PICK e \in relay[r].batch :
           /\ log' = [log EXCEPT ![e.v] = Append(@, e)]
           /\ relay' = [relay EXCEPT ![r].sent = @ \cup {e}]
           /\ UNCHANGED <<tableVars, outbox, nextId, tx, requests, failures>>
    BY <1>19 DEF Publish
  <2>2. e \in Event /\ e.v \in Invites
    BY RelayType DEF Event
  <2>3. log' \in [Invites -> Seq(Event)]
    <3>1. log[e.v] \in Seq(Event)
      BY <2>2 DEF TypeOK
    <3>2. Append(log[e.v], e) \in Seq(Event)
      BY <2>2, <3>1
    <3> QED
      BY <2>1, <2>2, <3>2 DEF TypeOK
  <2>4. relay[r].batch \subseteq Event /\ relay[r].sent \cup {e} \subseteq Event
    BY <2>2 DEF TypeOK
  <2>5. relay' \in [Relays -> [batch : SUBSET Event, sent : SUBSET Event,
                               locked : BOOLEAN]]
    BY <2>1, <2>4 DEF TypeOK
  <2> QED
    BY <2>1, <2>2, <2>3, <2>5 DEF TypeOK, tableVars
<1>20. ASSUME NEW r \in Relays, DrainCommit(r) PROVE TypeOK'
  BY <1>20 DEF DrainCommit, TypeOK, tableVars, NoDrain
<1>21. ASSUME NEW r \in Relays, DrainFail(r) PROVE TypeOK'
  BY <1>21 DEF DrainFail, TypeOK, tableVars, NoDrain
<1>22. ASSUME NEW r \in Relays, LockLost(r) PROVE TypeOK'
  <2>1. failures' \in Nat
    BY <1>22 DEF LockLost, TypeOK
  <2>2. relay' \in [Relays -> [batch : SUBSET Event, sent : SUBSET Event,
                              locked : BOOLEAN]]
    BY <1>22 DEF LockLost, TypeOK
  <2> QED
    BY <1>22, <2>1, <2>2 DEF LockLost, TypeOK, tableVars
<1>23. ASSUME NEW r \in Relays, DrainAbandon(r) PROVE TypeOK'
  BY <1>23 DEF DrainAbandon, TypeOK, tableVars, NoDrain
<1>24. ASSUME UNCHANGED vars PROVE TypeOK'
  BY <1>24 DEF vars, TypeOK
<1> QED
  BY <1>1, <1>2, <1>3, <1>4, <1>5, <1>6, <1>7, <1>8, <1>9, <1>10, <1>11, <1>12,
     <1>13, <1>14, <1>15, <1>16, <1>17, <1>18, <1>19, <1>20, <1>21, <1>22, <1>23,
     <1>24 DEF Next, Statement, Drain

-----------------------------------------------------------------------------
(* What a step can leave alone.                                            *)

(* The recorded events only change with the outbox and Kafka. *)
LEMMA SameRecorded ==
  ASSUME UNCHANGED <<outbox, log>>
  PROVE  Recorded' = Recorded /\ \A v \in Invites : Delivered(v)' = Delivered(v)
  BY DEF Recorded, Delivered

(* The type of recorded events. *)
LEMMA RecordedType ==
  ASSUME TypeOK
  PROVE  /\ Recorded \subseteq Event
         /\ \A v \in Invites : Delivered(v) \subseteq Recorded
         /\ \A e \in Event : /\ e.id \in Nat /\ e.seq \in Nat /\ e.v \in Invites
                             /\ InterviewOf[e.v] \in Interviews
                             /\ lastSeq[InterviewOf[e.v]] \in Nat
  <1>1. \A v \in Invites : Delivered(v) \subseteq Event
    BY DEF TypeOK, Delivered, Range
  <1>2. outbox \subseteq Event /\ lastSeq \in [Interviews -> Nat]
    BY DEF TypeOK
  <1>3. Recorded \subseteq Event /\ \A v \in Invites : Delivered(v) \subseteq Recorded
    BY <1>1, <1>2 DEF Recorded
  <1> QED
    BY <1>2, <1>3, InterviewOfAssumption DEF Event

(* A worker that is not involved in a step keeps its part of TxInv. *)
LEMMA TxFrame ==
  ASSUME TypeOK, NEW u \in Workers, TxOK(u), tx'[u] = tx[u],
         lastSeq'[Iv(u)] = lastSeq[Iv(u)],
         Iv(u) \in purged' => Iv(u) \in purged,
         nextId' \in Nat, nextId <= nextId',
         Recorded' = Recorded
  PROVE  TxOK(u)'
  <1>1. Iv(u)' = Iv(u)
    BY DEF Iv
  <1>2. nextId \in Nat /\ tx[u].id \in Nat
    BY TxType DEF TypeOK
  <1> QED
    BY <1>1, <1>2 DEF TxOK

(* A step that records nothing and numbers nothing keeps the invariants of *)
(* the recorded events.                                                    *)
LEMMA EventFrame ==
  ASSUME TypeOK, EventInv, DeliveredInOrder, SequenceAccounted,
         UNCHANGED <<outbox, log, lastSeq>>, nextId' \in Nat, nextId <= nextId'
  PROVE  EventInv' /\ DeliveredInOrder' /\ SequenceAccounted'
  <1>1. Recorded' = Recorded /\ \A v \in Invites : Delivered(v)' = Delivered(v)
    BY SameRecorded
  <1>2. \A e \in Recorded : e.id \in Nat /\ e.v \in Invites
    BY RecordedType
  <1>3. nextId \in Nat
    BY DEF TypeOK
  <1>4. EventInv'
    BY <1>1, <1>2, <1>3 DEF EventInv, Relayed, SameInterview
  <1>5. DeliveredInOrder'
    BY <1>1, <1>2 DEF DeliveredInOrder, Relayed
  <1>6. SequenceAccounted'
    BY <1>1 DEF SequenceAccounted
  <1> QED
    BY <1>4, <1>5, <1>6

(* A relay that does nothing while nothing is recorded or sent. *)
LEMMA RelayFrame ==
  ASSUME TypeOK, RelayInv, UNCHANGED <<outbox, log, relay>>
  PROVE  RelayInv'
  <1>1. Recorded' = Recorded /\ \A v \in Invites : Delivered(v)' = Delivered(v)
    BY SameRecorded
  <1>2. \A e \in Recorded : e.v \in Invites
    BY RecordedType
  <1>3. \A r \in Relays : \A e \in relay[r].sent : e.v \in Invites
    BY RelayType DEF Event
  <1> QED
    BY <1>1, <1>2, <1>3 DEF RelayInv, RelayOK, Relayed

-----------------------------------------------------------------------------
(* Steps inside a transaction.                                             *)

(* The row lock of an interview stays with one worker when a step gives    *)
(* tx[t] only locks that nobody else holds.                                *)
LEMMA LockStep ==
  ASSUME TypeOK, LockInv, NEW t \in Workers, NEW pc, NEW locks,
         \A u \in Workers \ {t} : tx'[u] = tx[u],
         tx'[t].v = tx[t].v,
         tx'[t].pc = pc,
         tx'[t].locks \subseteq tx[t].locks \cup locks,
         \A i \in Interviews : <<"interview", i>> \in locks =>
             Free(t, <<"interview", i>>),
         pc \in {"write", "commit", "external", "delete"} =>
             <<"interview", Iv(t)>> \in tx'[t].locks
  PROVE  LockInv'
  <1>1. \A u \in Workers : Iv(u)' = Iv(u)
    BY DEF Iv
  <1>2. ASSUME NEW u \in Workers, NEW w \in Workers, NEW i \in Interviews,
               <<"interview", i>> \in tx'[u].locks, <<"interview", i>> \in tx'[w].locks
        PROVE  u = w
    <2>1. CASE u # t /\ w # t
      BY <1>2, <2>1 DEF LockInv
    <2>2. CASE u = t /\ w # t
      BY <1>2, <2>2 DEF LockInv, Free
    <2>3. CASE u # t /\ w = t
      BY <1>2, <2>3 DEF LockInv, Free
    <2> QED
      BY <2>1, <2>2, <2>3
  <1>3. ASSUME NEW u \in Workers, tx'[u].pc \in {"write", "commit", "external", "delete"}
        PROVE  Holds(u)'
    BY <1>1, <1>3 DEF LockInv, Holds
  <1> QED
    BY <1>2, <1>3 DEF LockInv

(* A worker that becomes idle gives up its locks. *)
LEMMA EndLocks ==
  ASSUME TypeOK, LockInv, NEW t \in Workers, tx' = [tx EXCEPT ![t] = NoTx]
  PROVE  LockInv'
  <1>1. tx \in [Workers -> Tx] /\ tx'[t] = NoTx /\ \A u \in Workers \ {t} : tx'[u] = tx[u]
    BY TxType
  <1>2. NoTx.pc = "idle" /\ NoTx.locks = {}
    BY NoTxType
  <1>3. \A u \in Workers \ {t} : Iv(u)' = Iv(u)
    BY <1>1 DEF Iv
  <1> QED
    BY <1>1, <1>2, <1>3 DEF LockInv, Holds

(* An idle worker satisfies its part of TxInv. *)
LEMMA IdleOK ==
  ASSUME NEW t \in Workers, tx'[t] = NoTx
  PROVE  TxOK(t)'
  BY NoTxType DEF TxOK

(* A statement that takes locks and moves on, without numbering anything.  *)
LEMMA AdvanceStep ==
  ASSUME IInv, NEW t \in Workers, NEW pc \in Pc, NEW locks \in SUBSET Token,
         Advance(t, pc, locks),
         tx[t].pc # "idle", pc \notin {"idle", "write", "commit", "stream"},
         \A i \in Interviews : <<"interview", i>> \in locks =>
             Free(t, <<"interview", i>>),
         pc \in {"external", "delete"} =>
             <<"interview", Iv(t)>> \in tx[t].locks \cup locks
  PROVE  IInv'
  <1>1. TypeOK'
    BY AdvanceType DEF IInv
  <1>2. /\ tx'[t].op = tx[t].op /\ tx'[t].v = tx[t].v
        /\ tx'[t].pc = pc /\ tx'[t].locks = tx[t].locks \cup locks
        /\ \A u \in Workers \ {t} : tx'[u] = tx[u]
    BY TxType DEF IInv, Advance, Tx
  <1>3. LockInv'
    BY <1>2, LockStep DEF IInv
  <1>4. UNCHANGED <<outbox, log, lastSeq, relay, purged, nextId>> /\ nextId' \in Nat
    BY DEF Advance, tableVars, IInv, TypeOK
  <1>5. TxInv'
    <2>1. TxOK(t)'
      BY <1>2 DEF TxOK, IInv, TxInv
    <2>2. ASSUME NEW u \in Workers \ {t} PROVE TxOK(u)'
      BY <1>2, <1>4, SameRecorded, TxFrame DEF IInv, TxInv
    <2> QED
      BY <2>1, <2>2 DEF TxInv
  <1>6. EventInv' /\ DeliveredInOrder' /\ SequenceAccounted'
    BY <1>4, EventFrame DEF IInv
  <1>7. RelayInv'
    BY <1>4, RelayFrame DEF IInv
  <1> QED
    BY <1>1, <1>3, <1>5, <1>6, <1>7 DEF IInv

(* A transaction that ends without committing. *)
LEMMA EndStep ==
  ASSUME IInv, NEW t \in Workers, tx' = [tx EXCEPT ![t] = NoTx], TypeOK',
         UNCHANGED <<outbox, log, lastSeq, relay, nextId>>,
         \A u \in Workers \ {t} : tx[u].pc \in {"write", "commit"} =>
             (Iv(u) \in purged' => Iv(u) \in purged)
  PROVE  IInv'
  <1>1. LockInv'
    BY EndLocks DEF IInv
  <1>2. nextId' \in Nat /\ nextId <= nextId'
    BY DEF IInv, TypeOK
  <1>3. TxInv'
    <2>1. TxOK(t)'
      BY IdleOK, TxType DEF IInv
    <2>2. ASSUME NEW u \in Workers \ {t} PROVE TxOK(u)'
      <3>1. tx'[u] = tx[u] /\ TxOK(u) /\ Iv(u)' = Iv(u)
        BY TxType DEF IInv, TxInv, Iv
      <3>2. Recorded' = Recorded
        BY SameRecorded
      <3> QED
        BY <3>1, <3>2 DEF TxOK
    <2> QED
      BY <2>1, <2>2 DEF TxInv
  <1>4. EventInv' /\ DeliveredInOrder' /\ SequenceAccounted'
    BY <1>2, EventFrame DEF IInv
  <1>5. RelayInv'
    BY RelayFrame DEF IInv
  <1> QED
    BY <1>1, <1>3, <1>4, <1>5 DEF IInv

(* A new transaction holds nothing and has read nothing. *)
LEMMA BeginStep ==
  ASSUME IInv, NEW t \in Workers, Begin(t), TypeOK'
  PROVE  IInv'
  <1>1. PICK op \in Ops, v \in Invites, c \in 0..MaxDiff :
           tx' = [tx EXCEPT ![t] =
                    [NoTx EXCEPT !.op = op, !.pc = FirstPc(op), !.v = v, !.c = c]]
    BY DEF Begin
  <1>2. /\ tx'[t].op = op /\ tx'[t].pc = FirstPc(op) /\ tx'[t].locks = {}
        /\ \A u \in Workers \ {t} : tx'[u] = tx[u]
    BY <1>1, TxType, NoTxType DEF IInv, NoTx
  <1>3. op # "none" /\ FirstPc(op) \in {"invite", "guard", "insert", "lock", "alloc"}
    BY OpsAssumption DEF AllOps, FirstPc
  <1>4. UNCHANGED <<outbox, log, lastSeq, relay, purged, nextId>> /\ nextId' \in Nat
    BY DEF Begin, tableVars, IInv, TypeOK
  <1>5. LockInv'
    <2>1. \A u \in Workers \ {t} : Iv(u)' = Iv(u)
      BY <1>2 DEF Iv
    <2> QED
      BY <1>2, <1>3, <2>1 DEF IInv, LockInv, Holds
  <1>6. TxInv'
    <2>1. TxOK(t)'
      BY <1>2, <1>3 DEF TxOK
    <2>2. ASSUME NEW u \in Workers \ {t} PROVE TxOK(u)'
      BY <1>2, <1>4, SameRecorded, TxFrame DEF IInv, TxInv
    <2> QED
      BY <2>1, <2>2 DEF TxInv
  <1>7. EventInv' /\ DeliveredInOrder' /\ SequenceAccounted'
    BY <1>4, EventFrame DEF IInv
  <1>8. RelayInv'
    BY <1>4, RelayFrame DEF IInv
  <1> QED
    BY <1>5, <1>6, <1>7, <1>8 DEF IInv

(* The number a transaction takes follows the last committed one, and the  *)
(* row lock keeps it so.                                                   *)
LEMMA AllocateStep ==
  ASSUME IInv, NEW t \in Workers, AllocateSequence(t), TypeOK'
  PROVE  IInv'
  <1>1. /\ tx'[t].op = tx[t].op /\ tx'[t].v = tx[t].v /\ tx'[t].pc = "write"
        /\ tx'[t].first = FirstOf(lastSeq[Iv(t)] + Count(tx[t].op), Count(tx[t].op))
        /\ tx'[t].locks = tx[t].locks \cup {<<"interview", Iv(t)>>}
        /\ \A u \in Workers \ {t} : tx'[u] = tx[u]
    BY TxType DEF IInv, AllocateSequence, AllocLocks, Tx
  <1>2. tx'[t].first = lastSeq[Iv(t)] + 1
    BY <1>1, TxType DEF IInv, FirstOf, Count
  <1>3. /\ tx[t].pc = "alloc" /\ Iv(t) \notin purged
        /\ Free(t, <<"interview", Iv(t)>>)
    BY DEF AllocateSequence, NotPurged, AllocLocks
  <1>4. UNCHANGED <<outbox, log, lastSeq, relay, purged, nextId>> /\ nextId' \in Nat
    BY DEF AllocateSequence, tableVars, IInv, TypeOK
  <1>5. LockInv'
    <2>1. \A i \in Interviews : <<"interview", i>> \in {<<"interview", Iv(t)>>} =>
             Free(t, <<"interview", i>>)
      BY <1>3
    <2> QED
      BY <1>1, <2>1, LockStep DEF IInv
  <1>6. TxInv'
    <2>1. TxOK(t)'
      <3>1. Iv(t)' = Iv(t) /\ tx[t].op # "none"
        BY <1>1, <1>3 DEF Iv, IInv, TxInv, TxOK
      <3> QED
        BY <1>1, <1>2, <1>3, <1>4, <3>1 DEF TxOK
    <2>2. ASSUME NEW u \in Workers \ {t} PROVE TxOK(u)'
      BY <1>1, <1>4, SameRecorded, TxFrame DEF IInv, TxInv
    <2> QED
      BY <2>1, <2>2 DEF TxInv
  <1>7. EventInv' /\ DeliveredInOrder' /\ SequenceAccounted'
    BY <1>4, EventFrame DEF IInv
  <1>8. RelayInv'
    BY <1>4, RelayFrame DEF IInv
  <1> QED
    BY <1>5, <1>6, <1>7, <1>8 DEF IInv

(* The id a row draws while its transaction holds the interview's lock is  *)
(* above the ids of the interview's committed rows.                        *)
LEMMA InsertStep ==
  ASSUME IInv, NEW t \in Workers, InsertOutbox(t), TypeOK'
  PROVE  IInv'
  <1>1. /\ tx'[t].op = tx[t].op /\ tx'[t].v = tx[t].v /\ tx'[t].pc = "commit"
        /\ tx'[t].first = tx[t].first /\ tx'[t].id = nextId
        /\ tx'[t].locks = tx[t].locks
        /\ \A u \in Workers \ {t} : tx'[u] = tx[u]
    BY TxType DEF IInv, InsertOutbox, Tx
  <1>2. tx[t].pc = "write" /\ nextId \in Nat /\ nextId' = nextId + 1
    BY DEF InsertOutbox, IInv, TypeOK
  <1>3. UNCHANGED <<outbox, log, lastSeq, relay, purged>> /\ nextId' \in Nat /\ nextId <= nextId'
    BY <1>2 DEF InsertOutbox, tableVars
  <1>4. LockInv'
    <2>1. Holds(t)
      BY <1>2 DEF IInv, LockInv
    <2>2. \A u \in Workers : tx'[u].locks = tx[u].locks /\ Iv(u)' = Iv(u)
      BY <1>1 DEF Iv
    <2> QED
      BY <1>1, <2>1, <2>2 DEF IInv, LockInv, Holds
  <1>5. TxInv'
    <2>1. TxOK(t)'
      <3>1. Iv(t)' = Iv(t) /\ tx[t].op # "none"
        BY <1>1, <1>2 DEF Iv, IInv, TxInv, TxOK
      <3>2. tx[t].first = lastSeq[Iv(t)] + 1 /\ Iv(t) \notin purged
        BY <1>2 DEF IInv, TxInv, TxOK
      <3>3. Recorded' = Recorded /\ \A e \in Recorded : e.id < nextId
        BY <1>3, SameRecorded DEF IInv, EventInv
      <3>4. tx'[t].id < nextId'
        BY <1>1, <1>2
      <3> QED
        BY <1>1, <1>3, <3>1, <3>2, <3>3, <3>4 DEF TxOK
    <2>2. ASSUME NEW u \in Workers \ {t} PROVE TxOK(u)'
      BY <1>1, <1>3, SameRecorded, TxFrame DEF IInv, TxInv
    <2> QED
      BY <2>1, <2>2 DEF TxInv
  <1>6. EventInv' /\ DeliveredInOrder' /\ SequenceAccounted'
    BY <1>3, EventFrame DEF IInv
  <1>7. RelayInv'
    BY <1>3, RelayFrame DEF IInv
  <1> QED
    BY <1>4, <1>5, <1>6, <1>7 DEF IInv

-----------------------------------------------------------------------------
(* Steps that record events.                                               *)

(* A committing transaction's row, against what is recorded: a new number, *)
(* right after the interview's last one, and the interview's largest id.   *)
LEMMA NewRow ==
  ASSUME IInv, NEW t \in Workers, tx[t].pc = "commit"
  PROVE  /\ OutboxRow(t) \in Event
         /\ OutboxRow(t).seq = lastSeq[Iv(t)] + 1
         /\ OutboxRow(t).id = tx[t].id /\ OutboxRow(t).id < nextId
         /\ OutboxRow(t).op = tx[t].op /\ OutboxRow(t).v = tx[t].v
         /\ OutboxRow(t).c = tx[t].c
         /\ InterviewOf[OutboxRow(t).v] = Iv(t)
         /\ Relayed(OutboxRow(t))
         /\ \A e \in Recorded : InterviewOf[e.v] = Iv(t) =>
               /\ e.seq < OutboxRow(t).seq
               /\ e.op = "prompt" => e.seq + 1 < OutboxRow(t).seq
               /\ e.id < OutboxRow(t).id
         /\ OutboxRow(t) \notin Recorded
  <1>1. /\ tx[t].op \in AllOps \cup {"none"} /\ tx[t].v \in Invites /\ tx[t].c \in Nat
        /\ tx[t].first \in Nat /\ tx[t].id \in Nat /\ lastSeq[Iv(t)] \in Nat
    BY TxType DEF IInv
  <1>2. /\ tx[t].op # "none" /\ tx[t].first = lastSeq[Iv(t)] + 1 /\ tx[t].id < nextId
        /\ \A e \in Recorded : InterviewOf[e.v] = Iv(t) => e.id < tx[t].id
    BY DEF IInv, TxInv, TxOK
  <1>3. tx[t].op # "completion"
    BY <1>1 DEF AllOps
  <1>4. /\ OutboxRow(t) \in Event
        /\ OutboxRow(t).seq = lastSeq[Iv(t)] + 1
        /\ OutboxRow(t).id = tx[t].id /\ OutboxRow(t).op = tx[t].op
        /\ OutboxRow(t).v = tx[t].v /\ OutboxRow(t).c = tx[t].c
        /\ InterviewOf[OutboxRow(t).v] = Iv(t)
        /\ Relayed(OutboxRow(t))
    BY <1>1, <1>2, <1>3 DEF OutboxRow, Event, Relayed, Iv
  <1>5. ASSUME NEW e \in Recorded, InterviewOf[e.v] = Iv(t)
        PROVE  e.seq < OutboxRow(t).seq /\ (e.op = "prompt" => e.seq + 1 < OutboxRow(t).seq)
    <2>1. e.seq + Count(e.op) - 1 <= lastSeq[Iv(t)]
      BY <1>5 DEF IInv, EventInv
    <2>2. e.seq \in Nat
      BY RecordedType DEF IInv
    <2> QED
      BY <1>1, <1>4, <2>1, <2>2 DEF Count
  <1>6. OutboxRow(t) \notin Recorded
    BY <1>1, <1>4, <1>5
  <1> QED
    BY <1>2, <1>4, <1>5, <1>6

(* What a commit records. *)
LEMMA CommitEffect ==
  ASSUME IInv, NEW t \in Workers, Commit(t)
  PROVE  /\ Recorded' = Recorded \cup {OutboxRow(t)}
         /\ \A v \in Invites : Delivered(v)' = Delivered(v)
         /\ outbox' = outbox \cup {OutboxRow(t)}
         /\ UNCHANGED <<purged, nextId, relay, log>>
         /\ lastSeq'[Iv(t)] = lastSeq[Iv(t)] + Count(tx[t].op)
         /\ \A i \in Interviews \ {Iv(t)} : lastSeq'[i] = lastSeq[i]
         /\ \A i \in Interviews : lastSeq'[i] >= lastSeq[i]
         /\ \A u \in Workers \ {t} : tx'[u] = tx[u]
  <1>1. lastSeq' = [lastSeq EXCEPT ![Iv(t)] = tx[t].first + Count(tx[t].op) - 1]
    BY DEF Commit, CommitTables
  <1>2. tx[t].first = lastSeq[Iv(t)] + 1
    BY DEF Commit, IInv, TxInv, TxOK
  <1>3. lastSeq \in [Interviews -> Nat] /\ Iv(t) \in Interviews
    BY TxType DEF IInv, TypeOK
  <1>4. /\ lastSeq'[Iv(t)] = lastSeq[Iv(t)] + Count(tx[t].op)
        /\ \A i \in Interviews \ {Iv(t)} : lastSeq'[i] = lastSeq[i]
        /\ \A i \in Interviews : lastSeq'[i] >= lastSeq[i]
    BY <1>1, <1>2, <1>3 DEF Count
  <1>5. /\ outbox' = outbox \cup {OutboxRow(t)} /\ log' = log
        /\ UNCHANGED <<purged, nextId, relay>>
    BY DEF Commit, CommitTables
  <1>6. \A v \in Invites : Delivered(v)' = Delivered(v)
    BY <1>5 DEF Delivered
  <1>7. Recorded' = Recorded \cup {OutboxRow(t)}
    BY <1>5, <1>6 DEF Recorded
  <1>8. tx \in [Workers -> Tx] /\ \A u \in Workers \ {t} : tx'[u] = tx[u]
    BY TxType DEF IInv, Commit
  <1> QED
    BY <1>4, <1>5, <1>6, <1>7, <1>8

(* Commit keeps the invariant. *)
LEMMA CommitStep ==
  ASSUME IInv, NEW t \in Workers, Commit(t), TypeOK'
  PROVE  IInv'
  <1> DEFINE n == OutboxRow(t)
  <1>1. tx[t].pc = "commit" /\ Holds(t)
    BY DEF Commit, IInv, LockInv
  <1>2. /\ n \in Event /\ n.seq = lastSeq[Iv(t)] + 1 /\ n.id = tx[t].id /\ n.id < nextId
        /\ n.op = tx[t].op /\ n.v = tx[t].v /\ n.c = tx[t].c
        /\ InterviewOf[n.v] = Iv(t) /\ Relayed(n)
        /\ \A e \in Recorded : InterviewOf[e.v] = Iv(t) =>
               /\ e.seq < n.seq
               /\ e.op = "prompt" => e.seq + 1 < n.seq
               /\ e.id < n.id
        /\ n \notin Recorded
    BY <1>1, NewRow
  <1>3. /\ Recorded' = Recorded \cup {n}
        /\ \A v \in Invites : Delivered(v)' = Delivered(v)
        /\ outbox' = outbox \cup {n}
        /\ UNCHANGED <<purged, nextId, relay, log>>
        /\ lastSeq'[Iv(t)] = lastSeq[Iv(t)] + Count(tx[t].op)
        /\ \A i \in Interviews \ {Iv(t)} : lastSeq'[i] = lastSeq[i]
        /\ \A i \in Interviews : lastSeq'[i] >= lastSeq[i]
        /\ \A u \in Workers \ {t} : tx'[u] = tx[u]
    BY CommitEffect
  <1>4. /\ Recorded \subseteq Event
        /\ \A v \in Invites : Delivered(v) \subseteq Recorded
        /\ \A e \in Event : /\ e.id \in Nat /\ e.seq \in Nat /\ e.v \in Invites
                            /\ InterviewOf[e.v] \in Interviews
                            /\ lastSeq[InterviewOf[e.v]] \in Nat
    BY RecordedType DEF IInv
  <1>5. /\ lastSeq' \in [Interviews -> Nat] /\ lastSeq \in [Interviews -> Nat]
        /\ nextId \in Nat /\ Iv(t) \in Interviews
    BY TxType DEF IInv, TypeOK
  <1> HIDE DEF n
  <1>6. LockInv'
    <2>1. CASE tx' = [tx EXCEPT ![t] = NoTx]
      BY <2>1, EndLocks DEF IInv
    <2>2. CASE tx' = [tx EXCEPT ![t].pc = "stream", ![t].locks = {}]
      <3>1. tx'[t].v = tx[t].v /\ tx'[t].pc = "stream" /\ tx'[t].locks = {}
        BY <2>2, TxType DEF IInv, Tx
      <3>2. tx'[t].locks \subseteq tx[t].locks \cup {}
        BY <3>1
      <3>3. \A i \in Interviews : <<"interview", i>> \in {} => Free(t, <<"interview", i>>)
        OBVIOUS
      <3> QED
        BY <1>3, <3>1, <3>2, <3>3, LockStep DEF IInv
    <2> QED
      BY <2>1, <2>2 DEF Commit
  <1>7. TxInv'
    <2>1. TxOK(t)'
      <3>1. CASE tx' = [tx EXCEPT ![t] = NoTx]
        BY <3>1, IdleOK, TxType DEF IInv
      <3>2. CASE tx[t].op = "prompt" /\ tx' = [tx EXCEPT ![t].pc = "stream", ![t].locks = {}]
        <4>1. /\ tx'[t].op = "prompt" /\ tx'[t].pc = "stream" /\ tx'[t].id = tx[t].id
              /\ tx'[t].v = tx[t].v /\ tx'[t].c = tx[t].c /\ tx'[t].first = tx[t].first
          BY <3>2, TxType DEF IInv, Tx
        <4>2. tx[t].first = n.seq
          BY <1>1, <1>2 DEF IInv, TxInv, TxOK
        <4>3. n \in Recorded'
          BY <1>3
        <4> QED
          BY <1>2, <3>2, <4>1, <4>2, <4>3 DEF TxOK
      <3> QED
        BY <3>1, <3>2 DEF Commit
    <2>2. ASSUME NEW u \in Workers \ {t} PROVE TxOK(u)'
      <3>1. tx'[u] = tx[u] /\ Iv(u)' = Iv(u) /\ TxOK(u) /\ Iv(u) \in Interviews
        BY <1>3, TxType DEF Iv, IInv, TxInv
      <3>2. tx[u].pc \in {"write", "commit"} => Iv(u) # Iv(t)
        BY <1>1, <1>5 DEF IInv, LockInv, Holds
      <3> QED
        BY <1>2, <1>3, <3>1, <3>2 DEF TxOK
    <2> QED
      BY <2>1, <2>2 DEF TxInv
  <1>8. EventInv'
    <2>1. \A v \in Invites : \A e \in Delivered(v)' : e.v = v
      BY <1>3 DEF IInv, EventInv
    <2>2. \A e \in outbox' : Relayed(e)
      BY <1>2, <1>3 DEF IInv, EventInv
    <2>3. \A e \in Recorded' : e.id < nextId'
      BY <1>2, <1>3 DEF IInv, EventInv
    <2>4. ASSUME NEW e \in Recorded'
          PROVE  /\ e.seq >= 1
                 /\ e.seq + Count(e.op) - 1 <= lastSeq'[InterviewOf[e.v]]
                 /\ ~Relayed(e) =>
                      \E p \in Recorded' : /\ p.op = "prompt" /\ p.id = e.id /\ p.v = e.v
                                           /\ p.c = e.c /\ p.seq + 1 = e.seq
      <3>1. CASE e = n
        BY <1>2, <1>3, <1>5, <3>1 DEF Count
      <3>2. CASE e \in Recorded
        <4>1. /\ e.seq >= 1
              /\ e.seq + Count(e.op) - 1 <= lastSeq[InterviewOf[e.v]]
          BY <3>2 DEF IInv, EventInv
        <4>2. lastSeq[InterviewOf[e.v]] <= lastSeq'[InterviewOf[e.v]]
              /\ e.seq \in Nat /\ lastSeq'[InterviewOf[e.v]] \in Nat
              /\ lastSeq[InterviewOf[e.v]] \in Nat
          BY <1>3, <1>4, <1>5, <3>2
        <4>3. e.seq + Count(e.op) - 1 <= lastSeq'[InterviewOf[e.v]]
          BY <4>1, <4>2 DEF Count
        <4>4. ~Relayed(e) =>
                 \E p \in Recorded : /\ p.op = "prompt" /\ p.id = e.id /\ p.v = e.v
                                     /\ p.c = e.c /\ p.seq + 1 = e.seq
          BY <3>2 DEF IInv, EventInv
        <4> QED
          BY <1>3, <4>1, <4>3, <4>4
      <3> QED
        BY <1>3, <3>1, <3>2
    <2>5. ASSUME NEW e \in Recorded', NEW f \in Recorded',
                 Relayed(e), Relayed(f), SameInterview(e, f)
          PROVE  /\ e.seq = f.seq => e = f
                 /\ e.seq < f.seq => e.id < f.id
                 /\ e.op = "prompt" => f.seq # e.seq + 1
      <3>1. CASE e = n /\ f = n
        BY <1>2, <1>5, <3>1
      <3>2. CASE e \in Recorded /\ f = n
        <4>1. InterviewOf[e.v] = Iv(t)
          BY <1>2, <2>5, <3>2 DEF SameInterview
        <4>2. e.seq \in Nat /\ n.seq \in Nat
          BY <1>2, <1>4, <3>2
        <4> QED
          BY <1>2, <3>2, <4>1, <4>2
      <3>3. CASE e = n /\ f \in Recorded
        <4>1. InterviewOf[f.v] = Iv(t)
          BY <1>2, <2>5, <3>3 DEF SameInterview
        <4>2. f.seq \in Nat /\ n.seq \in Nat
          BY <1>2, <1>4, <3>3
        <4> QED
          BY <1>2, <3>3, <4>1, <4>2
      <3>4. CASE e \in Recorded /\ f \in Recorded
        BY <2>5, <3>4 DEF IInv, EventInv
      <3> QED
        BY <1>3, <3>1, <3>2, <3>3, <3>4
    <2> QED
      BY <2>1, <2>2, <2>3, <2>4, <2>5 DEF EventInv, Relayed, SameInterview
  <1>9. RelayInv'
    <2>1. IsFiniteSet(outbox')
      BY <1>3, FS_AddElement DEF IInv, RelayInv
    <2>2. ASSUME NEW r \in Relays PROVE RelayOK(r)'
      <3>1. RelayOK(r) /\ relay'[r] = relay[r]
        BY <1>3 DEF IInv, RelayInv
      <3>2. \A e \in relay[r].batch : e \in Recorded /\ e.v \in Invites
        BY <1>4, <3>1 DEF RelayOK
      <3>3. ASSUME NEW e \in relay[r].batch, n.v = e.v PROVE ~(n.seq < e.seq)
        <4>1. InterviewOf[e.v] = Iv(t) /\ e.seq < n.seq
          BY <1>2, <3>2, <3>3
        <4>2. e.seq \in Nat /\ n.seq \in Nat
          BY <1>2, <1>4, <3>2
        <4> QED
          BY <4>1, <4>2
      <3>4. \A f \in Recorded : f.v \in Invites
        BY <1>4
      <3> QED
        BY <1>2, <1>3, <3>1, <3>2, <3>3, <3>4 DEF RelayOK, Relayed
    <2> QED
      BY <2>1, <2>2 DEF RelayInv
  <1>10. DeliveredInOrder'
    <2> SUFFICES ASSUME NEW e \in Recorded', NEW f \in Recorded',
                        e.v = f.v, e.seq < f.seq, Relayed(e), Relayed(f),
                        f \in Delivered(f.v)'
                 PROVE  e \in Delivered(e.v)'
      BY DEF DeliveredInOrder, Relayed
    <2>1. f \in Delivered(f.v) /\ f \in Recorded /\ f.v \in Invites
      BY <1>2, <1>3, <1>4
    <2>2. CASE e = n
      <3>1. InterviewOf[f.v] = Iv(t) /\ f.seq < n.seq
        BY <1>2, <2>1, <2>2
      <3>2. f.seq \in Nat /\ n.seq \in Nat
        BY <1>2, <1>4, <2>1
      <3> QED
        BY <2>2, <3>1, <3>2
    <2>3. CASE e \in Recorded
      BY <1>3, <2>1, <2>3 DEF IInv, DeliveredInOrder
    <2> QED
      BY <1>3, <2>2, <2>3
  <1>11. SequenceAccounted'
    <2> SUFFICES ASSUME NEW i \in Interviews, NEW k \in 1..lastSeq'[i]
                 PROVE  \E e \in Recorded' :
                           /\ InterviewOf[e.v] = i
                           /\ e.seq = k \/ (e.op = "prompt" /\ e.seq + 1 = k)
      BY DEF SequenceAccounted
    <2>1. CASE k \in 1..lastSeq[i]
      BY <1>3, <2>1 DEF IInv, SequenceAccounted
    <2>2. CASE k \notin 1..lastSeq[i]
      <3>1. i = Iv(t)
        BY <1>3, <2>2
      <3>2. k = n.seq \/ (n.op = "prompt" /\ k = n.seq + 1)
        <4>1. lastSeq'[Iv(t)] = lastSeq[Iv(t)] + Count(n.op) /\ lastSeq[Iv(t)] \in Nat
          BY <1>2, <1>3, <1>5
        <4> QED
          BY <1>2, <1>5, <2>2, <3>1, <4>1 DEF Count
      <3> QED
        BY <1>2, <1>3, <3>1, <3>2
    <2> QED
      BY <2>1, <2>2
  <1> QED
    BY <1>6, <1>7, <1>8, <1>9, <1>10, <1>11 DEF IInv

(* What a completion adds: an event of Kafka under the reserved number. *)
LEMMA EmitStep ==
  ASSUME IInv, NEW t \in Workers, EmitCompletion(t), TypeOK'
  PROVE  IInv'
  <1>1. tx[t].pc = "stream" /\ tx[t].v \in Invites /\ tx[t].c \in Nat
        /\ tx[t].first \in Nat /\ tx[t].id \in Nat
    BY TxType DEF IInv, EmitCompletion
  <1>2. PICK p \in Recorded : /\ p.op = "prompt" /\ p.id = tx[t].id /\ p.v = tx[t].v
                              /\ p.c = tx[t].c /\ p.seq = tx[t].first
    BY <1>1 DEF IInv, TxInv, TxOK
  <1>n. PICK n : n = CompletionOf(t)
    OBVIOUS
  <1>3. /\ n \in Event /\ n.op = "completion" /\ n.id = p.id /\ n.v = p.v /\ n.c = p.c
        /\ n.seq = p.seq + 1 /\ ~Relayed(n) /\ n.v \in Invites /\ n.v = tx[t].v
    BY <1>1, <1>2, <1>n DEF CompletionOf, Event, Relayed
  <1>4. /\ log \in [Invites -> Seq(Event)]
        /\ log' = [log EXCEPT ![n.v] = Append(@, n)]
        /\ UNCHANGED <<lastSeq, purged, outbox, nextId, relay>>
        /\ tx' = [tx EXCEPT ![t] = NoTx] \/ tx' = tx
    BY <1>3, <1>n DEF IInv, TypeOK, EmitCompletion, tableVars
  <1>5. /\ \A v \in Invites \ {n.v} : Delivered(v)' = Delivered(v)
        /\ Delivered(n.v)' = Delivered(n.v) \cup {n}
    <2>0. log[n.v] \in Seq(Event) /\ n \in Event
      BY <1>3, <1>4
    <2>1. Range(Append(log[n.v], n)) = Range(log[n.v]) \cup {n}
      BY <2>0, RangeAppend
    <2> QED
      BY <1>3, <1>4, <2>1 DEF Delivered
  <1>6. Recorded' = Recorded \cup {n}
    <2>0. /\ \A e : e \in Recorded <=> e \in outbox \/ \E v \in Invites : e \in Delivered(v)
          /\ \A e : e \in Recorded' <=> e \in outbox' \/ \E v \in Invites : e \in Delivered(v)'
      BY DEF Recorded
    <2>a. \A v \in Invites : \A e : e \in Delivered(v)' <=> e \in Delivered(v) \/ (v = n.v /\ e = n)
      BY <1>3, <1>5
    <2>b. outbox' = outbox /\ n.v \in Invites
      BY <1>3, <1>4
    <2>1. \A e : e \in Recorded' <=> e \in Recorded \/ e = n
      BY <2>0, <2>a, <2>b
    <2> QED
      BY <2>1
  <1>7. \A e \in Recorded' : Relayed(e) => e \in Recorded
    BY <1>3, <1>6
  <1>8. \A e \in Recorded : /\ e.id \in Nat /\ e.seq \in Nat /\ e.v \in Invites
                            /\ lastSeq[InterviewOf[e.v]] \in Nat
    BY RecordedType DEF IInv
  <1>9. \A e \in Recorded : Relayed(e) => (e \in Delivered(e.v)' <=> e \in Delivered(e.v))
    BY <1>3, <1>5, <1>8
  <1>10. LockInv'
    <2>1. CASE tx' = [tx EXCEPT ![t] = NoTx]
      BY <2>1, EndLocks DEF IInv
    <2>2. CASE tx' = tx
      BY <2>2 DEF IInv, LockInv, Holds, Iv
    <2> QED
      BY <1>4, <2>1, <2>2
  <1>11. TxInv'
    <2>1. ASSUME NEW u \in Workers, tx'[u] = tx[u] PROVE TxOK(u)'
      <3>1. Iv(u)' = Iv(u) /\ TxOK(u)
        BY <2>1 DEF Iv, IInv, TxInv
      <3> QED
        BY <1>2, <1>3, <1>4, <1>6, <2>1, <3>1 DEF TxOK
    <2>2. CASE tx' = [tx EXCEPT ![t] = NoTx]
      <3>1. TxOK(t)'
        BY <2>2, IdleOK, TxType DEF IInv
      <3>2. \A u \in Workers \ {t} : tx'[u] = tx[u]
        BY <2>2, TxType DEF IInv
      <3> QED
        BY <2>1, <3>1, <3>2 DEF TxInv
    <2>3. CASE tx' = tx
      BY <2>1, <2>3 DEF TxInv
    <2> QED
      BY <1>4, <2>2, <2>3
  <1>12. EventInv'
    <2>1. \A v \in Invites : \A e \in Delivered(v)' : e.v = v
      BY <1>3, <1>5 DEF IInv, EventInv
    <2>2. \A e \in outbox' : Relayed(e)
      BY <1>4 DEF IInv, EventInv
    <2>3. \A e \in Recorded' : e.id < nextId'
      BY <1>2, <1>3, <1>4, <1>6 DEF IInv, EventInv
    <2>4. ASSUME NEW e \in Recorded'
          PROVE  /\ e.seq >= 1
                 /\ e.seq + Count(e.op) - 1 <= lastSeq'[InterviewOf[e.v]]
                 /\ ~Relayed(e) =>
                      \E q \in Recorded' : /\ q.op = "prompt" /\ q.id = e.id /\ q.v = e.v
                                           /\ q.c = e.c /\ q.seq + 1 = e.seq
      <3>1. CASE e = n
        <4>1. p.seq >= 1 /\ p.seq + 2 - 1 <= lastSeq[InterviewOf[p.v]]
          BY <1>2 DEF IInv, EventInv, Count
        <4>2. Count(n.op) = 1
          BY <1>3 DEF Count
        <4>3. p.seq \in Nat /\ lastSeq[InterviewOf[p.v]] \in Nat
          BY <1>8
        <4>4. n.seq >= 1 /\ n.seq + 1 - 1 <= lastSeq'[InterviewOf[n.v]]
          BY <1>3, <1>4, <4>1, <4>3
        <4> QED
          BY <1>2, <1>3, <1>6, <3>1, <4>2, <4>4
      <3>2. CASE e \in Recorded
        BY <1>4, <1>6, <3>2 DEF IInv, EventInv
      <3> QED
        BY <1>6, <3>1, <3>2
    <2>5. \A e, f \in Recorded' :
             Relayed(e) /\ Relayed(f) /\ SameInterview(e, f) =>
                 /\ e.seq = f.seq => e = f
                 /\ e.seq < f.seq => e.id < f.id
                 /\ e.op = "prompt" => f.seq # e.seq + 1
      BY <1>7 DEF IInv, EventInv
    <2> QED
      BY <2>1, <2>2, <2>3, <2>4, <2>5 DEF EventInv, Relayed, SameInterview
  <1>13. RelayInv'
    <2>1. IsFiniteSet(outbox')
      BY <1>4 DEF IInv, RelayInv
    <2>2. ASSUME NEW r \in Relays PROVE RelayOK(r)'
      <3>1. RelayOK(r) /\ relay'[r] = relay[r]
        BY <1>4 DEF IInv, RelayInv
      <3>2. \A e \in relay[r].batch : e \in Recorded /\ Relayed(e) /\ e.v \in Invites
        BY <1>8, <3>1 DEF RelayOK
      <3> QED
        BY <1>6, <1>7, <1>9, <3>1, <3>2 DEF RelayOK, Relayed
    <2> QED
      BY <2>1, <2>2 DEF RelayInv
  <1>14. DeliveredInOrder'
    BY <1>7, <1>8, <1>9 DEF IInv, DeliveredInOrder, Relayed
  <1>15. SequenceAccounted'
    BY <1>4, <1>6 DEF IInv, SequenceAccounted
  <1> QED
    BY <1>10, <1>11, <1>12, <1>13, <1>14, <1>15 DEF IInv

(* A purge that commits holds the interview's row, so no transaction on    *)
(* that interview is between its allocation and its commit.                *)
LEMMA PurgeStep ==
  ASSUME IInv, NEW t \in Workers, PurgeCommit(t), TypeOK'
  PROVE  IInv'
  <1>1. tx[t].pc = "delete" /\ Holds(t) /\ purged' = purged \cup {Iv(t)}
    BY DEF PurgeCommit, IInv, LockInv
  <1>2. \A u \in Workers \ {t} : tx[u].pc \in {"write", "commit"} => Iv(u) # Iv(t)
    <2>1. Iv(t) \in Interviews
      BY TxType DEF IInv
    <2> QED
      BY <1>1, <2>1 DEF IInv, LockInv, Holds
  <1>3. tx' = [tx EXCEPT ![t] = NoTx] /\ UNCHANGED <<outbox, log, lastSeq, relay, nextId>>
    BY DEF PurgeCommit
  <1> QED
    BY <1>1, <1>2, <1>3, EndStep

-----------------------------------------------------------------------------
(* Steps of the relays.                                                    *)

(* The rows a Drain reads are closed downwards by id. *)
LEMMA FirstRowsClosed ==
  ASSUME NEW S \in SUBSET Event, IsFiniteSet(S), NEW m \in Nat,
         NEW e \in FirstRows(S, m), NEW f \in S, f.id < e.id
  PROVE  f \in FirstRows(S, m)
  <1> DEFINE Below(x) == {q \in S : q.id < x.id}
  <1>1. \A x \in S : x.id \in Nat
    BY DEF Event
  <1>2. e \in S /\ Cardinality(Below(e)) < m
    BY DEF FirstRows
  <1>3. Below(f) \subseteq Below(e)
    BY <1>1, <1>2
  <1>4. IsFiniteSet(Below(e))
    BY FS_Subset
  <1>5. /\ IsFiniteSet(Below(f)) /\ Cardinality(Below(f)) <= Cardinality(Below(e))
    BY <1>3, <1>4, FS_Subset
  <1>6. Cardinality(Below(f)) \in Nat /\ Cardinality(Below(e)) \in Nat
    BY <1>4, <1>5, FS_CardinalityType
  <1>7. Cardinality(Below(f)) < m
    BY <1>2, <1>5, <1>6
  <1> QED
    BY <1>7 DEF FirstRows

(* A step of relay r that records and sends nothing. *)
LEMMA RelayStep ==
  ASSUME IInv, NEW r \in Relays, TypeOK', RelayOK(r)',
         UNCHANGED <<lastSeq, purged, outbox, nextId, tx, log>>,
         \A q \in Relays \ {r} : relay'[q] = relay[q]
  PROVE  IInv'
  <1>1. Recorded' = Recorded /\ \A v \in Invites : Delivered(v)' = Delivered(v)
    BY SameRecorded
  <1>2. LockInv'
    BY DEF IInv, LockInv, Holds, Iv
  <1>3. TxInv'
    BY <1>1 DEF IInv, TxInv, TxOK, Iv
  <1>4. EventInv' /\ DeliveredInOrder' /\ SequenceAccounted'
    <2>1. nextId' \in Nat /\ nextId <= nextId'
      BY DEF IInv, TypeOK
    <2> QED
      BY <2>1, EventFrame DEF IInv
  <1>5. RelayInv'
    <2>1. ASSUME NEW q \in Relays \ {r} PROVE RelayOK(q)'
      <3>1. RelayOK(q) /\ relay'[q] = relay[q]
        BY DEF IInv, RelayInv
      <3>2. \A e \in Recorded : e.v \in Invites
        BY RecordedType DEF IInv
      <3>3. \A e \in relay[q].sent : e.v \in Invites
        BY RelayType DEF IInv, Event
      <3> QED
        BY <1>1, <3>1, <3>2, <3>3 DEF RelayOK, Relayed
    <2> QED
      BY <2>1 DEF IInv, RelayInv
  <1> QED
    BY <1>2, <1>3, <1>4, <1>5 DEF IInv

(* Drain reads the oldest rows. *)
LEMMA DrainBeginStep ==
  ASSUME IInv, NEW r \in Relays, DrainBegin(r), TypeOK'
  PROVE  IInv'
  <1>1. /\ relay'[r].batch = FirstRows(outbox, BatchSize)
        /\ relay'[r].sent = {}
        /\ \A q \in Relays \ {r} : relay'[q] = relay[q]
    BY DEF DrainBegin, IInv, TypeOK, NoDrain
  <1>2. UNCHANGED <<lastSeq, purged, outbox, nextId, tx, log>>
    BY DEF DrainBegin, tableVars
  <1>3. Recorded' = Recorded /\ \A v \in Invites : Delivered(v)' = Delivered(v)
    BY <1>2, SameRecorded
  <1>4. FirstRows(outbox, BatchSize) \subseteq outbox
    BY DEF FirstRows
  <1>5. \A e \in outbox : e \in Recorded /\ Relayed(e)
    BY DEF IInv, EventInv, Recorded
  <1>6. ASSUME NEW e \in FirstRows(outbox, BatchSize), NEW f \in Recorded,
               Relayed(f), f.v = e.v, f.seq < e.seq
        PROVE  f \in FirstRows(outbox, BatchSize) \/ f \in Delivered(f.v)'
    <2>1. e \in Recorded /\ Relayed(e) /\ f.v \in Invites
      BY <1>4, <1>5, RecordedType DEF IInv
    <2>2. f.id < e.id
      BY <1>6, <2>1 DEF IInv, EventInv, SameInterview
    <2>3. CASE f \in outbox
      <3>1. outbox \in SUBSET Event /\ IsFiniteSet(outbox) /\ BatchSize \in Nat
        BY BatchSizeAssumption DEF IInv, TypeOK, RelayInv
      <3> QED
        BY <2>2, <2>3, <3>1, FirstRowsClosed
    <2>4. CASE f \notin outbox
      <3>1. PICK v \in Invites : f \in Delivered(v)
        BY <2>4 DEF Recorded
      <3>2. f.v = v
        BY <3>1 DEF IInv, EventInv
      <3> QED
        BY <1>3, <3>1, <3>2
    <2> QED
      BY <2>3, <2>4
  <1>7. RelayOK(r)'
    BY <1>1, <1>3, <1>4, <1>5, <1>6 DEF RelayOK, Relayed
  <1> QED
    BY <1>1, <1>2, <1>7, RelayStep

(* A drain that ends without deleting anything, or loses its lock. *)
LEMMA DrainEndStep ==
  ASSUME IInv, NEW r \in Relays, DrainFail(r) \/ LockLost(r) \/ DrainAbandon(r), TypeOK'
  PROVE  IInv'
  <1>1. /\ UNCHANGED <<lastSeq, purged, outbox, nextId, tx, log>>
        /\ relay' = [relay EXCEPT ![r] = NoDrain] \/ relay' = [relay EXCEPT ![r].locked = FALSE]
    BY DEF DrainFail, LockLost, DrainAbandon, tableVars
  <1>2. /\ \A q \in Relays \ {r} : relay'[q] = relay[q]
        /\ \/ relay'[r].batch = {} /\ relay'[r].sent = {}
           \/ relay'[r].batch = relay[r].batch /\ relay'[r].sent = relay[r].sent
    BY <1>1 DEF IInv, TypeOK, NoDrain
  <1>3. Recorded' = Recorded /\ \A v \in Invites : Delivered(v)' = Delivered(v)
    BY <1>1, SameRecorded
  <1>4. RelayOK(r)
    BY DEF IInv, RelayInv
  <1>5. RelayOK(r)'
    <2>1. \A e \in Recorded : e.v \in Invites
      BY RecordedType DEF IInv
    <2>2. \A e \in relay[r].sent : e.v \in Invites
      BY RelayType DEF IInv, Event
    <2> QED
      BY <1>2, <1>3, <1>4, <2>1, <2>2 DEF RelayOK, Relayed
  <1> QED
    BY <1>1, <1>2, <1>5, RelayStep

(* What a write to Kafka changes: the event becomes delivered, nothing new *)
(* is recorded, and every earlier event of its session was delivered.      *)
LEMMA PublishEffect ==
  ASSUME IInv, NEW r \in Relays, NEW e \in relay[r].batch, NextOfKey(r, e),
         log' = [log EXCEPT ![e.v] = Append(@, e)], UNCHANGED outbox
  PROVE  /\ e \in Recorded /\ Relayed(e) /\ e.v \in Invites
         /\ \A v \in Invites \ {e.v} : Delivered(v)' = Delivered(v)
         /\ Delivered(e.v)' = Delivered(e.v) \cup {e}
         /\ Recorded' = Recorded
         /\ \A f \in Recorded : Relayed(f) /\ f.v = e.v /\ f.seq < e.seq =>
               f \in Delivered(f.v)
  <1>1. RelayOK(r)
    BY DEF IInv, RelayInv
  <1>2. e \in Recorded /\ Relayed(e)
    BY <1>1 DEF RelayOK
  <1>3. e \in Event /\ e.v \in Invites
    BY <1>2, RecordedType DEF IInv
  <1>4. log \in [Invites -> Seq(Event)]
    BY DEF IInv, TypeOK
  <1>5. Range(Append(log[e.v], e)) = Range(log[e.v]) \cup {e}
    BY <1>3, <1>4, RangeAppend
  <1>6. /\ \A v \in Invites \ {e.v} : Delivered(v)' = Delivered(v)
        /\ Delivered(e.v)' = Delivered(e.v) \cup {e}
    BY <1>3, <1>4, <1>5 DEF Delivered
  <1>7. Recorded' = Recorded
    <2>1. \A x : x \in Recorded' <=> x \in Recorded \/ x = e
      BY <1>3, <1>6 DEF Recorded
    <2> QED
      BY <1>2, <2>1
  <1>8. ASSUME NEW f \in Recorded, Relayed(f), f.v = e.v, f.seq < e.seq
        PROVE  f \in Delivered(f.v)
    <2>1. f \in relay[r].batch \/ f \in Delivered(f.v)
      BY <1>1, <1>8 DEF RelayOK
    <2>2. CASE f \in relay[r].batch \ relay[r].sent
      <3>1. e.id <= f.id
        BY <1>8, <2>2 DEF NextOfKey
      <3>2. f.id < e.id
        BY <1>2, <1>8 DEF IInv, EventInv, SameInterview
      <3>3. e.id \in Nat /\ f.id \in Nat
        BY <1>2, RecordedType DEF IInv
      <3> QED
        BY <3>1, <3>2, <3>3
    <2>3. CASE f \in relay[r].sent
      BY <1>1, <2>3 DEF RelayOK
    <2> QED
      BY <2>1, <2>2, <2>3
  <1> QED
    BY <1>2, <1>3, <1>6, <1>7, <1>8

(* Publish keeps the invariant. *)
LEMMA PublishStep ==
  ASSUME IInv, NEW r \in Relays, Publish(r), TypeOK'
  PROVE  IInv'
  <1>1. PICK e \in relay[r].batch :
           /\ NextOfKey(r, e)
           /\ log' = [log EXCEPT ![e.v] = Append(@, e)]
           /\ relay' = [relay EXCEPT ![r].sent = @ \cup {e}]
           /\ UNCHANGED <<tableVars, outbox, nextId, tx, requests, failures>>
    BY DEF Publish
  <1>2. UNCHANGED <<lastSeq, purged, outbox, nextId, tx>>
    BY <1>1 DEF tableVars
  <1>3. /\ e \in Recorded /\ Relayed(e) /\ e.v \in Invites
        /\ \A v \in Invites \ {e.v} : Delivered(v)' = Delivered(v)
        /\ Delivered(e.v)' = Delivered(e.v) \cup {e}
        /\ Recorded' = Recorded
        /\ \A f \in Recorded : Relayed(f) /\ f.v = e.v /\ f.seq < e.seq =>
              f \in Delivered(f.v)
    BY <1>1, <1>2, PublishEffect
  <1>4. /\ relay'[r].batch = relay[r].batch /\ relay'[r].sent = relay[r].sent \cup {e}
        /\ \A q \in Relays \ {r} : relay'[q] = relay[q]
    BY <1>1 DEF IInv, TypeOK
  <1>5. \A f \in Recorded : f.v \in Invites
    BY RecordedType DEF IInv
  <1>6. \A f : f.v \in Invites => (f \in Delivered(f.v)' <=> f \in Delivered(f.v) \/ f = e)
    BY <1>3
  <1>7. LockInv'
    BY <1>2 DEF IInv, LockInv, Holds, Iv
  <1>8. TxInv'
    BY <1>2, <1>3 DEF IInv, TxInv, TxOK, Iv
  <1>9. EventInv'
    <2>1. \A v \in Invites : \A f \in Delivered(v)' : f.v = v
      BY <1>3 DEF IInv, EventInv
    <2> QED
      BY <1>2, <1>3, <2>1 DEF IInv, EventInv, Relayed, SameInterview
  <1>10. RelayInv'
    <2>1. ASSUME NEW q \in Relays PROVE RelayOK(q)'
      <3>1. /\ relay'[q].batch = relay[q].batch
            /\ \A f \in relay'[q].sent :
                  f \in relay[q].sent \/ (f = e /\ e \in relay[q].batch)
        <4>1. CASE q = r
          BY <1>4, <4>1
        <4>2. CASE q # r
          BY <1>4, <4>2
        <4> QED
          BY <4>1, <4>2
      <3>2. RelayOK(q)
        BY DEF IInv, RelayInv
      <3>3. \A f \in relay[q].sent : f.v \in Invites
        BY RelayType DEF IInv, Event
      <3>4. relay'[q].sent \subseteq relay'[q].batch
        BY <3>1, <3>2 DEF RelayOK
      <3>5. \A f \in relay'[q].sent : f \in Delivered(f.v)'
        BY <1>3, <1>6, <3>1, <3>2, <3>3 DEF RelayOK
      <3>6. \A f \in relay'[q].batch : f \in Recorded' /\ Relayed(f)
        BY <1>3, <3>1, <3>2 DEF RelayOK
      <3>7. \A g \in relay'[q].batch, f \in Recorded' :
               Relayed(f) /\ f.v = g.v /\ f.seq < g.seq =>
                   f \in relay'[q].batch \/ f \in Delivered(f.v)'
        BY <1>3, <1>5, <1>6, <3>1, <3>2 DEF RelayOK
      <3> QED
        BY <3>4, <3>5, <3>6, <3>7 DEF RelayOK, Relayed
    <2> QED
      BY <1>2, <2>1 DEF IInv, RelayInv
  <1>11. DeliveredInOrder'
    <2> SUFFICES ASSUME NEW g \in Recorded, NEW f \in Recorded,
                        g.v = f.v, g.seq < f.seq, Relayed(g), Relayed(f),
                        f \in Delivered(f.v)'
                 PROVE  g \in Delivered(g.v)'
      BY <1>3 DEF DeliveredInOrder, Relayed
    <2>1. CASE f = e
      BY <1>3, <1>5, <1>6, <2>1
    <2>2. CASE f \in Delivered(f.v)
      BY <1>5, <1>6, <2>2 DEF IInv, DeliveredInOrder
    <2> QED
      BY <1>5, <1>6, <2>1, <2>2
  <1>12. SequenceAccounted'
    BY <1>2, <1>3 DEF IInv, SequenceAccounted
  <1> QED
    BY <1>7, <1>8, <1>9, <1>10, <1>11, <1>12 DEF IInv

(* A batch is deleted once all of it is in Kafka, so nothing recorded is   *)
(* lost.                                                                   *)
LEMMA DrainCommitEffect ==
  ASSUME IInv, NEW r \in Relays, DrainCommit(r)
  PROVE  /\ outbox' = outbox \ relay[r].batch
         /\ relay' = [relay EXCEPT ![r] = NoDrain]
         /\ UNCHANGED <<lastSeq, purged, nextId, tx, log>>
         /\ \A v \in Invites : Delivered(v)' = Delivered(v)
         /\ Recorded' = Recorded
  <1>1. /\ outbox' = outbox \ relay[r].batch /\ relay[r].sent = relay[r].batch
        /\ relay' = [relay EXCEPT ![r] = NoDrain]
        /\ UNCHANGED <<lastSeq, purged, nextId, tx, log>>
    BY DEF DrainCommit, DrainDone, tableVars
  <1>2. \A v \in Invites : Delivered(v)' = Delivered(v)
    BY <1>1 DEF Delivered
  <1>3. \A e \in relay[r].batch : e \in Delivered(e.v) /\ e.v \in Invites
    BY <1>1, RelayType DEF IInv, RelayInv, RelayOK, Event
  <1>4. \A x : x \in Recorded' <=> x \in Recorded
    BY <1>1, <1>2, <1>3 DEF Recorded
  <1> QED
    BY <1>1, <1>2, <1>4

(* DrainCommit keeps the invariant. *)
LEMMA DrainCommitStep ==
  ASSUME IInv, NEW r \in Relays, DrainCommit(r), TypeOK'
  PROVE  IInv'
  <1>1. /\ outbox' = outbox \ relay[r].batch
        /\ relay' = [relay EXCEPT ![r] = NoDrain]
        /\ UNCHANGED <<lastSeq, purged, nextId, tx, log>>
    BY DrainCommitEffect
  <1>2. \A v \in Invites : Delivered(v)' = Delivered(v)
    BY DrainCommitEffect
  <1>4. Recorded' = Recorded
    BY DrainCommitEffect
  <1>5. \A e \in Recorded : e.v \in Invites
    BY RecordedType DEF IInv
  <1>6. LockInv'
    BY <1>1 DEF IInv, LockInv, Holds, Iv
  <1>7. TxInv'
    BY <1>1, <1>4 DEF IInv, TxInv, TxOK, Iv
  <1>8. EventInv'
    BY <1>1, <1>2, <1>4 DEF IInv, EventInv, Relayed, SameInterview
  <1>9. RelayInv'
    <2>1. IsFiniteSet(outbox')
      BY <1>1, FS_Subset DEF IInv, RelayInv
    <2>2. ASSUME NEW q \in Relays PROVE RelayOK(q)'
      <3>1. relay'[q] = relay[q] \/ (relay'[q].batch = {} /\ relay'[q].sent = {})
        BY <1>1 DEF IInv, TypeOK, NoDrain
      <3>2. RelayOK(q)
        BY DEF IInv, RelayInv
      <3>3. \A f \in relay[q].sent : f.v \in Invites
        BY RelayType DEF IInv, Event
      <3> QED
        BY <1>2, <1>4, <1>5, <3>1, <3>2, <3>3 DEF RelayOK, Relayed
    <2> QED
      BY <2>1, <2>2 DEF RelayInv
  <1>10. DeliveredInOrder'
    BY <1>2, <1>4, <1>5 DEF IInv, DeliveredInOrder, Relayed
  <1>11. SequenceAccounted'
    BY <1>1, <1>4 DEF IInv, SequenceAccounted
  <1> QED
    BY <1>6, <1>7, <1>8, <1>9, <1>10, <1>11 DEF IInv

-----------------------------------------------------------------------------
(* The invariant.                                                          *)

(* The initial state satisfies the invariant. *)
LEMMA InitInv == Init => IInv
<1> SUFFICES ASSUME Init PROVE IInv
  OBVIOUS
<1>1. TypeOK
  <2>1. tx \in [Workers -> Tx]
    BY NoTxType DEF Init
  <2>2. relay \in [Relays -> [batch : SUBSET Event, sent : SUBSET Event, locked : BOOLEAN]]
    BY DEF Init, NoDrain
  <2>3. log \in [Invites -> Seq(Event)]
    BY DEF Init
  <2> QED
    BY <2>1, <2>2, <2>3 DEF Init, TypeOK
<1>2. \A v \in Invites : Delivered(v) = {}
  BY DEF Init, Delivered, Range
<1>3. Recorded = {}
  BY <1>2 DEF Init, Recorded
<1>4. \A t \in Workers : tx[t] = NoTx
  BY DEF Init
<1>5. LockInv
  BY <1>4, NoTxType DEF LockInv
<1>6. TxInv
  BY <1>4, NoTxType DEF TxInv, TxOK
<1>7. EventInv
  BY <1>2, <1>3 DEF EventInv, Init
<1>8. RelayInv
  <2>1. IsFiniteSet(outbox)
    BY FS_EmptySet DEF Init
  <2> QED
    BY <2>1 DEF RelayInv, RelayOK, Init, NoDrain
<1>9. DeliveredInOrder
  BY <1>3 DEF DeliveredInOrder
<1>10. SequenceAccounted
  BY DEF SequenceAccounted, Init
<1> QED
  BY <1>1, <1>5, <1>6, <1>7, <1>8, <1>9, <1>10 DEF IInv

(* Each statement, and each way a transaction ends, keeps the invariant. *)
LEMMA WorkerStep ==
  ASSUME IInv, TypeOK', NEW t \in Workers,
         Begin(t) \/ Statement(t) \/ Abort(t) \/ DeadlockAbort(t)
  PROVE  IInv'
<1>1. CASE Begin(t)
  BY <1>1, BeginStep
<1>2. CASE ConsumeInvite(t)
  <2>1. \A i \in Interviews : <<"interview", i>> \notin {<<"invite", tx[t].v>>}
    OBVIOUS
  <2>2. {<<"invite", tx[t].v>>} \in SUBSET Token
    BY TokenType DEF IInv
  <2> QED
    BY <1>2, <2>1, <2>2, AdvanceStep, PcType DEF ConsumeInvite
<1>3. CASE AdvanceDiff(t)
  <2>1. \A i \in Interviews : <<"interview", i>> \notin {<<"session", tx[t].v>>}
    OBVIOUS
  <2>2. {<<"session", tx[t].v>>} \in SUBSET Token
    BY TokenType DEF IInv
  <2> QED
    BY <1>3, <2>1, <2>2, AdvanceStep, PcType DEF AdvanceDiff
<1>4. CASE InsertScore(t)
  <2>1. \A i \in Interviews : <<"interview", i>> \notin {<<"score", tx[t].v>>}
    OBVIOUS
  <2>2. {<<"score", tx[t].v>>} \in SUBSET Token
    BY TokenType DEF IInv
  <2> QED
    BY <1>4, <2>1, <2>2, AdvanceStep, PcType DEF InsertScore
<1>5. CASE CheckForeignKeys(t)
  <2>1. \A i \in Interviews : <<"interview", i>> \notin {<<"fk", tx[t].v>>}
    OBVIOUS
  <2>2. {<<"fk", tx[t].v>>} \in SUBSET Token
    BY TokenType DEF IInv
  <2> QED
    BY <1>5, <2>1, <2>2, AdvanceStep, PcType DEF CheckForeignKeys
<1>6. CASE AllocateSequence(t)
  BY <1>6, AllocateStep
<1>7. CASE InsertOutbox(t)
  BY <1>7, InsertStep
<1>8. CASE Commit(t)
  BY <1>8, CommitStep
<1>9. CASE EmitCompletion(t)
  BY <1>9, EmitStep
<1>10. CASE LoseCompletion(t)
  BY <1>10, EndStep DEF LoseCompletion, tableVars
<1>11. CASE PurgeLock(t)
  <2>1. \A i \in Interviews :
           <<"interview", i>> \in {<<"interview", Iv(t)>>, <<"purge", Iv(t)>>} =>
               Free(t, <<"interview", i>>)
    BY <1>11 DEF PurgeLock
  <2>2. {<<"interview", Iv(t)>>, <<"purge", Iv(t)>>} \in SUBSET Token
    BY TokenType DEF IInv
  <2> QED
    BY <1>11, <2>1, <2>2, AdvanceStep, PcType DEF PurgeLock
<1>12. CASE DeleteExternal(t)
  <2>1. Holds(t)
    BY <1>12 DEF DeleteExternal, IInv, LockInv
  <2>2. \A i \in Interviews : <<"interview", i>> \in {} => Free(t, <<"interview", i>>)
    OBVIOUS
  <2>3. {} \in SUBSET Token
    OBVIOUS
  <2> QED
    BY <1>12, <2>1, <2>2, <2>3, AdvanceStep, PcType DEF DeleteExternal, Holds
<1>13. CASE PurgeRow(t)
  <2>1. PICK k \in RowsToDelete(t) : Advance(t, "delete", {k})
    BY <1>13 DEF PurgeRow
  <2>2. Holds(t) /\ tx[t].pc = "delete"
    BY <1>13 DEF PurgeRow, IInv, LockInv
  <2>3. {k} \in SUBSET Token
    BY DEF RowsToDelete, InvitesOf, Token
  <2>4. \A i \in Interviews : <<"interview", i>> \notin {k}
    BY DEF RowsToDelete
  <2> QED
    BY <2>1, <2>2, <2>3, <2>4, AdvanceStep, PcType DEF Holds
<1>14. CASE PurgeCommit(t)
  BY <1>14, PurgeStep
<1>15. CASE NoRows(t) \/ Abort(t) \/ DeadlockAbort(t)
  <2>1. RollBack(t)
    BY <1>15 DEF NoRows, Abort, DeadlockAbort
  <2> QED
    BY <2>1, EndStep DEF RollBack, tableVars
<1> QED
  BY <1>1, <1>2, <1>3, <1>4, <1>5, <1>6, <1>7, <1>8, <1>9, <1>10, <1>11, <1>12,
     <1>13, <1>14, <1>15 DEF Statement

(* The invariant is inductive. *)
LEMMA StepInv == IInv /\ [Next]_vars => IInv'
<1> SUFFICES ASSUME IInv, [Next]_vars PROVE IInv'
  OBVIOUS
<1>1. TypeOK'
  BY TypeStep DEF IInv
<1>2. ASSUME NEW t \in Workers, Begin(t) \/ Statement(t) \/ Abort(t) \/ DeadlockAbort(t)
      PROVE  IInv'
  BY <1>1, <1>2, WorkerStep
<1>3. ASSUME NEW r \in Relays, Drain(r) \/ DrainFail(r) \/ LockLost(r)
      PROVE  IInv'
  BY <1>1, <1>3, DrainBeginStep, PublishStep, DrainCommitStep, DrainEndStep DEF Drain
<1>4. ASSUME UNCHANGED vars PROVE IInv'
  <2>1. UNCHANGED <<outbox, log, lastSeq, purged, relay, nextId, tx>>
    BY <1>4 DEF vars
  <2>2. LockInv'
    BY <2>1 DEF IInv, LockInv, Holds, Iv
  <2>3. Recorded' = Recorded /\ nextId' \in Nat /\ nextId <= nextId'
    BY <2>1, SameRecorded DEF IInv, TypeOK
  <2>4. TxInv'
    BY <2>1, <2>3 DEF IInv, TxInv, TxOK, Iv
  <2>5. EventInv' /\ DeliveredInOrder' /\ SequenceAccounted' /\ RelayInv'
    BY <2>1, <2>3, EventFrame, RelayFrame DEF IInv
  <2> QED
    BY <1>1, <2>2, <2>4, <2>5 DEF IInv
<1> QED
  BY <1>2, <1>3, <1>4 DEF Next

(* The inductive invariant holds in every reachable state. *)
THEOREM Invariant == Spec => []IInv
  BY InitInv, StepInv, PTL DEF Spec

(* TypeOK holds in every reachable state. *)
THEOREM TypeCorrect == Spec => []TypeOK
  BY Invariant, PTL DEF IInv

(* No two events of an interview share a number and none is outside what   *)
(* the interview allocated, completions under reserved numbers included:   *)
(* what allocateSequence's row lock and promptEventCount are for.          *)
THEOREM NumbersUnique == Spec => []SequenceUnique
<1>1. IInv => SequenceUnique
  <2> SUFFICES ASSUME IInv, NEW e \in Recorded, NEW f \in Recorded
               PROVE  /\ e.seq \in 1..lastSeq[InterviewOf[e.v]]
                      /\ SameInterview(e, f) /\ e.seq = f.seq => e = f
    BY DEF SequenceUnique
  <2>1. /\ e \in Event /\ f \in Event /\ e.seq \in Nat
        /\ lastSeq[InterviewOf[e.v]] \in Nat
    BY RecordedType DEF IInv
  <2>2. e.seq \in 1..lastSeq[InterviewOf[e.v]]
    BY <2>1 DEF IInv, EventInv, Count
  <2>3. ASSUME NEW x \in Recorded, ~Relayed(x)
        PROVE  \E p \in Recorded : /\ p.op = "prompt" /\ Relayed(p) /\ p.id = x.id
                                   /\ p.v = x.v /\ p.c = x.c /\ p.seq + 1 = x.seq
    BY <2>3 DEF IInv, EventInv, Relayed
  <2>4. \A p, x \in Recorded :
           Relayed(p) /\ Relayed(x) /\ SameInterview(p, x) =>
               (p.seq = x.seq => p = x) /\ (p.op = "prompt" => x.seq # p.seq + 1)
    BY DEF IInv, EventInv
  <2>5. ASSUME SameInterview(e, f), e.seq = f.seq PROVE e = f
    <3>1. CASE Relayed(e) /\ Relayed(f)
      BY <2>4, <2>5, <3>1
    <3>2. CASE ~Relayed(e) /\ Relayed(f)
      BY <2>3, <2>4, <2>5, <3>2 DEF SameInterview
    <3>3. CASE Relayed(e) /\ ~Relayed(f)
      BY <2>3, <2>4, <2>5, <3>3 DEF SameInterview
    <3>4. CASE ~Relayed(e) /\ ~Relayed(f)
      <4>1. PICK p \in Recorded : /\ p.op = "prompt" /\ Relayed(p) /\ p.id = e.id
                                  /\ p.v = e.v /\ p.c = e.c /\ p.seq + 1 = e.seq
        BY <2>3, <3>4
      <4>2. PICK q \in Recorded : /\ q.op = "prompt" /\ Relayed(q) /\ q.id = f.id
                                  /\ q.v = f.v /\ q.c = f.c /\ q.seq + 1 = f.seq
        BY <2>3, <3>4
      <4>3. p.seq = q.seq /\ SameInterview(p, q)
        <5>1. p.seq \in Nat /\ q.seq \in Nat
          BY RecordedType DEF IInv
        <5> QED
          BY <2>5, <4>1, <4>2, <5>1 DEF SameInterview
      <4>4. p = q
        BY <2>4, <4>1, <4>2, <4>3
      <4>5. e.op = f.op /\ e.id = f.id /\ e.v = f.v /\ e.c = f.c
        BY <3>4, <4>1, <4>2, <4>4 DEF Relayed
      <4> QED
        BY <2>1, <2>5, <4>5 DEF Event
    <3> QED
      BY <3>1, <3>2, <3>3, <3>4
  <2> QED
    BY <2>2, <2>5
<1> QED
  BY <1>1, Invariant, PTL

(* No committed event is lost between the outbox and Kafka. *)
THEOREM NothingLost == Spec => []SequenceAccounted
  BY Invariant, PTL DEF IInv

(* Each session's outbox events reach Kafka in sequence order, whatever    *)
(* fails and however many relays write at once.                            *)
THEOREM DeliveryOrder == Spec => []DeliveredInOrder
  BY Invariant, PTL DEF IInv

(* A purge is final. *)
THEOREM PurgeFinal == Spec => NothingAfterPurge
<1> DEFINE A == /\ purged \subseteq purged'
                /\ \A i \in purged : lastSeq'[i] = lastSeq[i]
                /\ \A e \in outbox' \ outbox : InterviewOf[e.v] \notin purged
<1>1. ASSUME IInv, Next PROVE A
  <2>1. ASSUME NEW t \in Workers, Commit(t) PROVE A
    <3>1. /\ outbox' = outbox \cup {OutboxRow(t)} /\ purged' = purged
          /\ \A i \in Interviews \ {Iv(t)} : lastSeq'[i] = lastSeq[i]
      BY <1>1, <2>1, CommitEffect
    <3>2. tx[t].pc = "commit"
      BY <2>1 DEF Commit
    <3>3. Iv(t) \notin purged /\ InterviewOf[OutboxRow(t).v] = Iv(t) /\ purged \subseteq Interviews
      BY <1>1, <3>2, NewRow DEF IInv, TxInv, TxOK, TypeOK
    <3> QED
      BY <3>1, <3>3
  <2>2. ASSUME NEW t \in Workers, PurgeCommit(t) PROVE A
    BY <2>2 DEF PurgeCommit
  <2>3. ASSUME NEW r \in Relays, DrainCommit(r) PROVE A
    BY <2>3 DEF DrainCommit, tableVars
  <2>4. ASSUME UNCHANGED <<purged, lastSeq, outbox>> PROVE A
    BY <2>4, SMTT(30)
  <2>5. ASSUME NEW t \in Workers,
               \/ Begin(t) \/ Abort(t) \/ DeadlockAbort(t) \/ NoRows(t)
               \/ ConsumeInvite(t) \/ AdvanceDiff(t) \/ InsertScore(t)
               \/ CheckForeignKeys(t) \/ AllocateSequence(t) \/ InsertOutbox(t)
               \/ PurgeLock(t) \/ DeleteExternal(t) \/ PurgeRow(t)
               \/ EmitCompletion(t) \/ LoseCompletion(t)
        PROVE  UNCHANGED <<purged, lastSeq, outbox>>
    BY <2>5 DEF Begin, Abort, DeadlockAbort, NoRows, RollBack, ConsumeInvite,
       AdvanceDiff, InsertScore, CheckForeignKeys, AllocateSequence, InsertOutbox,
       PurgeLock, DeleteExternal, PurgeRow, EmitCompletion, LoseCompletion, Advance, tableVars
  <2>6. ASSUME NEW r \in Relays,
               DrainBegin(r) \/ Publish(r) \/ DrainAbandon(r) \/ DrainFail(r) \/ LockLost(r)
        PROVE  UNCHANGED <<purged, lastSeq, outbox>>
    BY <2>6 DEF DrainBegin, Publish, DrainAbandon, DrainFail, LockLost, tableVars
  <2> QED
    BY <1>1, <2>1, <2>2, <2>3, <2>4, <2>5, <2>6 DEF Next, Statement, Drain
<1>2. IInv /\ [Next]_vars => [A]_vars
  BY <1>1
<1> QED
  BY <1>2, Invariant, PTL DEF Spec, NothingAfterPurge

-----------------------------------------------------------------------------
(* The rows beside the events.                                             *)

(* StateMatchesEvents, invite by invite. *)
EventsOf(v, op) == {e \in Recorded : e.op = op /\ e.v = v}

Match(v) ==
    /\ v \in accepted <=> EventsOf(v, "start") # {}
    /\ v \in sessions <=> (v \in accepted /\ InterviewOf[v] \notin purged)
    /\ v \in scores <=> (EventsOf(v, "score") # {} /\ InterviewOf[v] \notin purged)
    /\ \A op \in {"start", "score"} : \A e, f \in EventsOf(v, op) : e = f
    /\ InterviewOf[v] \in purged => v \notin invites
    /\ \A e \in EventsOf(v, "diff") : e.c <= lastDiff[v]
    /\ lastDiff[v] > 0 => \E e \in EventsOf(v, "diff") : e.c = lastDiff[v]
    /\ \A e, f \in EventsOf(v, "diff") : e.c < f.c <=> e.seq < f.seq

(* The two say the same. *)
LEMMA Matches == StateMatchesEvents <=> \A v \in Invites : Match(v)
  BY DEF StateMatchesEvents, Match, EventsOf

(* The rows of the tables. *)
rows == <<purged, invites, accepted, sessions, lastDiff, scores>>

(* An invite whose rows and events do not change. *)
LEMMA MatchFrame ==
  ASSUME NEW v \in Invites, Match(v),
         \A op \in {"start", "score", "diff"} : EventsOf(v, op)' = EventsOf(v, op),
         v \in accepted' <=> v \in accepted, v \in sessions' <=> v \in sessions,
         v \in scores' <=> v \in scores, v \in invites' <=> v \in invites,
         InterviewOf[v] \in purged' <=> InterviewOf[v] \in purged,
         lastDiff'[v] = lastDiff[v]
  PROVE  Match(v)'
  BY DEF Match

(* A step that changes no row, and records nothing but completions. *)
(* The two say the same. *)
LEMMA MatchesFrame ==
  ASSUME StateMatchesEvents, UNCHANGED rows,
         \A e : e.op # "completion" => (e \in Recorded' <=> e \in Recorded)
  PROVE  StateMatchesEvents'
  <1>1. ASSUME NEW v \in Invites PROVE Match(v)'
    <2>1. \A op \in {"start", "score", "diff"} : EventsOf(v, op)' = EventsOf(v, op)
      BY DEF EventsOf
    <2> QED
      BY <2>1, MatchFrame, Matches DEF rows
  <1> QED
    BY <1>1, Matches DEF StateMatchesEvents, Match, EventsOf

(* A worker that takes rows nobody else holds. *)
LEMMA RowLockStep ==
  ASSUME RowLockInv, NEW t \in Workers, NEW locks,
         \A u \in Workers \ {t} : tx'[u] = tx[u],
         tx'[t].locks \subseteq tx[t].locks \cup locks,
         \A k \in {"invite", "session", "score"} \X Invites : k \in locks => Free(t, k),
         \A v \in Invites : <<"fk", v>> \in locks => Free(t, <<"purge", InterviewOf[v]>>),
         \A v \in Invites : <<"purge", InterviewOf[v]>> \in locks => Free(t, <<"fk", v>>)
  PROVE  RowLockInv'
  <1>1. ASSUME NEW u \in Workers, NEW w \in Workers,
               NEW k \in {"invite", "session", "score"} \X Invites,
               k \in tx'[u].locks, k \in tx'[w].locks
        PROVE  u = w
    <2>1. CASE u # t /\ w # t
      BY <1>1, <2>1 DEF RowLockInv
    <2>2. CASE u = t /\ w # t
      BY <1>1, <2>2 DEF RowLockInv, Free
    <2>3. CASE u # t /\ w = t
      BY <1>1, <2>3 DEF RowLockInv, Free
    <2> QED
      BY <2>1, <2>2, <2>3
  <1>2. ASSUME NEW u \in Workers, NEW w \in Workers, NEW v \in Invites,
               <<"fk", v>> \in tx'[u].locks, <<"purge", InterviewOf[v]>> \in tx'[w].locks
        PROVE  u = w
    <2>1. CASE u # t /\ w # t
      BY <1>2, <2>1 DEF RowLockInv
    <2>2. CASE u = t /\ w # t
      BY <1>2, <2>2 DEF RowLockInv, Free
    <2>3. CASE u # t /\ w = t
      BY <1>2, <2>3 DEF RowLockInv, Free
    <2> QED
      BY <2>1, <2>2, <2>3
  <1> QED
    BY <1>1, <1>2 DEF RowLockInv

(* One that gives up its locks. *)
LEMMA RowLockEnd ==
  ASSUME RowLockInv, NEW t \in Workers, \A u \in Workers \ {t} : tx'[u] = tx[u],
         tx'[t].locks = {}
  PROVE  RowLockInv'
  BY RowLockStep

(* An idle worker has read nothing. *)
LEMMA IdleGuard ==
  ASSUME NEW t \in Workers, tx'[t] = NoTx
  PROVE  GuardOK(t)'
  BY NoTxType DEF GuardOK, Past

(* A worker that a step leaves alone, and whose rows it leaves alone. *)
LEMMA GuardFrame ==
  ASSUME NEW u \in Workers, GuardOK(u), tx'[u] = tx[u],
         Past(u, "start") => InviteOpen(tx[u].v)',
         Past(u, "diff") => tx[u].v \in sessions' /\ lastDiff'[tx[u].v] = lastDiff[tx[u].v],
         tx[u].pc = "fk" \/ Past(u, "score") => tx[u].v \notin scores',
         Past(u, "score") => tx[u].v \in sessions'
  PROVE  GuardOK(u)'
  <1>1. Iv(u)' = Iv(u) /\ \A op : Past(u, op)' <=> Past(u, op)
    BY DEF Iv, Past
  <1>2. tx'[u].v = tx[u].v /\ tx'[u].c = tx[u].c
    OBVIOUS
  <1>3. Past(u, "start")' => InviteOpen(tx[u].v)'
    BY <1>1
  <1>4. Past(u, "diff")' => DiffIsNewer(tx[u].v, tx[u].c)'
    BY <1>1, <1>2 DEF GuardOK, DiffIsNewer
  <1> QED
    BY <1>1, <1>2, <1>3, <1>4 DEF GuardOK

(* A worker's step that changes no row, and records nothing but            *)
(* completions.                                                            *)
LEMMA RowsKept ==
  ASSUME StateInv, NEW t \in Workers, \A u \in Workers \ {t} : tx'[u] = tx[u],
         RowLockInv', GuardOK(t)', UNCHANGED rows,
         \A e : e.op # "completion" => (e \in Recorded' <=> e \in Recorded)
  PROVE  StateInv'
  <1>1. ASSUME NEW u \in Workers \ {t} PROVE GuardOK(u)'
    <2>1. GuardOK(u)
      BY DEF StateInv
    <2> QED
      BY <2>1, GuardFrame DEF GuardOK, InviteOpen, DiffIsNewer, rows
  <1>2. StateMatchesEvents'
    BY MatchesFrame DEF StateInv
  <1> QED
    BY <1>1, <1>2 DEF StateInv

(* A statement that takes locks and moves on. *)
LEMMA AdvanceRows ==
  ASSUME IInv, StateInv, NEW t \in Workers, NEW pc \in Pc, NEW locks \in SUBSET Token,
         Advance(t, pc, locks),
         \A k \in {"invite", "session", "score"} \X Invites : k \in locks => Free(t, k),
         \A v \in Invites : <<"fk", v>> \in locks => Free(t, <<"purge", InterviewOf[v]>>),
         \A v \in Invites : <<"purge", InterviewOf[v]>> \in locks => Free(t, <<"fk", v>>),
         GuardOK(t)'
  PROVE  StateInv'
  <1>1. tx'[t].locks = tx[t].locks \cup locks /\ \A u \in Workers \ {t} : tx'[u] = tx[u]
    BY TxType DEF IInv, Advance, Tx
  <1>2. RowLockInv'
    BY <1>1, RowLockStep DEF StateInv
  <1>3. UNCHANGED rows /\ Recorded' = Recorded
    BY SameRecorded DEF Advance, tableVars, rows
  <1> QED
    BY <1>1, <1>2, <1>3, RowsKept

(* What Advance makes of the transaction. *)
LEMMA AdvanceEffect ==
  ASSUME IInv, NEW t \in Workers, NEW pc \in Pc, NEW locks \in SUBSET Token, Advance(t, pc, locks)
  PROVE  /\ tx'[t].op = tx[t].op /\ tx'[t].v = tx[t].v /\ tx'[t].c = tx[t].c
         /\ tx'[t].pc = pc /\ tx'[t].locks = tx[t].locks \cup locks
         /\ Iv(t)' = Iv(t)
         /\ UNCHANGED rows
  BY TxType DEF IInv, Advance, Tx, Iv, tableVars, rows

(* What a guarding statement finds, its transaction holds from then on.    *)
(* StartSession: the invite.                                               *)
LEMMA ConsumeInviteRows ==
  ASSUME IInv, StateInv, NEW t \in Workers, ConsumeInvite(t) PROVE StateInv'
  <1> DEFINE locks == {<<"invite", tx[t].v>>}
  <1>1. locks \in SUBSET Token /\ Advance(t, "alloc", locks) /\ "alloc" \in Pc
    BY TokenType, PcType DEF IInv, ConsumeInvite
  <1>2. tx[t].pc = "invite" /\ InviteOpen(tx[t].v) /\ Free(t, <<"invite", tx[t].v>>) /\ tx[t].op = "start"
    BY DEF ConsumeInvite, StateInv, GuardOK
  <1>3. GuardOK(t)'
    BY <1>1, <1>2, AdvanceEffect DEF GuardOK, Past, InviteOpen, rows
  <1> QED
    BY <1>1, <1>2, <1>3, AdvanceRows

(* RecordDiff: the session. *)
LEMMA AdvanceDiffRows ==
  ASSUME IInv, StateInv, NEW t \in Workers, AdvanceDiff(t) PROVE StateInv'
  <1> DEFINE locks == {<<"session", tx[t].v>>}
  <1>1. locks \in SUBSET Token /\ Advance(t, "alloc", locks) /\ "alloc" \in Pc
    BY TokenType, PcType DEF IInv, AdvanceDiff
  <1>2. tx[t].pc = "guard" /\ DiffIsNewer(tx[t].v, tx[t].c) /\ Free(t, <<"session", tx[t].v>>) /\ tx[t].op = "diff"
    BY DEF AdvanceDiff, StateInv, GuardOK
  <1>3. GuardOK(t)'
    BY <1>1, <1>2, AdvanceEffect DEF GuardOK, Past, DiffIsNewer, rows
  <1> QED
    BY <1>1, <1>2, <1>3, AdvanceRows

(* SaveScore: the slot in the index, *)
LEMMA InsertScoreRows ==
  ASSUME IInv, StateInv, NEW t \in Workers, InsertScore(t) PROVE StateInv'
  <1> DEFINE locks == {<<"score", tx[t].v>>}
  <1>1. locks \in SUBSET Token /\ Advance(t, "fk", locks) /\ "fk" \in Pc
    BY TokenType, PcType DEF IInv, InsertScore
  <1>2. tx[t].pc = "insert" /\ tx[t].v \notin scores /\ Free(t, <<"score", tx[t].v>>) /\ tx[t].op = "score"
    BY DEF InsertScore, StateInv, GuardOK
  <1>3. GuardOK(t)'
    BY <1>1, <1>2, AdvanceEffect DEF GuardOK, Past, rows
  <1> QED
    BY <1>1, <1>2, <1>3, AdvanceRows

(* and then the session and the interview. *)
LEMMA CheckForeignKeysRows ==
  ASSUME IInv, StateInv, NEW t \in Workers, CheckForeignKeys(t) PROVE StateInv'
  <1> DEFINE locks == {<<"fk", tx[t].v>>}
  <1>1. locks \in SUBSET Token /\ Advance(t, "alloc", locks) /\ "alloc" \in Pc
    BY TokenType, PcType DEF IInv, CheckForeignKeys
  <1>2. /\ tx[t].pc = "fk" /\ tx[t].op = "score" /\ Free(t, <<"purge", Iv(t)>>)
        /\ tx[t].v \in sessions /\ tx[t].v \notin scores /\ <<"score", tx[t].v>> \in tx[t].locks
    BY DEF CheckForeignKeys, StateInv, GuardOK
  <1>3. GuardOK(t)'
    BY <1>1, <1>2, AdvanceEffect DEF GuardOK, Past, rows
  <1>4. \A v \in Invites : <<"fk", v>> \in locks => Free(t, <<"purge", InterviewOf[v]>>)
    BY <1>2 DEF Iv
  <1> QED
    BY <1>1, <1>3, <1>4, AdvanceRows

(* A transaction that begins holds nothing. *)
LEMMA BeginRows ==
  ASSUME IInv, StateInv, NEW t \in Workers, Begin(t) PROVE StateInv'
  <1>1. PICK op \in Ops, v \in Invites, c \in 0..MaxDiff :
           /\ tx' = [tx EXCEPT ![t] =
                    [NoTx EXCEPT !.op = op, !.pc = FirstPc(op), !.v = v, !.c = c]]
           /\ CallerChecked(op, v, c)
    BY DEF Begin
  <1>2. /\ tx'[t].op = op /\ tx'[t].pc = FirstPc(op) /\ tx'[t].locks = {}
        /\ \A u \in Workers \ {t} : tx'[u] = tx[u]
    BY <1>1, TxType, NoTxType DEF IInv, NoTx
  <1>3. RowLockInv'
    BY <1>2, RowLockEnd DEF StateInv
  <1>4. GuardOK(t)'
    BY <1>2, OpsAssumption DEF GuardOK, Past, FirstPc, AllOps
  <1>5. UNCHANGED rows /\ Recorded' = Recorded
    BY SameRecorded DEF Begin, tableVars, rows
  <1> QED
    BY <1>2, <1>3, <1>4, <1>5, RowsKept

(* So does one that ends without committing. *)
LEMMA EndRows ==
  ASSUME IInv, StateInv, NEW t \in Workers, tx' = [tx EXCEPT ![t] = NoTx], UNCHANGED rows,
         \A e : e.op # "completion" => (e \in Recorded' <=> e \in Recorded)
  PROVE  StateInv'
  <1>1. tx'[t] = NoTx /\ \A u \in Workers \ {t} : tx'[u] = tx[u]
    BY TxType DEF IInv
  <1>2. RowLockInv'
    BY <1>1, RowLockEnd, NoTxType DEF StateInv
  <1> QED
    BY <1>1, <1>2, IdleGuard, RowsKept

(* The number and the outbox row do not concern the rows held. *)
LEMMA NumberRows ==
  ASSUME IInv, StateInv, NEW t \in Workers, AllocateSequence(t) \/ InsertOutbox(t) PROVE StateInv'
  <1>1. /\ tx'[t].op = tx[t].op /\ tx'[t].v = tx[t].v /\ tx'[t].c = tx[t].c
        /\ tx[t].pc \in {"alloc", "write"} /\ tx'[t].pc \in {"write", "commit"}
        /\ tx[t].locks \subseteq tx'[t].locks
        /\ tx'[t].locks \subseteq tx[t].locks \cup {<<"interview", Iv(t)>>}
        /\ \A u \in Workers \ {t} : tx'[u] = tx[u]
    BY TxType DEF IInv, AllocateSequence, InsertOutbox, AllocLocks, Tx
  <1>2. RowLockInv'
    <2> DEFINE locks == {<<"interview", Iv(t)>>}
    <2>1. /\ \A k \in {"invite", "session", "score"} \X Invites : k \notin locks
          /\ \A v \in Invites : <<"fk", v>> \notin locks /\ <<"purge", InterviewOf[v]>> \notin locks
          /\ tx'[t].locks \subseteq tx[t].locks \cup locks
      BY <1>1
    <2> HIDE DEF locks
    <2> QED
      BY <1>1, <2>1, RowLockStep DEF StateInv
  <1>3. UNCHANGED rows /\ Recorded' = Recorded
    BY SameRecorded DEF AllocateSequence, InsertOutbox, tableVars, rows
  <1>4. GuardOK(t)'
    <2>1. GuardOK(t) /\ \A op : Past(t, op)' <=> Past(t, op)
      BY <1>1 DEF StateInv, Past
    <2> QED
      BY <1>1, <1>3, <2>1 DEF GuardOK, InviteOpen, DiffIsNewer, rows
  <1> QED
    BY <1>1, <1>2, <1>3, <1>4, RowsKept

(* A completion is no event of the tables. *)
LEMMA EmitRows ==
  ASSUME IInv, StateInv, NEW t \in Workers, EmitCompletion(t) PROVE StateInv'
  <1>1. CompletionOf(t) \in Event /\ CompletionOf(t).op = "completion" /\ tx[t].v \in Invites
    BY TxType DEF IInv, CompletionOf, Event
  <1>2. PICK n : n = CompletionOf(t)
    OBVIOUS
  <1>3. log[tx[t].v] \in Seq(Event) /\ n \in Event
    BY <1>1, <1>2 DEF IInv, TypeOK
  <1>4. Range(Append(log[tx[t].v], n)) = Range(log[tx[t].v]) \cup {n}
    BY <1>3, RangeAppend
  <1>5. log' = [log EXCEPT ![tx[t].v] = Append(@, n)]
    BY <1>2 DEF EmitCompletion
  <1>6. \A v \in Invites : \A e : e.op # "completion" => (e \in Range(log'[v]) <=> e \in Range(log[v]))
    BY <1>1, <1>2, <1>4, <1>5 DEF IInv, TypeOK
  <1>7. \A e : e.op # "completion" => (e \in Recorded' <=> e \in Recorded)
    BY <1>6 DEF Recorded, Delivered, EmitCompletion
  <1>8. UNCHANGED rows
    BY DEF EmitCompletion, tableVars, rows
  <1>9. CASE tx' = tx
    <2>1. GuardOK(t) /\ RowLockInv
      BY DEF StateInv
    <2>2. RowLockInv'
      BY <1>9, <2>1 DEF RowLockInv
    <2>3. GuardOK(t)'
      BY <1>8, <1>9, <2>1 DEF GuardOK, Past, InviteOpen, DiffIsNewer, rows, Iv
    <2> QED
      BY <1>7, <1>8, <1>9, <2>2, <2>3, RowsKept
  <1>10. CASE tx' = [tx EXCEPT ![t] = NoTx]
    BY <1>7, <1>8, <1>10, EndRows
  <1> QED
    BY <1>9, <1>10 DEF EmitCompletion

(* A purge locks the interview when no foreign key points at it, and then  *)
(* row by row what it deletes.                                             *)
LEMMA PurgeLockRows ==
  ASSUME IInv, StateInv, NEW t \in Workers, PurgeLock(t) PROVE StateInv'
  <1> DEFINE locks == {<<"interview", Iv(t)>>, <<"purge", Iv(t)>>}
  <1>1. locks \in SUBSET Token /\ Advance(t, "external", locks) /\ "external" \in Pc
    BY TokenType, PcType DEF IInv, PurgeLock
  <1>2. tx[t].pc = "lock" /\ \A v \in InvitesOf(Iv(t)) : Free(t, <<"fk", v>>)
    BY DEF PurgeLock
  <1>3. GuardOK(t)'
    BY <1>1, <1>2, AdvanceEffect DEF GuardOK, Past
  <1>4. \A v \in Invites : <<"purge", InterviewOf[v]>> \in locks => Free(t, <<"fk", v>>)
    BY <1>2 DEF InvitesOf
  <1> QED
    BY <1>1, <1>3, <1>4, AdvanceRows

(* Typesense and ClickHouse hold no rows. *)
LEMMA DeleteExternalRows ==
  ASSUME IInv, StateInv, NEW t \in Workers, DeleteExternal(t) PROVE StateInv'
  <1>1. {} \in SUBSET Token /\ Advance(t, "delete", {}) /\ "delete" \in Pc /\ tx[t].pc = "external"
    BY PcType DEF DeleteExternal
  <1>2. GuardOK(t)'
    BY <1>1, AdvanceEffect DEF GuardOK, Past, StateInv
  <1> QED
    BY <1>1, <1>2, AdvanceRows

(* A row is deleted once nobody else holds it. *)
LEMMA PurgeRowRows ==
  ASSUME IInv, StateInv, NEW t \in Workers, PurgeRow(t) PROVE StateInv'
  <1>1. PICK k \in RowsToDelete(t) : Free(t, k) /\ Advance(t, "delete", {k})
    BY DEF PurgeRow
  <1>2. /\ {k} \in SUBSET Token /\ "delete" \in Pc /\ tx[t].pc = "delete"
        /\ \A v : k # <<"fk", v>> /\ k # <<"purge", v>>
    BY PcType DEF RowsToDelete, InvitesOf, Token, PurgeRow
  <1>3. GuardOK(t)'
    BY <1>1, <1>2, AdvanceEffect DEF GuardOK, Past, StateInv
  <1> QED
    BY <1>1, <1>2, <1>3, AdvanceRows

(* A commit, which makes its row and its event one: the others that are    *)
(* past their guards hold other rows.                                      *)
LEMMA CommitRows ==
  ASSUME IInv, StateInv, NEW t \in Workers, Commit(t) PROVE StateInv'
  <1>1. PICK v \in Invites : v = tx[t].v
    BY TxType DEF IInv
  <1>2. PICK op : op = tx[t].op
    OBVIOUS
  <1>3. PICK n : n = OutboxRow(t)
    OBVIOUS
  <1>4. /\ tx[t].pc = "commit" /\ GuardOK(t)
        /\ InterviewOf[v] \notin purged /\ Past(t, op) /\ Iv(t) = InterviewOf[v]
    BY <1>1, <1>2 DEF Commit, StateInv, IInv, TxInv, TxOK, Past, Iv
  <1>5. /\ n.op = op /\ n.v = v /\ n.c = tx[t].c /\ n.c \in Nat /\ n \notin Recorded
        /\ \A e \in Recorded : e.v = v => e.seq < n.seq /\ e.seq \in Nat /\ e.c \in Nat
        /\ n.seq \in Nat
    <2>1. \A e \in Recorded : e \in Event
      BY RecordedType DEF IInv
    <2> QED
      BY <1>1, <1>2, <1>3, <1>4, <2>1, NewRow DEF Event
  <1>6. Recorded' = Recorded \cup {n} /\ \A u \in Workers \ {t} : tx'[u] = tx[u]
    BY <1>3, CommitEffect
  <1>7. /\ accepted' = accepted \cup (IF op = "start" THEN {v} ELSE {})
        /\ sessions' = sessions \cup (IF op = "start" THEN {v} ELSE {})
        /\ scores' = scores \cup (IF op = "score" THEN {v} ELSE {})
        /\ lastDiff' = [lastDiff EXCEPT ![v] = IF op = "diff" THEN tx[t].c ELSE @]
        /\ purged' = purged /\ invites' = invites
    BY <1>1, <1>2 DEF Commit, CommitTables
  <1>8. /\ lastDiff \in [Invites -> Nat] /\ lastDiff'[v] = IF op = "diff" THEN n.c ELSE lastDiff[v]
        /\ \A w \in Invites \ {v} : lastDiff'[w] = lastDiff[w]
    BY <1>5, <1>7 DEF IInv, TypeOK
  <1>9. tx'[t].locks = {} /\ GuardOK(t)'
    <2>1. CASE tx' = [tx EXCEPT ![t] = NoTx]
      <3>1. tx'[t] = NoTx
        BY <2>1, TxType DEF IInv
      <3> QED
        BY <3>1, NoTxType, IdleGuard
    <2>2. CASE tx' = [tx EXCEPT ![t].pc = "stream", ![t].locks = {}]
      <3>1. tx'[t].pc = "stream" /\ tx'[t].locks = {}
        BY <2>2, TxType DEF IInv, Tx
      <3> QED
        BY <3>1 DEF GuardOK, Past
    <2> QED
      BY <2>1, <2>2 DEF Commit
  <1>10. RowLockInv'
    BY <1>6, <1>9, RowLockEnd DEF StateInv
  <1>11. ASSUME NEW u \in Workers \ {t} PROVE GuardOK(u)'
    <2>1. GuardOK(u) /\ tx[u].v \in Invites /\ tx'[u] = tx[u]
      BY <1>6, TxType DEF StateInv, IInv
    <2>2. \A k \in {"invite", "session", "score"} : <<k, v>> \notin tx[t].locks \/ <<k, v>> \notin tx[u].locks
      BY DEF StateInv, RowLockInv
    <2>3. Past(u, "start") => InviteOpen(tx[u].v)'
      BY <1>1, <1>2, <1>4, <1>7, <2>1, <2>2 DEF GuardOK, InviteOpen
    <2>4. Past(u, "diff") => tx[u].v \in sessions' /\ lastDiff'[tx[u].v] = lastDiff[tx[u].v]
      BY <1>1, <1>2, <1>4, <1>7, <1>8, <2>1, <2>2 DEF GuardOK, DiffIsNewer
    <2>5. tx[u].pc = "fk" \/ Past(u, "score") => tx[u].v \notin scores'
      BY <1>1, <1>2, <1>4, <1>7, <2>1, <2>2 DEF GuardOK
    <2>6. Past(u, "score") => tx[u].v \in sessions'
      BY <1>7, <2>1 DEF GuardOK
    <2> QED
      BY <2>1, <2>3, <2>4, <2>5, <2>6, GuardFrame
  <1>12. ASSUME NEW w \in Invites \ {v} PROVE Match(w)'
    <2>1. Match(w) /\ \A x \in {"start", "score", "diff"} : EventsOf(w, x)' = EventsOf(w, x)
      BY <1>5, <1>6, Matches DEF StateInv, EventsOf
    <2> QED
      BY <1>7, <1>8, <2>1, MatchFrame
  <1>13. /\ Match(v)
         /\ \A x : EventsOf(v, x)' = IF x = op THEN EventsOf(v, x) \cup {n} ELSE EventsOf(v, x)
    BY <1>5, <1>6, Matches DEF StateInv, EventsOf
  <1>14. ASSUME op = "start" PROVE Match(v)'
    <2>1. v \notin accepted
      BY <1>1, <1>4, <1>14 DEF GuardOK, InviteOpen
    <2> QED
      BY <1>4, <1>7, <1>8, <1>13, <1>14, <2>1 DEF Match
  <1>15. ASSUME op = "score" PROVE Match(v)'
    <2>1. v \notin scores /\ v \in sessions
      BY <1>1, <1>4, <1>15 DEF GuardOK
    <2> QED
      BY <1>4, <1>7, <1>8, <1>13, <1>15, <2>1 DEF Match
  <1>16. ASSUME op = "diff" PROVE Match(v)'
    <2>1. lastDiff[v] < n.c
      BY <1>1, <1>4, <1>5, <1>16 DEF GuardOK, DiffIsNewer
    <2>2. \A e \in EventsOf(v, "diff") : e.c \in Nat /\ e.seq \in Nat /\ e.seq < n.seq /\ e.c < n.c /\ e.c <= n.c
      BY <1>5, <1>8, <1>13, <2>1 DEF EventsOf, Match
    <2>3. EventsOf(v, "diff")' = EventsOf(v, "diff") \cup {n}
      BY <1>13, <1>16
    <2>4. \A e, f \in EventsOf(v, "diff")' : e.c < f.c <=> e.seq < f.seq
      BY <1>5, <1>13, <2>2, <2>3 DEF Match
    <2>5. \A e \in EventsOf(v, "diff")' : e.c <= lastDiff'[v]
      BY <1>5, <1>8, <1>16, <2>2, <2>3
    <2>6. \E e \in EventsOf(v, "diff")' : e.c = lastDiff'[v]
      BY <1>8, <1>16, <2>3
    <2>7. EventsOf(v, "start")' = EventsOf(v, "start") /\ EventsOf(v, "score")' = EventsOf(v, "score")
      BY <1>13, <1>16
    <2> QED
      BY <1>7, <1>13, <1>16, <2>4, <2>5, <2>6, <2>7 DEF Match
  <1>17. ASSUME op \notin {"start", "score", "diff"} PROVE Match(v)'
    BY <1>7, <1>8, <1>13, <1>17, MatchFrame
  <1>18. Match(v)'
    BY <1>14, <1>15, <1>16, <1>17
  <1>19. StateMatchesEvents'
    BY <1>12, <1>18, Matches DEF StateMatchesEvents, Match, EventsOf
  <1> QED
    BY <1>9, <1>10, <1>11, <1>19 DEF StateInv

(* A purge that commits holds every row it deletes. *)
LEMMA PurgeCommitRows ==
  ASSUME IInv, StateInv, NEW t \in Workers, PurgeCommit(t) PROVE StateInv'
  <1>1. PICK i \in Interviews : i = Iv(t)
    BY TxType DEF IInv
  <1>2. /\ tx[t].pc = "delete" /\ RowsToDelete(t) = {}
        /\ purged' = purged \cup {i} /\ sessions' = sessions \ InvitesOf(i)
        /\ invites' = invites \ InvitesOf(i) /\ scores' = scores \ InvitesOf(i)
        /\ UNCHANGED <<accepted, lastDiff, outbox, log>>
        /\ tx'[t] = NoTx /\ \A u \in Workers \ {t} : tx'[u] = tx[u]
    BY <1>1, TxType DEF PurgeCommit, IInv
  <1>3. /\ \A v \in sessions : v \in InvitesOf(i) => <<"session", v>> \in tx[t].locks
        /\ \A v \in invites : v \in InvitesOf(i) => <<"invite", v>> \in tx[t].locks
    BY <1>1, <1>2 DEF RowsToDelete
  <1>4. <<"purge", i>> \in tx[t].locks
    BY <1>1, <1>2 DEF StateInv, GuardOK
  <1>5. ASSUME NEW u \in Workers \ {t} PROVE GuardOK(u)'
    <2>1. GuardOK(u) /\ tx[u].v \in Invites /\ tx'[u] = tx[u]
      BY <1>2, TxType DEF StateInv, IInv
    <2>2. /\ \A k \in {"invite", "session"} : \A v \in Invites :
                <<k, v>> \notin tx[t].locks \/ <<k, v>> \notin tx[u].locks
          /\ \A v \in InvitesOf(i) : <<"fk", v>> \notin tx[u].locks
      BY <1>4 DEF StateInv, RowLockInv, InvitesOf
    <2>3. Past(u, "start") => InviteOpen(tx[u].v)'
      BY <1>2, <1>3, <2>1, <2>2 DEF GuardOK, InviteOpen
    <2>4. Past(u, "diff") => tx[u].v \in sessions' /\ lastDiff'[tx[u].v] = lastDiff[tx[u].v]
      BY <1>2, <1>3, <2>1, <2>2 DEF GuardOK, DiffIsNewer
    <2>5. tx[u].pc = "fk" \/ Past(u, "score") => tx[u].v \notin scores'
      BY <1>2, <2>1 DEF GuardOK
    <2>6. Past(u, "score") => tx[u].v \in sessions'
      BY <1>2, <2>1, <2>2 DEF GuardOK
    <2> QED
      BY <2>1, <2>3, <2>4, <2>5, <2>6, GuardFrame
  <1>6. RowLockInv'
    BY <1>2, NoTxType, RowLockEnd DEF StateInv
  <1>7. GuardOK(t)'
    BY <1>2, IdleGuard
  <1>8. ASSUME NEW v \in Invites PROVE Match(v)'
    <2>1. Match(v) /\ \A op : EventsOf(v, op)' = EventsOf(v, op)
      BY <1>2, SameRecorded, Matches DEF StateInv, EventsOf
    <2>2. CASE InterviewOf[v] = i
      BY <1>2, <2>1, <2>2 DEF Match, InvitesOf
    <2>3. CASE InterviewOf[v] # i
      <3>1. v \notin InvitesOf(i)
        BY <2>3 DEF InvitesOf
      <3> QED
        BY <1>2, <2>1, <2>3, <3>1, MatchFrame
    <2> QED
      BY <2>2, <2>3
  <1>9. StateMatchesEvents'
    BY <1>8, Matches DEF StateMatchesEvents, Match, EventsOf
  <1> QED
    BY <1>5, <1>6, <1>7, <1>9 DEF StateInv

(* The relays change no row, and record nothing. *)
LEMMA RelayRows ==
  ASSUME IInv, StateInv, UNCHANGED <<tx, rows>>, Recorded' = Recorded
  PROVE  StateInv'
  <1>1. RowLockInv'
    BY DEF StateInv, RowLockInv
  <1>2. ASSUME NEW t \in Workers PROVE GuardOK(t)'
    <2>1. GuardOK(t)
      BY DEF StateInv
    <2> QED
      BY <2>1 DEF GuardOK, Past, InviteOpen, DiffIsNewer, rows, Iv
  <1>3. StateMatchesEvents'
    BY MatchesFrame DEF StateInv
  <1> QED
    BY <1>1, <1>2, <1>3 DEF StateInv

(* Every step keeps rows and events together. *)
LEMMA StepRows == IInv /\ StateInv /\ [Next]_vars => StateInv'
<1> SUFFICES ASSUME IInv, StateInv, [Next]_vars PROVE StateInv'
  OBVIOUS
<1>1. ASSUME NEW t \in Workers, NoRows(t) \/ Abort(t) \/ DeadlockAbort(t) \/ LoseCompletion(t) PROVE StateInv'
  <2>1. tx' = [tx EXCEPT ![t] = NoTx] /\ UNCHANGED rows /\ UNCHANGED <<outbox, log>>
    BY <1>1 DEF NoRows, Abort, DeadlockAbort, RollBack, LoseCompletion, tableVars, rows
  <2> QED
    BY <2>1, SameRecorded, EndRows
<1>2. ASSUME NEW t \in Workers, Begin(t) \/ Statement(t) \/ Abort(t) \/ DeadlockAbort(t) PROVE StateInv'
  BY <1>1, <1>2, BeginRows, ConsumeInviteRows, AdvanceDiffRows, InsertScoreRows, CheckForeignKeysRows,
     NumberRows, CommitRows, PurgeLockRows, DeleteExternalRows, PurgeRowRows, PurgeCommitRows, EmitRows
     DEF Statement
<1>3. ASSUME NEW r \in Relays, Drain(r) \/ DrainFail(r) \/ LockLost(r) PROVE StateInv'
  <2>1. CASE Publish(r)
    <3>1. PICK e \in relay[r].batch :
             /\ NextOfKey(r, e) /\ log' = [log EXCEPT ![e.v] = Append(@, e)]
             /\ UNCHANGED <<tableVars, outbox, nextId, tx, requests, failures>>
      BY <2>1 DEF Publish
    <3>2. Recorded' = Recorded /\ UNCHANGED <<tx, rows>>
      BY <3>1, PublishEffect DEF tableVars, rows
    <3> QED
      BY <3>2, RelayRows
  <2>2. CASE DrainCommit(r)
    <3>1. Recorded' = Recorded /\ UNCHANGED <<tx, rows>>
      BY <2>2, DrainCommitEffect DEF DrainCommit, tableVars, rows
    <3> QED
      BY <3>1, RelayRows
  <2>3. CASE DrainBegin(r) \/ DrainAbandon(r) \/ DrainFail(r) \/ LockLost(r)
    <3>1. UNCHANGED <<tx, rows, outbox, log>>
      BY <2>3 DEF DrainBegin, DrainAbandon, DrainFail, LockLost, tableVars, rows
    <3> QED
      BY <3>1, SameRecorded, RelayRows
  <2> QED
    BY <1>3, <2>1, <2>2, <2>3 DEF Drain
<1>4. CASE UNCHANGED vars
  <2>1. UNCHANGED <<tx, rows, outbox, log>>
    BY <1>4 DEF vars, rows
  <2> QED
    BY <2>1, SameRecorded, RelayRows
<1> QED
  BY <1>2, <1>3, <1>4 DEF Next

(* A row and its event are committed together, once, whatever races and    *)
(* fails; diffs are numbered in the order the client sent them; a purge    *)
(* leaves nothing and nothing comes back.                                  *)
THEOREM RowsMatchEvents == Spec => []StateMatchesEvents
<1>1. Init => StateInv
  <2> SUFFICES ASSUME Init PROVE StateInv
    OBVIOUS
  <2>1. Recorded = {}
    BY DEF Init, Recorded, Delivered, Range
  <2>2. RowLockInv /\ \A t \in Workers : GuardOK(t)
    BY NoTxType DEF Init, RowLockInv, GuardOK, Past
  <2>3. \A v \in Invites : Match(v)
    BY <2>1 DEF Init, Match, EventsOf
  <2> QED
    BY <2>2, <2>3, Matches DEF StateInv
<1>2. StateInv => StateMatchesEvents
  BY DEF StateInv
<1> QED
  BY <1>1, <1>2, StepRows, Invariant, PTL DEF Spec

-----------------------------------------------------------------------------
(* The refinement.                                                         *)

(* A step that records nothing and delivers nothing new is invisible. *)
LEMMA Stutter ==
  ASSUME lastSeq' = lastSeq, Recorded' = Recorded,
         \A v \in Invites : Delivered(v)' = Delivered(v)
  PROVE  UNCHANGED Stream!vars
  <1>1. {e \in Recorded : Relayed(e)}' = {e \in Recorded : Relayed(e)}
    BY DEF Relayed
  <1>2. [v \in Invites |-> Delivered(v)]' = [v \in Invites |-> Delivered(v)]
    OBVIOUS
  <1> QED
    BY <1>1, <1>2 DEF Stream!vars

(* A commit records its event in the abstract stream. *)
LEMMA CommitRecords ==
  ASSUME IInv, NEW t \in Workers, Commit(t)
  PROVE  Stream!Next
  <1>1. PICK n : n = OutboxRow(t)
    OBVIOUS
  <1>2. tx[t].pc = "commit"
    BY DEF Commit
  <1>3. /\ n.seq = lastSeq[Iv(t)] + 1 /\ n.op = tx[t].op /\ n.op # "completion"
        /\ InterviewOf[n.v] = Iv(t) /\ Relayed(n)
    BY <1>1, <1>2, NewRow DEF Relayed
  <1>4. /\ Recorded' = Recorded \cup {n}
        /\ \A v \in Invites : Delivered(v)' = Delivered(v)
    BY <1>1, CommitEffect
  <1>5. lastSeq' = [lastSeq EXCEPT ![Iv(t)] = IF n.op = "prompt" THEN n.seq + 1 ELSE n.seq]
    <2>1. lastSeq' = [lastSeq EXCEPT ![Iv(t)] = tx[t].first + Count(tx[t].op) - 1]
      BY DEF Commit, CommitTables
    <2>2. tx[t].first = n.seq /\ n.seq \in Nat
      BY <1>1, TxType DEF IInv, OutboxRow
    <2>3. tx[t].first + Count(tx[t].op) - 1 = IF n.op = "prompt" THEN n.seq + 1 ELSE n.seq
      BY <1>3, <2>2 DEF Count
    <2> QED
      BY <2>1, <2>3
  <1>6. {e \in Recorded : Relayed(e)}' = {e \in Recorded : Relayed(e)} \cup {n}
    BY <1>3, <1>4 DEF Relayed
  <1>7. [v \in Invites |-> Delivered(v)]' = [v \in Invites |-> Delivered(v)]
    BY <1>4
  <1>8. Stream!Record(n)
    BY <1>3, <1>5, <1>6, <1>7 DEF Stream!Record
  <1>9. n \in {e \in Recorded : Relayed(e)}'
    BY <1>6
  <1> QED
    BY <1>8, <1>9 DEF Stream!Next

(* The first copy of an event delivers it, and a resend is invisible. *)
LEMMA PublishDelivers ==
  ASSUME IInv, NEW r \in Relays, Publish(r)
  PROVE  Stream!Next \/ UNCHANGED Stream!vars
  <1>1. PICK e \in relay[r].batch :
           /\ NextOfKey(r, e)
           /\ log' = [log EXCEPT ![e.v] = Append(@, e)]
           /\ UNCHANGED <<tableVars, outbox, nextId, tx, requests, failures>>
    BY DEF Publish
  <1>2. lastSeq' = lastSeq /\ outbox' = outbox
    BY <1>1 DEF tableVars
  <1>3. /\ e \in Recorded /\ Relayed(e) /\ e.v \in Invites
        /\ \A v \in Invites \ {e.v} : Delivered(v)' = Delivered(v)
        /\ Delivered(e.v)' = Delivered(e.v) \cup {e}
        /\ Recorded' = Recorded
        /\ \A f \in Recorded : Relayed(f) /\ f.v = e.v /\ f.seq < e.seq =>
              f \in Delivered(f.v)
    BY <1>1, <1>2, PublishEffect
  <1>4. CASE e \in Delivered(e.v)
    <2>1. \A v \in Invites : Delivered(v)' = Delivered(v)
      BY <1>3, <1>4
    <2> QED
      BY <1>2, <1>3, <2>1, Stutter
  <1>5. CASE e \notin Delivered(e.v)
    <2>1. {x \in Recorded : Relayed(x)}' = {x \in Recorded : Relayed(x)}
      BY <1>3 DEF Relayed
    <2>2. [v \in Invites |-> Delivered(v)]' =
             [[v \in Invites |-> Delivered(v)] EXCEPT ![e.v] = @ \cup {e}]
      BY <1>3
    <2>3. Stream!Deliver(e)
      BY <1>2, <1>3, <1>5, <2>1, <2>2 DEF Stream!Deliver
    <2>4. e \in {x \in Recorded : Relayed(x)}
      BY <1>3
    <2> QED
      BY <2>3, <2>4 DEF Stream!Next
  <1> QED
    BY <1>4, <1>5

(* A completion joins the stream under the number its prompt reserved. *)
LEMMA EmitCompletes ==
  ASSUME IInv, NEW t \in Workers, EmitCompletion(t)
  PROVE  Stream!Next \/ UNCHANGED Stream!vars
  <1>1. tx[t].pc = "stream" /\ tx[t].v \in Invites /\ tx[t].c \in Nat
        /\ tx[t].first \in Nat /\ tx[t].id \in Nat
    BY TxType DEF IInv, EmitCompletion
  <1>2. PICK p \in Recorded : /\ p.op = "prompt" /\ p.id = tx[t].id /\ p.v = tx[t].v
                              /\ p.c = tx[t].c /\ p.seq = tx[t].first
    BY <1>1 DEF IInv, TxInv, TxOK
  <1>n. PICK n : n = CompletionOf(t)
    OBVIOUS
  <1>3. /\ n \in Event /\ n.op = "completion" /\ n.id = p.id /\ n.v = p.v
        /\ n.seq = p.seq + 1 /\ ~Relayed(n) /\ n.v \in Invites /\ n.v = tx[t].v
    BY <1>1, <1>2, <1>n DEF CompletionOf, Event, Relayed
  <1>4. /\ log \in [Invites -> Seq(Event)]
        /\ log' = [log EXCEPT ![n.v] = Append(@, n)]
        /\ UNCHANGED <<lastSeq, outbox>>
    BY <1>3, <1>n DEF IInv, TypeOK, EmitCompletion, tableVars
  <1>5. /\ \A v \in Invites \ {n.v} : Delivered(v)' = Delivered(v)
        /\ Delivered(n.v)' = Delivered(n.v) \cup {n}
    <2>0. log[n.v] \in Seq(Event) /\ n \in Event
      BY <1>3, <1>4
    <2>1. Range(Append(log[n.v], n)) = Range(log[n.v]) \cup {n}
      BY <2>0, RangeAppend
    <2> QED
      BY <1>3, <1>4, <2>1 DEF Delivered
  <1>6. \A e : e \in Recorded' <=> e \in Recorded \/ e = n
    <2>1. /\ \A e : e \in Recorded <=> e \in outbox \/ \E v \in Invites : e \in Delivered(v)
          /\ \A e : e \in Recorded' <=> e \in outbox' \/ \E v \in Invites : e \in Delivered(v)'
      BY DEF Recorded
    <2>2. \A v \in Invites : \A e : e \in Delivered(v)' <=> e \in Delivered(v) \/ (v = n.v /\ e = n)
      BY <1>3, <1>5
    <2>3. outbox' = outbox /\ n.v \in Invites
      BY <1>3, <1>4
    <2> QED
      BY <2>1, <2>2, <2>3
  <1>7. {x \in Recorded : Relayed(x)}' = {x \in Recorded : Relayed(x)}
    BY <1>3, <1>6 DEF Relayed
  <1>8. CASE n \in Delivered(n.v)
    <2>1. [v \in Invites |-> Delivered(v)]' = [v \in Invites |-> Delivered(v)]
      BY <1>5, <1>8
    <2> QED
      BY <1>4, <1>7, <2>1 DEF Stream!vars
  <1>9. CASE n \notin Delivered(n.v)
    <2>1. [v \in Invites |-> Delivered(v)]' =
             [[v \in Invites |-> Delivered(v)] EXCEPT ![n.v] = @ \cup {n}]
      BY <1>3, <1>5
    <2>2. p \in {x \in Recorded : Relayed(x)}
      BY <1>2 DEF Relayed
    <2>3. Stream!Complete(n)
      BY <1>2, <1>3, <1>4, <1>7, <1>9, <2>1, <2>2 DEF Stream!Complete
    <2>4. n \in [v \in Invites |-> Delivered(v)]'[n.v]
      BY <1>3, <2>1
    <2> QED
      BY <1>3, <2>3, <2>4 DEF Stream!Next
  <1> QED
    BY <1>8, <1>9

(* The transactional store, the relays and the gateway implement the       *)
(* stream that consumers are promised.                                     *)
THEOREM Refinement == Spec => ImplementsStream
<1>1. ASSUME Init PROVE Stream!Init
  <2>1. \A v \in Invites : Delivered(v) = {}
    BY <1>1 DEF Init, Delivered, Range
  <2>2. Recorded = {}
    BY <1>1, <2>1 DEF Init, Recorded
  <2>3. {e \in Recorded : Relayed(e)} = {}
    BY <2>2
  <2> QED
    BY <1>1, <2>1, <2>3 DEF Init, Stream!Init
<1>2. ASSUME IInv, [Next]_vars PROVE Stream!Next \/ UNCHANGED Stream!vars
  <2>1. ASSUME UNCHANGED <<lastSeq, outbox, log>> PROVE UNCHANGED Stream!vars
    BY <2>1, SameRecorded, Stutter, SMTT(30)
  <2>2. ASSUME NEW t \in Workers,
               \/ Begin(t) \/ Abort(t) \/ DeadlockAbort(t) \/ NoRows(t)
               \/ ConsumeInvite(t) \/ AdvanceDiff(t) \/ InsertScore(t)
               \/ CheckForeignKeys(t) \/ AllocateSequence(t) \/ InsertOutbox(t)
               \/ PurgeLock(t) \/ DeleteExternal(t) \/ PurgeRow(t) \/ PurgeCommit(t)
               \/ LoseCompletion(t)
        PROVE  UNCHANGED <<lastSeq, outbox, log>>
    BY <2>2 DEF Begin, Abort, DeadlockAbort, NoRows, RollBack, ConsumeInvite,
       AdvanceDiff, InsertScore, CheckForeignKeys, AllocateSequence, InsertOutbox,
       PurgeLock, DeleteExternal, PurgeRow, PurgeCommit, LoseCompletion, Advance, tableVars
  <2>3. ASSUME NEW r \in Relays,
               DrainBegin(r) \/ DrainAbandon(r) \/ DrainFail(r) \/ LockLost(r)
        PROVE  UNCHANGED <<lastSeq, outbox, log>>
    BY <2>3 DEF DrainBegin, DrainAbandon, DrainFail, LockLost, tableVars
  <2>4. ASSUME NEW r \in Relays, DrainCommit(r) PROVE UNCHANGED Stream!vars
    <3>1. lastSeq' = lastSeq /\ Recorded' = Recorded
          /\ \A v \in Invites : Delivered(v)' = Delivered(v)
      BY <1>2, <2>4, DrainCommitEffect
    <3> QED
      BY <3>1, Stutter
  <2>5. UNCHANGED vars => UNCHANGED <<lastSeq, outbox, log>>
    BY DEF vars
  <2> QED
    BY <1>2, <2>1, <2>2, <2>3, <2>4, <2>5, CommitRecords, PublishDelivers, EmitCompletes
       DEF Next, Statement, Drain
<1>3. IInv /\ [Next]_vars => [Stream!Next]_(Stream!vars)
  BY <1>2
<1> QED
  BY <1>1, <1>3, Invariant, PTL DEF Spec, ImplementsStream

-----------------------------------------------------------------------------
(* The session logs, as SessionLog assumes them of the topic.              *)

(* The log of v grows by one event: a completion, which waits for nothing, *)
(* or a recorded event whose predecessors in the session are all there.    *)
Appends(v) ==
    \E e \in Event :
        /\ e.v = v
        /\ log'[v] = Append(log[v], e)
        /\ \/ e.op = "completion"
           \/ /\ e \in Recorded
              /\ \A f \in Recorded :
                    Relayed(f) /\ f.v = v /\ f.seq < e.seq => f \in Delivered(v)

(* No predecessor turns up later: what a step records is numbered after    *)
(* every event of its interview, of whatever session.                      *)
FeedsLogs ==
    /\ \A v \in Invites : log'[v] = log[v] \/ Appends(v)
    /\ \A e \in Recorded' \ Recorded :
          Relayed(e) => \A f \in Recorded : InterviewOf[f.v] = InterviewOf[e.v] => f.seq < e.seq

(* A commit records behind everything and writes no log. *)
LEMMA CommitFeeds == ASSUME IInv, NEW t \in Workers, Commit(t) PROVE FeedsLogs
<1>1. /\ Recorded' = Recorded \cup {OutboxRow(t)}
      /\ log' = log
  BY CommitEffect
<1>2. /\ InterviewOf[OutboxRow(t).v] = Iv(t)
      /\ \A f \in Recorded : InterviewOf[f.v] = Iv(t) => f.seq < OutboxRow(t).seq
  BY NewRow DEF Commit
<1> QED
  BY <1>1, <1>2 DEF FeedsLogs

(* A relay writes the next event of a key. *)
LEMMA PublishFeeds == ASSUME IInv, NEW r \in Relays, Publish(r) PROVE FeedsLogs
<1>1. PICK e \in relay[r].batch : /\ NextOfKey(r, e)
                                  /\ log' = [log EXCEPT ![e.v] = Append(@, e)]
                                  /\ outbox' = outbox
  BY DEF Publish
<1>2. /\ e \in Recorded /\ e.v \in Invites /\ Recorded' = Recorded
      /\ \A f \in Recorded : Relayed(f) /\ f.v = e.v /\ f.seq < e.seq => f \in Delivered(f.v)
  BY <1>1, PublishEffect
<1>3. e \in Event /\ log \in [Invites -> Seq(Event)]
  BY <1>2, RecordedType DEF IInv, TypeOK
<1>4. Appends(e.v)
  BY <1>1, <1>2, <1>3 DEF Appends
<1>5. \A v \in Invites \ {e.v} : log'[v] = log[v]
  BY <1>1, <1>3
<1> QED
  BY <1>2, <1>4, <1>5 DEF FeedsLogs

(* The gateway writes a completion, which is not an outbox event. *)
LEMMA EmitFeeds == ASSUME IInv, NEW t \in Workers, EmitCompletion(t) PROVE FeedsLogs
<1>1. PICK n : n = CompletionOf(t)
  OBVIOUS
<1>2. n \in Event /\ n.op = "completion" /\ n.v \in Invites /\ n.v = tx[t].v
  BY <1>1, TxType DEF IInv, CompletionOf, Event
<1>3. /\ log \in [Invites -> Seq(Event)]
      /\ log' = [log EXCEPT ![n.v] = Append(@, n)]
      /\ outbox' = outbox
  BY <1>1, <1>2 DEF IInv, TypeOK, EmitCompletion
<1>4. Appends(n.v)
  BY <1>2, <1>3 DEF Appends
<1>5. \A v \in Invites \ {n.v} : log'[v] = log[v]
  BY <1>3
<1>6. \A v \in Invites : \A e \in Delivered(v)' : e \in Delivered(v) \/ e = n
  <2>1. log[n.v] \in Seq(Event)
    BY <1>2, <1>3
  <2>2. Range(Append(log[n.v], n)) = Range(log[n.v]) \cup {n}
    BY <1>2, <2>1, RangeAppend
  <2> QED
    BY <1>2, <1>3, <1>5, <2>2 DEF Delivered
<1>7. \A e \in Recorded' \ Recorded : ~Relayed(e)
  BY <1>2, <1>3, <1>6 DEF Recorded, Relayed
<1> QED
  BY <1>4, <1>5, <1>7 DEF FeedsLogs

(* The store, the relays and the gateway fill each session's log the way   *)
(* SessionLog lets it grow, which LiveMonitor and EventPipeline rely on:   *)
(* an outbox event is appended only after every event that precedes it in  *)
(* the session, among those recorded and those that ever will be.          *)
THEOREM LogsProvided == Spec => [][FeedsLogs]_vars
<1>1. ASSUME IInv, Next PROVE FeedsLogs
  <2>1. ASSUME UNCHANGED log, Recorded' = Recorded PROVE FeedsLogs
    BY <2>1 DEF FeedsLogs
  <2>2. ASSUME UNCHANGED <<outbox, log>> PROVE FeedsLogs
    BY <2>1, <2>2, SameRecorded, SMTT(30)
  <2>3. ASSUME NEW t \in Workers,
               \/ Begin(t) \/ Abort(t) \/ DeadlockAbort(t) \/ NoRows(t)
               \/ ConsumeInvite(t) \/ AdvanceDiff(t) \/ InsertScore(t)
               \/ CheckForeignKeys(t) \/ AllocateSequence(t) \/ InsertOutbox(t)
               \/ PurgeLock(t) \/ DeleteExternal(t) \/ PurgeRow(t) \/ PurgeCommit(t)
               \/ LoseCompletion(t)
        PROVE  UNCHANGED <<outbox, log>>
    BY <2>3 DEF Begin, Abort, DeadlockAbort, NoRows, RollBack, ConsumeInvite,
       AdvanceDiff, InsertScore, CheckForeignKeys, AllocateSequence, InsertOutbox,
       PurgeLock, DeleteExternal, PurgeRow, PurgeCommit, LoseCompletion, Advance, tableVars
  <2>4. ASSUME NEW r \in Relays,
               DrainBegin(r) \/ DrainAbandon(r) \/ DrainFail(r) \/ LockLost(r)
        PROVE  UNCHANGED <<outbox, log>>
    BY <2>4 DEF DrainBegin, DrainAbandon, DrainFail, LockLost, tableVars
  <2>5. ASSUME NEW r \in Relays, DrainCommit(r) PROVE FeedsLogs
    BY <1>1, <2>1, <2>5, DrainCommitEffect DEF DrainCommit
  <2> QED
    BY <1>1, <2>2, <2>3, <2>4, <2>5, CommitFeeds, PublishFeeds, EmitFeeds DEF Next, Statement, Drain
<1>2. IInv /\ [Next]_vars => [FeedsLogs]_vars
  BY <1>1
<1> QED
  BY <1>2, Invariant, PTL DEF Spec

=============================================================================
