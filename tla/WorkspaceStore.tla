--------------------------- MODULE WorkspaceStore ---------------------------
(***************************************************************************)
(* The transactional core of the platform: every event of an interview is  *)
(* numbered, recorded and relayed here.                                    *)
(*                                                                         *)
(* Postgres transactions run one statement per action, under READ          *)
(* COMMITTED: a statement reads committed rows, waits for the row locks it *)
(* needs, and re-evaluates its WHERE clause once it has them.  A           *)
(* transaction's writes are kept in tx[t] and become visible at Commit.    *)
(* The transactions are StartSession, RecordEvents (one event, or a prompt *)
(* that reserves a second number for its completion), RecordDiff,          *)
(* SaveScore and Purge.  Relays drain the outbox to Kafka; the AI gateway  *)
(* writes a prompt's completion to Kafka itself.                           *)
(*                                                                         *)
(* A session is named by the invite that started it: an invite starts at   *)
(* most one (AtMostOnce), and every event of the session has the session   *)
(* as its Kafka key.                                                       *)
(*                                                                         *)
(* A definition named X_Y is X with a fault Y: the properties below must   *)
(* fail when it takes the place of X.                                      *)
(***************************************************************************)
EXTENDS Integers, Sequences, FiniteSets, Functions

CONSTANTS
    Interviews,    \* rows of interviews
    Invites,       \* rows of invites, and the session each may start
    InterviewOf,   \* invites.interview_id
    Workers,       \* request handlers, score workers, the Housekeeper
    Relays,        \* outbox relays, one per candidate-api process
    Ops,           \* the transactions a run exercises
    BatchSize,     \* outbox.Config.BatchSize
    MaxDiff,       \* bound: largest clientSeq a client sends
    MaxRequests,   \* bound: transactions begun
    MaxFailures    \* bound: rollbacks, failed drains and lost connections

AllOps == {"start", "event", "prompt", "diff", "score", "purge"}

ASSUME InterviewOfAssumption == InterviewOf \in [Invites -> Interviews]
ASSUME InvitesAssumption == Invites # {}
ASSUME OpsAssumption == Ops \subseteq AllOps
ASSUME BatchSizeAssumption == BatchSize \in Nat \ {0}
ASSUME BoundsAssumption ==
    MaxDiff \in Nat /\ MaxRequests \in Nat /\ MaxFailures \in Nat

VARIABLES
    lastSeq,    \* interviews.last_sequence_number
    purged,     \* interviews whose purged_at is set
    invites,    \* invite rows that exist
    accepted,   \* invites whose accepted_at is set
    sessions,   \* session rows that exist
    lastDiff,   \* sessions.last_diff_sequence
    scores,     \* sessions with a row in scores
    outbox,     \* rows of event_outbox
    nextId,     \* the bigserial of event_outbox: not transactional
    tx,         \* the open transaction of each worker
    relay,      \* the Drain each relay is running
    log,        \* Kafka: what each session key has received, in order
    requests,   \* transactions begun so far
    failures    \* failures so far

tableVars == <<lastSeq, purged, invites, accepted, sessions, lastDiff, scores>>
vars == <<lastSeq, purged, invites, accepted, sessions, lastDiff, scores,
          outbox, nextId, tx, relay, log, requests, failures>>

-----------------------------------------------------------------------------
(* An event is identified by the id of its outbox row; the completion of a *)
(* prompt carries the id of the prompt's row.                              *)
Event == [id : Nat, op : AllOps \cup {"completion"}, v : Invites,
          c : Nat, seq : Nat]

(* Row locks.  "fk" is the pair of FOR KEY SHARE locks that the foreign    *)
(* keys of scores take on the interview and the session: it excludes only  *)
(* the Housekeeper's FOR UPDATE ("purge") and DELETE, not an UPDATE of     *)
(* either row.  "score" is the slot in the unique index of scores.         *)
Token == ({"interview", "purge"} \X Interviews)
           \cup ({"invite", "session", "score", "fk"} \X Invites)

Pc == {"idle", "invite", "guard", "insert", "fk", "alloc", "write", "commit",
       "lock", "external", "delete", "stream"}

Tx == [op : AllOps \cup {"none"}, pc : Pc, v : Invites, c : Nat,
       locks : SUBSET Token, first : Nat, id : Nat]

NoTx == [op |-> "none", pc |-> "idle", v |-> CHOOSE v \in Invites : TRUE,
         c |-> 0, locks |-> {}, first |-> 0, id |-> 0]

NoDrain == [batch |-> {}, sent |-> {}, locked |-> FALSE]

Delivered(v) == Range(log[v])

(* Every event that was committed and has not been lost. *)
Recorded == outbox \cup UNION {Delivered(v) : v \in Invites}

Relayed(e) == e.op # "completion"

-----------------------------------------------------------------------------
(* Transactions.                                                           *)

Iv(t) == InterviewOf[tx[t].v]

Free(t, k) == \A u \in Workers \ {t} : k \notin tx[u].locks

(* The first statement of each transaction. *)
FirstPc(op) ==
    CASE op = "start" -> "invite"
      [] op = "diff"  -> "guard"
      [] op = "score" -> "insert"
      [] op = "purge" -> "lock"
      [] OTHER        -> "alloc"

Count_NoReservation(op) == 1

(* promptEventCount: a prompt reserves the number of its completion. *)
Count(op) == IF op = "prompt" THEN 2 ELSE 1

Started(v) == \E e \in Recorded : e.op = "start" /\ e.v = v

(* What the caller has checked before the transaction begins: requests of  *)
(* a candidate carry a session found by FindSessionByTokenHash, a trigger  *)
(* names a session that was started, Candidates listed the interview.  All *)
(* of it may be stale by the time the transaction runs.                    *)
CallerChecked(op, v, c) ==
    /\ op \in {"event", "prompt", "diff"} => v \in sessions
    /\ op = "score" => Started(v)
    /\ op = "purge" => InterviewOf[v] \notin purged
    /\ IF op = "diff" THEN c > 0 ELSE c = 0

Begin(t) ==
    /\ tx[t].op = "none"
    /\ requests < MaxRequests
    /\ \E op \in Ops, v \in Invites, c \in 0..MaxDiff :
          /\ CallerChecked(op, v, c)
          /\ tx' = [tx EXCEPT ![t] =
                      [NoTx EXCEPT !.op = op, !.pc = FirstPc(op), !.v = v, !.c = c]]
    /\ requests' = requests + 1
    /\ UNCHANGED <<tableVars, outbox, nextId, relay, log, failures>>

Advance(t, pc, locks) ==
    /\ tx' = [tx EXCEPT ![t].pc = pc, ![t].locks = @ \cup locks]
    /\ UNCHANGED <<tableVars, outbox, nextId, relay, log, requests, failures>>

(* The WHERE clauses that decide whether a statement finds its row. *)
InviteOpen(v) == v \in invites /\ v \notin accepted
DiffIsNewer(v, c) == v \in sessions /\ lastDiff[v] < c
NotPurged_Unchecked(i) == TRUE
NotPurged(i) == i \notin purged

(* StartSession: UPDATE invites SET accepted_at. *)
ConsumeInvite(t) ==
    /\ tx[t].pc = "invite"
    /\ InviteOpen(tx[t].v)
    /\ Free(t, <<"invite", tx[t].v>>)
    /\ Advance(t, "alloc", {<<"invite", tx[t].v>>})

AdvanceDiff_Unlocked(t) ==
    /\ tx[t].pc = "guard"
    /\ DiffIsNewer(tx[t].v, tx[t].c)
    /\ Advance(t, "alloc", {})

(* RecordDiff: UPDATE sessions SET last_diff_sequence. *)
AdvanceDiff(t) ==
    /\ tx[t].pc = "guard"
    /\ DiffIsNewer(tx[t].v, tx[t].c)
    /\ Free(t, <<"session", tx[t].v>>)
    /\ Advance(t, "alloc", {<<"session", tx[t].v>>})

(* SaveScore: INSERT INTO scores ... ON CONFLICT DO NOTHING waits for a    *)
(* concurrent insert of the same session, then checks the foreign keys.    *)
InsertScore(t) ==
    /\ tx[t].pc = "insert"
    /\ NotPurged(Iv(t))
    /\ tx[t].v \notin scores
    /\ Free(t, <<"score", tx[t].v>>)
    /\ Advance(t, "fk", {<<"score", tx[t].v>>})

CheckForeignKeys(t) ==
    /\ tx[t].pc = "fk"
    /\ Free(t, <<"purge", Iv(t)>>)
    /\ tx[t].v \in sessions
    /\ Advance(t, "alloc", {<<"fk", tx[t].v>>})

(* allocateSequence: UPDATE interviews SET last_sequence_number; the row   *)
(* lock is held until the transaction ends.                                *)
AllocLocks_None(t) == {}
AllocLocks(t) == {<<"interview", Iv(t)>>}

(* The first of the count numbers that end at last. *)
FirstOf(last, count) == last - count + 1

AllocateSequence(t) ==
    LET count == Count(tx[t].op)
    IN  /\ tx[t].pc = "alloc"
        /\ NotPurged(Iv(t))
        /\ \A k \in AllocLocks(t) : Free(t, k)
        /\ tx' = [tx EXCEPT ![t].pc = "write",
                            ![t].first = FirstOf(lastSeq[Iv(t)] + count, count),
                            ![t].locks = @ \cup AllocLocks(t)]
        /\ UNCHANGED <<tableVars, outbox, nextId, relay, log, requests, failures>>

(* insertOutbox: the row's id is drawn from the sequence now, not at       *)
(* commit.                                                                 *)
InsertOutbox(t) ==
    /\ tx[t].pc = "write"
    /\ tx' = [tx EXCEPT ![t].pc = "commit", ![t].id = nextId]
    /\ nextId' = nextId + 1
    /\ UNCHANGED <<tableVars, outbox, relay, log, requests, failures>>

OutboxRow(t) == [id |-> tx[t].id, op |-> tx[t].op, v |-> tx[t].v,
                 c |-> tx[t].c, seq |-> tx[t].first]

(* The state change a transaction makes beside its event. *)
CommitTables(t) ==
    LET v == tx[t].v
        added(op) == IF tx[t].op = op THEN {v} ELSE {}
    IN  /\ lastSeq' = [lastSeq EXCEPT ![Iv(t)] = tx[t].first + Count(tx[t].op) - 1]
        /\ accepted' = accepted \cup added("start")
        /\ sessions' = sessions \cup added("start")
        /\ scores' = scores \cup added("score")
        /\ lastDiff' = [lastDiff EXCEPT ![v] = IF tx[t].op = "diff" THEN tx[t].c ELSE @]
        /\ UNCHANGED <<purged, invites>>

(* tx.Commit of the five recording transactions.  A prompt whose commit    *)
(* was acknowledged goes on to the gateway; one whose acknowledgement was  *)
(* lost returns an error, and the reserved number stays unused.            *)
Commit(t) ==
    /\ tx[t].pc = "commit"
    /\ CommitTables(t)
    /\ outbox' = outbox \cup {OutboxRow(t)}
    /\ \/ tx' = [tx EXCEPT ![t] = NoTx]
       \/ /\ tx[t].op = "prompt"
          /\ tx' = [tx EXCEPT ![t].pc = "stream", ![t].locks = {}]
    /\ UNCHANGED <<nextId, relay, log, requests, failures>>

-----------------------------------------------------------------------------
(* The completion of a prompt.                                             *)

CompletionOf(t) == [id |-> tx[t].id, op |-> "completion", v |-> tx[t].v,
                    c |-> tx[t].c, seq |-> tx[t].first + 1]

(* Gateway.Complete ends, whatever its outcome, by emitting the completion *)
(* under the reserved number, straight to Kafka; a write whose answer is   *)
(* lost is tried again (kafka-go's Writer).                                *)
EmitCompletion(t) ==
    /\ tx[t].pc = "stream"
    /\ log' = [log EXCEPT ![tx[t].v] = Append(@, CompletionOf(t))]
    /\ \/ tx' = [tx EXCEPT ![t] = NoTx] /\ UNCHANGED failures
       \/ failures < MaxFailures /\ failures' = failures + 1 /\ UNCHANGED tx
    /\ UNCHANGED <<tableVars, outbox, nextId, relay, requests>>

(* The accepted callback fails, the gateway cannot be reached, the emit    *)
(* fails or a process dies: no completion will carry the number.           *)
LoseCompletion(t) ==
    /\ tx[t].pc = "stream"
    /\ tx' = [tx EXCEPT ![t] = NoTx]
    /\ UNCHANGED <<tableVars, outbox, nextId, relay, log, requests, failures>>

-----------------------------------------------------------------------------
(* Purge.  Which interviews the Housekeeper may purge, and its deletes in  *)
(* Typesense and ClickHouse, are not state of this module.                 *)

InvitesOf(i) == {v \in Invites : InterviewOf[v] = i}

(* SELECT ... FOR UPDATE. *)
PurgeLock(t) ==
    /\ tx[t].pc = "lock"
    /\ NotPurged(Iv(t))
    /\ Free(t, <<"interview", Iv(t)>>)
    /\ \A v \in InvitesOf(Iv(t)) : Free(t, <<"fk", v>>)
    /\ Advance(t, "external", {<<"interview", Iv(t)>>, <<"purge", Iv(t)>>})

DeleteExternal(t) ==
    /\ tx[t].pc = "external"
    /\ Advance(t, "delete", {})

(* DELETE FROM sessions, then DELETE FROM invites, one row lock at a time. *)
RowsToDelete(t) ==
    LET own(kind, S) == {<<kind, v>> : v \in S \cap InvitesOf(Iv(t))} \ tx[t].locks
    IN  IF own("session", sessions) # {} THEN own("session", sessions)
                                         ELSE own("invite", invites)

PurgeRow(t) ==
    /\ tx[t].pc = "delete"
    /\ \E k \in RowsToDelete(t) : Free(t, k) /\ Advance(t, "delete", {k})

PurgeCommit(t) ==
    /\ tx[t].pc = "delete"
    /\ RowsToDelete(t) = {}
    /\ purged' = purged \cup {Iv(t)}
    /\ sessions' = sessions \ InvitesOf(Iv(t))
    /\ invites' = invites \ InvitesOf(Iv(t))
    /\ scores' = scores \ InvitesOf(Iv(t))
    /\ tx' = [tx EXCEPT ![t] = NoTx]
    /\ UNCHANGED <<lastSeq, accepted, lastDiff, outbox, nextId, relay, log,
                   requests, failures>>

-----------------------------------------------------------------------------
(* How a transaction ends without committing.                              *)

RollBack_KeepsLocks(t) ==
    /\ tx' = [tx EXCEPT ![t] = [NoTx EXCEPT !.locks = tx[t].locks]]
    /\ UNCHANGED <<tableVars, outbox, nextId, relay, log, requests>>

RollBack(t) ==
    /\ tx' = [tx EXCEPT ![t] = NoTx]
    /\ UNCHANGED <<tableVars, outbox, nextId, relay, log, requests>>

(* A statement found no row: ErrInvalidInvite, ErrDiffOutOfOrder,          *)
(* ErrInterviewNotFound, ErrInterviewGone, already scored, or no longer a  *)
(* purge candidate.  An invite may be refused because it has expired and a *)
(* purge because of a legal hold, either at any time.                      *)
NoRows(t) ==
    /\ \/ tx[t].pc \in {"invite", "lock"}
       \/ tx[t].pc = "guard" /\ ~DiffIsNewer(tx[t].v, tx[t].c)
       \/ tx[t].pc = "insert" /\ (~NotPurged(Iv(t)) \/ tx[t].v \in scores)
       \/ tx[t].pc = "fk" /\ Free(t, <<"purge", Iv(t)>>) /\ tx[t].v \notin sessions
       \/ tx[t].pc = "alloc" /\ ~NotPurged(Iv(t))
    /\ RollBack(t)
    /\ UNCHANGED failures

(* An error, a cancelled request or a crash before the commit. *)
Abort(t) ==
    /\ tx[t].pc \notin {"idle", "stream"}
    /\ failures < MaxFailures
    /\ RollBack(t)
    /\ failures' = failures + 1

(* The row locks the next statement of t waits for. *)
Needs(t) ==
    CASE tx[t].pc = "invite" /\ InviteOpen(tx[t].v) -> {<<"invite", tx[t].v>>}
      [] tx[t].pc = "guard" /\ DiffIsNewer(tx[t].v, tx[t].c) -> {<<"session", tx[t].v>>}
      [] tx[t].pc = "insert" /\ NotPurged(Iv(t)) -> {<<"score", tx[t].v>>}
      [] tx[t].pc = "fk" -> {<<"purge", Iv(t)>>}
      [] tx[t].pc = "alloc" /\ NotPurged(Iv(t)) -> AllocLocks(t)
      [] tx[t].pc = "lock" -> {<<"interview", Iv(t)>>}
                                \cup {<<"fk", v>> : v \in InvitesOf(Iv(t))}
      [] tx[t].pc = "delete" -> {k \in RowsToDelete(t) :
                                    \A j \in RowsToDelete(t) : ~Free(t, j)}
      [] OTHER -> {}

WaitsFor(t, u) == t # u /\ Needs(t) \cap tx[u].locks # {}

Deadlocked(t) ==
    \E S \in SUBSET Workers :
        t \in S /\ \A u \in S : \E w \in S : WaitsFor(u, w)

(* Postgres finds a cycle of waiting transactions and aborts one of them. *)
DeadlockAbort(t) ==
    /\ Deadlocked(t)
    /\ RollBack(t)
    /\ UNCHANGED failures

-----------------------------------------------------------------------------
(* The outbox relays.                                                      *)

FirstRows_Newest(S, n) == {r \in S : Cardinality({q \in S : q.id > r.id}) < n}
FirstRows(S, n) == {r \in S : Cardinality({q \in S : q.id < r.id}) < n}

(* pg_try_advisory_xact_lock: a relay that does not get it skips its turn. *)
DrainTurn(r) == \A q \in Relays : ~relay[q].locked

(* Drain reads its batch in id order. *)
DrainBegin(r) ==
    /\ relay[r] = NoDrain
    /\ DrainTurn(r)
    /\ outbox # {}
    /\ relay' = [relay EXCEPT ![r].batch = FirstRows(outbox, BatchSize),
                              ![r].locked = TRUE]
    /\ UNCHANGED <<tableVars, outbox, nextId, tx, log, requests, failures>>

(* A batch is written in order within each key; keys are independent. *)
NextOfKey(r, e) ==
    /\ e \in relay[r].batch \ relay[r].sent
    /\ \A f \in relay[r].batch \ relay[r].sent : f.v = e.v => e.id <= f.id

Publish(r) ==
    \E e \in relay[r].batch :
        /\ NextOfKey(r, e)
        /\ log' = [log EXCEPT ![e.v] = Append(@, e)]
        /\ relay' = [relay EXCEPT ![r].sent = @ \cup {e}]
        /\ UNCHANGED <<tableVars, outbox, nextId, tx, requests, failures>>

(* DELETE and commit, only after WriteMessages returned without error. *)
DrainDone_Early(r) == relay[r].batch # {}
DrainDone(r) == relay[r].batch # {} /\ relay[r].sent = relay[r].batch

DrainCommit(r) ==
    /\ DrainDone(r)
    /\ relay[r].locked
    /\ outbox' = outbox \ relay[r].batch
    /\ relay' = [relay EXCEPT ![r] = NoDrain]
    /\ UNCHANGED <<tableVars, nextId, tx, log, requests, failures>>

DrainFail_KeepsLock(r) ==
    /\ relay[r].batch # {}
    /\ failures < MaxFailures
    /\ failures' = failures + 1
    /\ relay' = [relay EXCEPT ![r] = [NoDrain EXCEPT !.locked = TRUE]]
    /\ UNCHANGED <<tableVars, outbox, nextId, tx, log, requests>>

(* WriteMessages fails part way, the delete fails or the relay dies: the   *)
(* rows stay, and a later Drain sends them again.                          *)
DrainFail(r) ==
    /\ relay[r].batch # {}
    /\ failures < MaxFailures
    /\ failures' = failures + 1
    /\ relay' = [relay EXCEPT ![r] = NoDrain]
    /\ UNCHANGED <<tableVars, outbox, nextId, tx, log, requests>>

(* The relay's Postgres connection is lost while it is writing to Kafka:   *)
(* the advisory lock is released, the writes go on, the delete will fail.  *)
LockLost(r) ==
    /\ relay[r].locked
    /\ failures < MaxFailures
    /\ failures' = failures + 1
    /\ relay' = [relay EXCEPT ![r].locked = FALSE]
    /\ UNCHANGED <<tableVars, outbox, nextId, tx, log, requests>>

DrainAbandon(r) ==
    /\ DrainDone(r)
    /\ ~relay[r].locked
    /\ relay' = [relay EXCEPT ![r] = NoDrain]
    /\ UNCHANGED <<tableVars, outbox, nextId, tx, log, requests, failures>>

-----------------------------------------------------------------------------
Init ==
    /\ lastSeq = [i \in Interviews |-> 0]
    /\ purged = {}
    /\ invites = Invites
    /\ accepted = {}
    /\ sessions = {}
    /\ lastDiff = [v \in Invites |-> 0]
    /\ scores = {}
    /\ outbox = {}
    /\ nextId = 1
    /\ tx = [t \in Workers |-> NoTx]
    /\ relay = [r \in Relays |-> NoDrain]
    /\ log = [v \in Invites |-> << >>]
    /\ requests = 0
    /\ failures = 0

(* The steps a transaction takes by itself once it has begun. *)
Statement(t) ==
    \/ ConsumeInvite(t) \/ AdvanceDiff(t) \/ InsertScore(t)
    \/ CheckForeignKeys(t) \/ AllocateSequence(t) \/ InsertOutbox(t)
    \/ Commit(t)
    \/ PurgeLock(t) \/ DeleteExternal(t) \/ PurgeRow(t) \/ PurgeCommit(t)
    \/ NoRows(t)
    \/ EmitCompletion(t) \/ LoseCompletion(t)

Drain(r) ==
    \/ DrainBegin(r) \/ Publish(r) \/ DrainCommit(r) \/ DrainAbandon(r)

Next ==
    \/ \E t \in Workers : Begin(t) \/ Statement(t) \/ Abort(t) \/ DeadlockAbort(t)
    \/ \E r \in Relays : Drain(r) \/ DrainFail(r) \/ LockLost(r)

Spec == Init /\ [][Next]_vars

(* A transaction whose next statement can run does run it, Postgres        *)
(* resolves deadlocks (deadlock_timeout), and a relay polls for ever       *)
(* (Relay.Run).  Requests need not arrive and failures need not happen.    *)
Fairness ==
    /\ \A t \in Workers : SF_vars(Statement(t)) /\ WF_vars(DeadlockAbort(t))
    /\ \A r \in Relays : WF_vars(Drain(r))

FairSpec == Spec /\ Fairness

-----------------------------------------------------------------------------
(* Properties.                                                             *)

(* Every variable has its type. *)
TypeOK ==
    /\ lastSeq \in [Interviews -> Nat]
    /\ purged \subseteq Interviews
    /\ invites \subseteq Invites
    /\ accepted \subseteq Invites
    /\ sessions \subseteq Invites
    /\ lastDiff \in [Invites -> Nat]
    /\ scores \subseteq Invites
    /\ outbox \subseteq Event
    /\ nextId \in Nat
    /\ tx \in [Workers -> Tx]
    /\ relay \in [Relays -> [batch : SUBSET Event, sent : SUBSET Event,
                             locked : BOOLEAN]]
    /\ log \in [Invites -> Seq(Event)]
    /\ requests \in Nat
    /\ failures \in Nat

SameInterview(e, f) == InterviewOf[e.v] = InterviewOf[f.v]

(* Two different events of an interview never carry the same sequence      *)
(* number, and none carries one that the interview has not allocated:      *)
(* consumers deduplicate on (interview, sequence number), so a clash would *)
(* silently drop an event.  Completions count: their number was reserved   *)
(* by the prompt's transaction and is used long after it committed.        *)
SequenceUnique ==
    \A e, f \in Recorded :
        /\ e.seq \in 1..lastSeq[InterviewOf[e.v]]
        /\ SameInterview(e, f) /\ e.seq = f.seq => e = f

(* No number is skipped and no committed event is lost: each allocated     *)
(* number belongs to an event that is in the outbox or in Kafka, or was    *)
(* reserved by a prompt for its completion.                                *)
SequenceAccounted ==
    \A i \in Interviews : \A n \in 1..lastSeq[i] :
        \E e \in Recorded :
            /\ InterviewOf[e.v] = i
            /\ e.seq = n \/ (e.op = "prompt" /\ e.seq + 1 = n)

(* Kafka receives the outbox events of a session in sequence order: when   *)
(* one is there, so is every committed event of the session before it,     *)
(* whatever was resent and even if two relays were writing at once.        *)
DeliveredInOrder ==
    \A e, f \in Recorded :
        /\ e.v = f.v /\ e.seq < f.seq
        /\ Relayed(e) /\ Relayed(f)
        /\ f \in Delivered(f.v)
        => e \in Delivered(e.v)

(* A state change is committed if and only if its event is, once: an       *)
(* accepted invite has its session and one session.started, a score its    *)
(* score.computed, however many requests race for it; last_diff_sequence   *)
(* is the newest recorded diff, and diffs are numbered in the order the    *)
(* client sent them, which is the order replay applies them in.  A purge   *)
(* leaves no invite, session or score, and no transaction that was under   *)
(* way at the time puts one back.                                          *)
StateMatchesEvents ==
    \A v \in Invites :
        LET of(op) == {e \in Recorded : e.op = op /\ e.v = v}
            gone == InterviewOf[v] \in purged
        IN  /\ v \in accepted <=> of("start") # {}
            /\ v \in sessions <=> (v \in accepted /\ ~gone)
            /\ v \in scores <=> (of("score") # {} /\ ~gone)
            /\ \A op \in {"start", "score"} : \A e, f \in of(op) : e = f
            /\ gone => v \notin invites
            /\ \A e \in of("diff") : e.c <= lastDiff[v]
            /\ lastDiff[v] > 0 => \E e \in of("diff") : e.c = lastDiff[v]
            /\ \A e, f \in of("diff") : e.c < f.c <=> e.seq < f.seq

(* A purge is final: the interview allocates no number and records no      *)
(* event afterwards.                                                       *)
NothingAfterPurge ==
    [][/\ purged \subseteq purged'
       /\ \A i \in purged : lastSeq'[i] = lastSeq[i]
       /\ \A e \in outbox' \ outbox : InterviewOf[e.v] \notin purged]_vars

(* The store, the relays and the gateway together implement SessionStream: *)
(* commits record, the first copy of an event delivers it, resends and     *)
(* rollbacks change nothing a consumer can see.                            *)
Stream == INSTANCE SessionStream
            WITH recorded <- {e \in Recorded : Relayed(e)},
                 delivered <- [v \in Invites |-> Delivered(v)]

ImplementsStream == Stream!Init /\ [][Stream!Next]_(Stream!vars)

(* Every transaction ends: waiting for row locks is always resolved, by    *)
(* the holder finishing or by Postgres breaking a cycle (Purge locks the   *)
(* interview before the session and the invite, RecordDiff and             *)
(* StartSession after).                                                    *)
TransactionsEnd ==
    \A t \in Workers : tx[t].op # "none" ~> tx[t].op = "none"

(* Every committed event reaches Kafka. *)
EventsReachKafka ==
    \A k \in 1..(MaxRequests + MaxFailures) :
        (\E e \in outbox : e.id = k)
            ~> (\E v \in Invites : \E e \in Delivered(v) : e.id = k /\ Relayed(e))

-----------------------------------------------------------------------------
(* The inductive invariant behind the safety properties.                   *)

(* Who holds what: a transaction between its allocation and its commit is  *)
(* alone on its interview's row, and so is a purge past its first          *)
(* statement.                                                              *)
Holds(t) == <<"interview", Iv(t)>> \in tx[t].locks

LockInv ==
    /\ \A t, u \in Workers : \A i \in Interviews :
          <<"interview", i>> \in tx[t].locks /\ <<"interview", i>> \in tx[u].locks
              => t = u
    /\ \A t \in Workers :
          tx[t].pc \in {"write", "commit", "external", "delete"} => Holds(t)

(* What an open transaction has read still holds: its first number follows *)
(* the last committed one, and its row comes after every committed row of  *)
(* the interview.                                                          *)
TxOK(t) ==
    /\ tx[t].op = "none" => tx[t].pc = "idle"
    /\ tx[t].pc \in {"write", "commit"} =>
          /\ tx[t].first = lastSeq[Iv(t)] + 1
          /\ Iv(t) \notin purged
    /\ tx[t].pc = "commit" =>
          /\ tx[t].id < nextId
          /\ \A e \in Recorded : InterviewOf[e.v] = Iv(t) => e.id < tx[t].id
    /\ tx[t].pc = "stream" =>
          \E p \in Recorded : /\ p.op = "prompt" /\ p.id = tx[t].id
                              /\ p.v = tx[t].v /\ p.c = tx[t].c
                              /\ p.seq = tx[t].first

TxInv == \A t \in Workers : TxOK(t)

(* The recorded events: per interview, the order of ids is the order of    *)
(* numbers, and a reserved number belongs to its completion alone.         *)
EventInv ==
    /\ \A v \in Invites : \A e \in Delivered(v) : e.v = v
    /\ \A e \in outbox : Relayed(e)
    /\ \A e \in Recorded : e.id < nextId
    /\ \A e \in Recorded :
          /\ e.seq >= 1
          /\ e.seq + Count(e.op) - 1 <= lastSeq[InterviewOf[e.v]]
          /\ ~Relayed(e) =>
                \E p \in Recorded : /\ p.op = "prompt" /\ p.id = e.id /\ p.v = e.v
                                    /\ p.c = e.c /\ p.seq + 1 = e.seq
    /\ \A e, f \in Recorded :
          Relayed(e) /\ Relayed(f) /\ SameInterview(e, f) =>
              /\ e.seq = f.seq => e = f
              /\ e.seq < f.seq => e.id < f.id
              /\ e.op = "prompt" => f.seq # e.seq + 1

(* A relay's batch is closed downwards within each key, up to what Kafka   *)
(* already has.                                                            *)
RelayOK(r) ==
    /\ relay[r].sent \subseteq relay[r].batch
    /\ \A e \in relay[r].sent : e \in Delivered(e.v)
    /\ \A e \in relay[r].batch : e \in Recorded /\ Relayed(e)
    /\ \A e \in relay[r].batch, f \in Recorded :
          Relayed(f) /\ f.v = e.v /\ f.seq < e.seq =>
              f \in relay[r].batch \/ f \in Delivered(f.v)

RelayInv == IsFiniteSet(outbox) /\ \A r \in Relays : RelayOK(r)

IInv ==
    /\ TypeOK
    /\ LockInv
    /\ TxInv
    /\ EventInv
    /\ RelayInv
    /\ DeliveredInOrder
    /\ SequenceAccounted

(* Behind StateMatchesEvents: one worker at a time holds a row of invites, *)
(* sessions or scores, and no foreign key points into a purge.             *)
RowLockInv ==
    /\ \A t, u \in Workers : \A k \in {"invite", "session", "score"} \X Invites :
          k \in tx[t].locks /\ k \in tx[u].locks => t = u
    /\ \A t, u \in Workers : \A v \in Invites :
          <<"fk", v>> \in tx[t].locks /\ <<"purge", InterviewOf[v]>> \in tx[u].locks => t = u

(* What a transaction's first statements found is still so, because it     *)
(* holds the rows.                                                         *)
Past(t, op) == tx[t].op = op /\ tx[t].pc \in {"alloc", "write", "commit"}

GuardOK(t) ==
    LET v == tx[t].v
    IN  /\ tx[t].pc = "invite" => tx[t].op = "start"
        /\ tx[t].pc = "guard" => tx[t].op = "diff"
        /\ tx[t].pc \in {"insert", "fk"} => tx[t].op = "score"
        /\ tx[t].pc \in {"alloc", "write", "commit"} => tx[t].op # "purge"
        /\ Past(t, "start") => <<"invite", v>> \in tx[t].locks /\ InviteOpen(v)
        /\ Past(t, "diff") => <<"session", v>> \in tx[t].locks /\ DiffIsNewer(v, tx[t].c)
        /\ tx[t].pc = "fk" \/ Past(t, "score") =>
              <<"score", v>> \in tx[t].locks /\ v \notin scores
        /\ Past(t, "score") => <<"fk", v>> \in tx[t].locks /\ v \in sessions
        /\ tx[t].pc \in {"external", "delete"} => <<"purge", Iv(t)>> \in tx[t].locks

StateInv ==
    /\ RowLockInv
    /\ \A t \in Workers : GuardOK(t)
    /\ StateMatchesEvents

=============================================================================
