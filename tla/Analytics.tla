------------------------------ MODULE Analytics -----------------------------
(***************************************************************************)
(* The ClickHouse event log, the materialized views over it, the migration *)
(* that creates and backfills them, and the two readers that must agree:   *)
(* metrics.Compute, over a session's timeline, and the query view          *)
(* v_session_metrics.  The events of one interview are modelled.           *)
(*                                                                         *)
(* A materialized view copies every insert, redelivered or not; a table    *)
(* holds as many copies of an event's row as were inserted, up to          *)
(* MaxCopies, until a FINAL read or a merge makes them one.                *)
(*                                                                         *)
(* A definition named X_Y is X with a fault Y: the properties below must   *)
(* fail when it takes the place of X.                                      *)
(***************************************************************************)
EXTENDS Integers, Sequences, FiniteSets, FiniteSetsExt, SequencesExt

CONSTANTS
    Events,          \* the interview's events
    EventOf,         \* their columns
    Months,          \* months
    Views,           \* the views Migrate creates, in its order
    MaxCopies,       \* bound: copies of a row that are told apart
    MaxRedeliveries, \* bound: events inserted again
    MaxRestarts      \* bound: failed migrations

ActivityTypes == {"session.started", "prompt.submitted", "ai.response.completed",
                  "execution.requested", "execution.completed", "code.diff",
                  "session.submitted", "session.expired"}

BillableTypes == {"session.started", "ai.response.completed", "execution.requested",
                  "execution.completed"}

AllViews == {"mv_session_metrics", "mv_task_daily", "mv_funnel", "mv_billing_usage"}
ViewNames == Range(Views)

(* The dashboard's view, which the Admin API creates. *)
Activity == "interview_activity_mv"
Tables == ViewNames \cup {Activity}

EventRecord == [seq : Nat, at : Nat, type : ActivityTypes \cup {"score.computed"},
                period : Months, status : STRING, mode : {"", "managed", "byok"},
                origin : STRING, input : Nat, output : Nat, added : Nat, removed : Nat]

ASSUME EventsAssumption ==
    /\ IsFiniteSet(Events) /\ Months \subseteq Nat
    /\ DOMAIN EventOf = Events /\ \A e \in Events : EventOf[e] \in EventRecord
    /\ \A d, e \in Events : EventOf[d].seq = EventOf[e].seq => d = e
ASSUME ViewsAssumption ==
    /\ Views \in Seq(AllViews)
    /\ {"mv_session_metrics", "mv_billing_usage"} \subseteq Range(Views)
ASSUME AnalyticsBounds ==
    MaxCopies \in Nat \ {0, 1} /\ MaxRedeliveries \in Nat /\ MaxRestarts \in Nat

VARIABLES
    log,      \* copies of each event in the events table
    rows,     \* copies of each event's row in the target of each view
    made,     \* the views that exist
    mig,      \* where Migrate is
    filled,   \* history: the views that were created and backfilled
    logged,   \* history: the events ever inserted
    purge,    \* the tables the Housekeeper has still to delete from
    lost,     \* history: events purged before each view copied them
    resent,   \* events inserted again so far
    restarts  \* restarts of a migration so far

analyticsVars == <<log, rows, made, mig, filled, logged, purge, lost, resent, restarts>>

NoCopies == [e \in Events |-> 0]
Starting == [pc |-> "check", view |-> 1, read |-> {}]

AnalyticsInit ==
    /\ log = NoCopies
    /\ rows = [v \in Tables |-> NoCopies]
    /\ made = {}
    /\ mig = Starting
    /\ filled = {}
    /\ logged = {}
    /\ purge = "none"
    /\ lost = [v \in ViewNames |-> {}]
    /\ resent = 0
    /\ restarts = 0

-----------------------------------------------------------------------------
(* Writing.                                                                *)

(* The WHERE of each view's SELECT. *)
Selects(v, e) ==
    \/ v = Activity
    \/ EventOf[e].type \in (IF v = "mv_billing_usage" THEN BillableTypes ELSE ActivityTypes)

(* The aggregates of task_daily and funnel_interviews, distinct counts,    *)
(* minima and maxima, take an event's row once.                            *)
Aggregates == {"mv_task_daily", "mv_funnel"}
Most(v) == IF v \in Aggregates THEN 1 ELSE MaxCopies

AddCopies(copies, added, most) ==
    [e \in Events |-> IF e \in added /\ copies[e] < most THEN copies[e] + 1 ELSE copies[e]]

(* An insert of the Event Log Writer; every view there is takes its row.   *)
(* Events come in the order of their sequence numbers, or again.           *)
Insert(e) ==
    /\ \/ e \in logged /\ resent < MaxRedeliveries /\ resent' = resent + 1
       \/ /\ e \notin logged /\ UNCHANGED resent
          /\ \A d \in Events \ logged : EventOf[e].seq <= EventOf[d].seq
    /\ log' = AddCopies(log, {e}, MaxCopies)
    /\ rows' = [v \in Tables |-> IF v \in made /\ Selects(v, e)
                                   THEN AddCopies(rows[v], {e}, Most(v)) ELSE rows[v]]
    /\ logged' = logged \cup {e}
    /\ lost' = [v \in ViewNames |-> lost[v] \ {e}]
    /\ UNCHANGED <<made, mig, filled, purge, restarts>>

-----------------------------------------------------------------------------
(* Migrate, of an event-log-writer that starts while another still writes. *)

View == IF mig.pc = "done" THEN "none" ELSE Views[mig.view]

Migrating(state) ==
    /\ mig' = state
    /\ UNCHANGED <<log, logged, purge, lost, resent>>

NextView == [Starting EXCEPT !.view = mig.view + 1,
                             !.pc = IF mig.view = Len(Views) THEN "done" ELSE "check"]

TableExists ==
    /\ mig.pc = "check"
    /\ Migrating([mig EXCEPT !.pc = IF View \in made THEN "exists" ELSE "create"])
    /\ UNCHANGED <<rows, made, filled, restarts>>

(* The statements of a view that exists do nothing. *)
SkipView ==
    /\ mig.pc = "exists"
    /\ Migrating(NextView)
    /\ UNCHANGED <<rows, made, filled, restarts>>

CreateView ==
    /\ mig.pc = "create"
    /\ made' = made \cup {View}
    /\ Migrating([mig EXCEPT !.pc = "select"])
    /\ UNCHANGED <<rows, filled, restarts>>

(* Backfill: INSERT INTO target SELECT ... FROM events. *)
BackfillSelect ==
    /\ mig.pc = "select"
    /\ Migrating([mig EXCEPT !.pc = "insert", !.read = {e \in Events : log[e] > 0 /\ Selects(View, e)}])
    /\ UNCHANGED <<rows, made, filled, restarts>>

BackfillInsert ==
    /\ mig.pc = "insert"
    /\ rows' = [rows EXCEPT ![View] = AddCopies(@, mig.read, Most(View))]
    /\ filled' = filled \cup {View}
    /\ Migrating(NextView)
    /\ UNCHANGED <<made, restarts>>

(* A statement fails, or the process dies: main exits and starts again. *)
MigrateFails ==
    /\ mig.pc # "done"
    /\ restarts < MaxRestarts /\ restarts' = restarts + 1
    /\ Migrating(Starting)
    /\ UNCHANGED <<rows, made, filled>>

(* EnsureViews of an Admin API that starts: what was logged before is not  *)
(* counted.                                                                *)
EnsureViews ==
    /\ Activity \notin made
    /\ made' = made \cup {Activity}
    /\ UNCHANGED <<log, rows, mig, filled, logged, purge, lost, resent, restarts>>

-----------------------------------------------------------------------------
(* ClickHouseAnalytics.DeleteInterview: one lightweight delete for each of *)
(* the three tables that hold an interview's rows.                         *)

PurgeEvents ==
    /\ purge = "none"
    /\ log' = NoCopies
    /\ purge' = "session_metric_rows"
    /\ lost' = [v \in ViewNames |->
                  {e \in Events : log[e] > 0 /\ rows[v][e] = 0 /\ ~(View = v /\ e \in mig.read)}]
    /\ UNCHANGED <<rows, made, mig, filled, logged, resent, restarts>>

DeleteRows(from, view, to) ==
    /\ purge = from
    /\ rows' = [rows EXCEPT ![view] = NoCopies]
    /\ purge' = to
    /\ UNCHANGED <<log, made, mig, filled, logged, lost, resent, restarts>>

PurgeRows == DeleteRows("session_metric_rows", "mv_session_metrics", "interview_activity")
PurgeActivity == DeleteRows("interview_activity", Activity, "done")

-----------------------------------------------------------------------------
(* Reading.                                                                *)

(* FROM ... FINAL: one row for each key. *)
Final(v, e) == IF rows[v][e] > 0 THEN 1 ELSE 0

One(b) == IF b THEN 1 ELSE 0

(* A row of billing_usage_rows: what an event adds to the usage.  Byok     *)
(* tokens and durations are left out: they are reported and not priced.    *)
BillingRow(e) ==
    LET x == EventOf[e]
        managed == x.type = "ai.response.completed" /\ x.mode = "managed"
    IN [sessions |-> One(x.type = "session.started"), runs |-> One(x.type = "execution.requested"),
        input |-> One(managed) * x.input, output |-> One(managed) * x.output]

(* v_billing_usage of a month; in[e] is how often event e counts. *)
UsageOf(p, in) ==
    [k \in {"sessions", "input", "output", "runs"} |->
        SumFunction([e \in {d \in Events : EventOf[d].period = p} |-> in[e] * BillingRow(e)[k]])]

BillingUsage_Unmerged(p) == UsageOf(p, rows["mv_billing_usage"])
BillingUsage(p) == UsageOf(p, [e \in Events |-> Final("mv_billing_usage", e)])

(* v_task_daily: the distinct events of a kind on one day.  A day is a     *)
(* period here.                                                            *)
TaskDaily(day, present) ==
    [t \in ActivityTypes |-> Cardinality({e \in present : EventOf[e].period = day /\ EventOf[e].type = t})]

(* v_funnel: how far the interview came, counted on the day of its first   *)
(* event.                                                                  *)
Funnel(present) ==
    LET reached(t) == \E e \in present : EventOf[e].type = t
        first == Min({EventOf[e].at : e \in present})
    IN [cohort |-> IF present = {} THEN {} ELSE {EventOf[e].period : e \in {d \in present : EventOf[d].at = first}},
        started |-> reached("session.started"), prompted |-> reached("prompt.submitted"),
        ran |-> reached("execution.requested"),
        succeeded |-> \E e \in present : EventOf[e].type = "execution.completed"
                                        /\ EventOf[e].status = "succeeded",
        submitted |-> reached("session.submitted"), expired |-> reached("session.expired")]

(* A row of session_metric_rows: what an event adds to each metric. *)
MetricRow(e) ==
    LET x == EventOf[e]
        response == x.type = "ai.response.completed"
        run == x.type = "execution.completed"
        diff == x.type = "code.diff"
        applied == diff /\ x.origin = "ai_applied"
    IN [prompts |-> One(x.type = "prompt.submitted"),
        responses |-> One(response), errors |-> One(response /\ x.status = "error"),
        input |-> One(response) * x.input, output |-> One(response) * x.output,
        requested |-> x.type = "execution.requested", completed |-> run,
        runs |-> One(run), succeeded |-> One(run /\ x.status = "succeeded"),
        status |-> x.status,
        diffs |-> One(diff), applied |-> One(applied),
        added |-> One(diff) * x.added, removed |-> One(diff) * x.removed,
        aiAdded |-> One(applied) * x.added]

(* v_session_metrics. *)
NoTime == -1
SessionMetrics ==
    LET row == {e \in Events : rows["mv_session_metrics"][e] > 0}
        sum(metric) == SumFunction([e \in Events |-> Final("mv_session_metrics", e) * MetricRow(e)[metric]])
        runs == {e \in row : MetricRow(e).completed}
        requests == {e \in row : MetricRow(e).requested}
        ats(S) == {EventOf[e].at : e \in S}
    IN [prompts |-> sum("prompts"), responses |-> sum("responses"), errors |-> sum("errors"),
        input |-> sum("input"), output |-> sum("output"),
        runs |-> sum("runs"), succeeded |-> sum("succeeded"),
        last |-> IF runs = {} THEN ""
                 ELSE EventOf[CHOOSE e \in runs : \A d \in runs : EventOf[d].seq <= EventOf[e].seq].status,
        diffs |-> sum("diffs"), applied |-> sum("applied"),
        added |-> sum("added"), removed |-> sum("removed"), aiAdded |-> sum("aiAdded"),
        active |-> Max(ats(row)) - Min(ats(row)),
        firstRun |-> IF requests = {} THEN NoTime ELSE Min(ats(requests)) - Min(ats(row))]

(* A row of interview_activity, a sum for each kind of event and outcome:  *)
(* what Summarize takes from an event of the counts that metrics.Compute   *)
(* has too.                                                                *)
ActivityRow(e) ==
    LET x == EventOf[e]
        diff == x.type = "code.diff"
    IN [prompts |-> One(x.type = "prompt.submitted"), responses |-> One(x.type = "ai.response.completed"),
        succeeded |-> One(x.type = "execution.completed" /\ x.status = "succeeded"),
        diffs |-> One(diff), applied |-> One(diff /\ x.origin = "ai_applied"),
        added |-> One(diff) * x.added, removed |-> One(diff) * x.removed]

Summary ==
    [m \in {"prompts", "responses", "succeeded", "diffs", "applied", "added", "removed"} |->
        SumFunction([e \in Events |-> rows[Activity][e] * ActivityRow(e)[m]])]

-----------------------------------------------------------------------------
(* metrics.Compute.  A timeline is a sequence of events, in any order.     *)

InSequence(S) ==
    [n \in 1..Cardinality(S) |->
        CHOOSE e \in S : Cardinality({d \in S : EventOf[d].seq < EventOf[e].seq}) = n - 1]

(* Ordered by sequence number, later copies dropped. *)
Dedupe_None(timeline) == SortSeq(timeline, LAMBDA d, e : EventOf[d].seq < EventOf[e].seq)
Dedupe(timeline) == InSequence(Range(timeline))

Zero == [prompts |-> 0, responses |-> 0, errors |-> 0, input |-> 0, output |-> 0,
         runs |-> 0, succeeded |-> 0, last |-> "", diffs |-> 0, applied |-> 0,
         added |-> 0, removed |-> 0, aiAdded |-> 0, active |-> 0, firstRun |-> NoTime]

(* The body of Compute's loop for one event. *)
CountEvent(m, e) ==
    LET x == EventOf[e] IN
    CASE x.type = "prompt.submitted" -> [m EXCEPT !.prompts = @ + 1]
      [] x.type = "ai.response.completed" ->
            [m EXCEPT !.responses = @ + 1, !.errors = @ + One(x.status = "error"),
                      !.input = @ + x.input, !.output = @ + x.output]
      [] x.type = "execution.completed" ->
            [m EXCEPT !.runs = @ + 1, !.succeeded = @ + One(x.status = "succeeded"),
                      !.last = x.status]
      [] x.type = "code.diff" ->
            [m EXCEPT !.diffs = @ + 1, !.applied = @ + One(x.origin = "ai_applied"),
                      !.added = @ + x.added, !.removed = @ + x.removed,
                      !.aiAdded = @ + One(x.origin = "ai_applied") * x.added]
      [] OTHER -> m

Compute(timeline) ==
    LET ordered == Dedupe(timeline)
        counts[n \in 0..Len(ordered)] ==
            IF n = 0 THEN Zero ELSE CountEvent(counts[n - 1], ordered[n])
        activity == {e \in Range(ordered) : EventOf[e].type \in ActivityTypes}
        requests == {e \in activity : EventOf[e].type = "execution.requested"}
        ats(S) == {EventOf[e].at : e \in S}
    IN [counts[Len(ordered)] EXCEPT
          !.active = IF activity = {} THEN 0 ELSE Max(ats(activity)) - Min(ats(activity)),
          !.firstRun = IF requests = {} THEN NoTime ELSE Min(ats(requests)) - Min(ats(activity))]

-----------------------------------------------------------------------------

AnalyticsNext ==
    \/ \E e \in Events : Insert(e)
    \/ TableExists \/ SkipView \/ CreateView \/ BackfillSelect \/ BackfillInsert \/ MigrateFails
    \/ EnsureViews
    \/ PurgeEvents \/ PurgeRows \/ PurgeActivity

AnalyticsSpec == AnalyticsInit /\ [][AnalyticsNext]_analyticsVars

-----------------------------------------------------------------------------
(* Properties.                                                             *)

(* Every variable has its type. *)
AnalyticsTypeOK ==
    /\ log \in [Events -> 0..MaxCopies]
    /\ rows \in [Tables -> [Events -> 0..MaxCopies]]
    /\ made \subseteq Tables
    /\ mig \in [pc : {"check", "exists", "create", "select", "insert", "done"},
                view : 1..(Len(Views) + 1), read : SUBSET Events]
    /\ filled \subseteq ViewNames
    /\ logged \subseteq Events
    /\ purge \in {"none", "session_metric_rows", "interview_activity", "done"}
    /\ lost \in [ViewNames -> SUBSET Events]
    /\ resent \in 0..MaxRedeliveries
    /\ restarts \in 0..MaxRestarts

(* The log from the first event and from the last, with one event twice. *)
Timelines ==
    LET inOrder == InSequence({e \in Events : log[e] > 0}) IN
       {Append(t, e) : t \in {inOrder, Reverse(inOrder)}, e \in Range(inOrder)}

(* v_session_metrics mirrors metrics.Compute: once the view is backfilled, *)
(* a session that was not purged has the same metrics in both, although    *)
(* events are redelivered, are inserted while the backfill runs, and reach *)
(* Compute out of order.  The dashboard, whose counts are at-least-once,   *)
(* shows no less, if its view is as old as the session, and the same if    *)
(* nothing was inserted twice.                                             *)
MetricsMirror ==
    /\ ( /\ "mv_session_metrics" \in filled /\ purge = "none"
         /\ \E e \in Events : rows["mv_session_metrics"][e] > 0 )
       => \A t \in Timelines : Compute(t) = SessionMetrics
    /\ purge = "none" /\ logged # {} /\ (\A e \in logged : rows[Activity][e] > 0)
       => LET shown == Summary IN
          \A t \in Timelines :
             LET computed == Compute(t) IN
             \A m \in DOMAIN shown :
                IF resent = 0 THEN computed[m] = shown[m] ELSE computed[m] <= shown[m]

(* Once a view is backfilled it counts every event ever logged, once: the  *)
(* usage that is billed, the daily tasks and the funnel are not changed by *)
(* redelivery, by a backfill that overlaps inserts or by a purge of the    *)
(* interview.  Only what was purged before the view copied it is missing.  *)
EventsCountedOnce ==
    LET kept(v) == logged \ lost[v]
        counted(v) == {e \in Events : rows[v][e] > 0}
        of(v, S) == {e \in S : Selects(v, e)}
    IN /\ "mv_billing_usage" \in filled =>
             \A p \in Months :
                 BillingUsage(p) = UsageOf(p, [e \in Events |-> One(e \in kept("mv_billing_usage"))])
       /\ "mv_task_daily" \in filled =>
             \A day \in Months : TaskDaily(day, counted("mv_task_daily"))
                                  = TaskDaily(day, of("mv_task_daily", kept("mv_task_daily")))
       /\ "mv_funnel" \in filled =>
             Funnel(counted("mv_funnel")) = Funnel(of("mv_funnel", kept("mv_funnel")))

=============================================================================
