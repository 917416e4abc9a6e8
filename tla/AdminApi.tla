------------------------------ MODULE AdminApi ------------------------------
(***************************************************************************)
(* The Admin API, role-based access control and the Housekeeper's purge,   *)
(* over the Postgres rows they share.                                      *)
(*                                                                         *)
(* A request is resolved to a principal, whose role is read once; its      *)
(* handler then runs one statement, or reads a row first and writes it in  *)
(* a second statement.  Other requests and the Housekeeper run in between. *)
(* A statement that names a row of another company finds nothing.          *)
(*                                                                         *)
(* Data that no property tells apart is left out: names, addresses, notes, *)
(* what was decided about a score, a task's status.  `named` says whether  *)
(* an interview's row holds the candidate's name.                          *)
(*                                                                         *)
(* A definition named X_Y is X with a fault Y: the properties below must   *)
(* fail when it takes the place of X.                                      *)
(***************************************************************************)
EXTENDS Integers, FiniteSets

CONSTANTS
    Companies,
    Users, Interviews, Tasks,   \* the ids of rows
    CompanyOf,      \* company_id of each row
    NoRow,          \* NULL
    InitRole,       \* the members a run starts with
    InitInterviews, \* the interviews a run starts with
    Requests,       \* requests handled at a time
    Routes,         \* the resources a run's requests are about
    BodyRoles,      \* the roles request bodies name
    BodyStatuses,   \* the interview statuses request bodies name
    Keys,           \* policy keys
    Housekeepers,
    Retention,      \* housekeeper.Config.Retention
    BatchSize,      \* housekeeper.Config.BatchSize
    Failing,        \* interviews that Typesense never manages to delete
    MaxTime,        \* bound: the clock
    MaxFaults       \* bound: other failed purges, crashes and legal holds

Rows == Users \cup Interviews \cup Tasks

Roles == {"owner", "admin", "recruiter", "interviewer", "viewer"}
Statuses == {"scheduled", "in_progress", "completed", "cancelled"}

AllRoutes == {"company", "users", "interviews", "scores", "tasks", "invites", "policies",
              "erasures"}

ASSUME TenancyAssumption == CompanyOf \in [Rows -> Companies] /\ NoRow \notin Rows
ASSUME MembersAssumption == InitRole \in [Users -> Roles \cup {"none"}]
ASSUME InterviewsAssumption == InitInterviews \subseteq Interviews
ASSUME BodiesAssumption ==
    Routes \subseteq AllRoutes /\ BodyRoles \subseteq Roles /\ BodyStatuses \subseteq Statuses
ASSUME HousekeeperAssumption ==
    /\ Retention \in Nat \ {0} /\ BatchSize \in Nat \ {0} /\ MaxTime \in Nat /\ MaxFaults \in Nat
    /\ Failing \subseteq Interviews

VARIABLES
    role,     \* users.role; "none": no such row yet, "gone": deleted
    iv,       \* the interviews, with their invites, scores and documents
    task,     \* the tasks
    offers,   \* companies that have a member invite for an owner
    setting,  \* company_policies
    req,      \* where the handler of each request is
    hk,       \* what each Housekeeper is doing
    now,      \* the clock
    leaked,   \* history: rows shown to another company
    faults    \* faults so far

vars == <<role, iv, task, offers, setting, req, hk, now, leaked, faults>>
memberVars == <<role, offers, setting>>
environment == <<hk, now, faults>>

Never == -1
Time == 0..MaxTime

NoInterview == [status |-> "none", terminal |-> Never, erase |-> Never, hold |-> FALSE,
                purged |-> FALSE, named |-> FALSE, invited |-> FALSE, score |-> "none",
                docs |-> {}]
(* An interview that was just created.  The candidate's events will reach  *)
(* both stores.                                                            *)
Scheduled == [NoInterview EXCEPT !.status = "scheduled", !.named = TRUE,
                                 !.docs = {"search", "analytics"}]

NoTask == [exists |-> FALSE, interview |-> NoRow, assignee |-> NoRow]

NoRequest == [pc |-> "idle", user |-> NoRow, role |-> "none", row |-> NoRow, to |-> "none"]

NoRun == [pc |-> "run", todo |-> {}, row |-> NoRow, at |-> 0]

Init ==
    /\ role = InitRole
    /\ iv = [i \in Interviews |-> IF i \in InitInterviews THEN Scheduled ELSE NoInterview]
    /\ task = [t \in Tasks |-> NoTask]
    /\ offers = {}
    /\ setting = [c \in Companies |-> [k \in Keys |-> TRUE]]
    /\ req = [q \in Requests |-> NoRequest]
    /\ hk = [h \in Housekeepers |-> NoRun]
    /\ now = 0
    /\ leaked = {}
    /\ faults = 0

-----------------------------------------------------------------------------
(* Access control.                                                         *)

everyone   == Roles
admins     == {"owner", "admin"}
hiring     == {"owner", "admin", "recruiter"}
evaluators == {"owner", "admin", "interviewer"}
staff      == {"owner", "admin", "recruiter", "interviewer"}

policy(permission) ==
    CASE permission \in {"company:write", "users:write", "interviews:erase",
                         "invites:member", "policies:write"} -> admins
      [] permission \in {"interviews:write", "invites:candidate"} -> hiring
      [] permission = "scores:approve" -> evaluators
      [] permission \in {"interviews:live", "tasks:write", "scores:read"} -> staff
      [] OTHER -> everyone

Can(r, permission) == r \in policy(permission)

(* Only owners manage owners; admins manage everyone else. *)
CanManageRole(actor, target) ==
    Can(actor, "users:write") /\ (target # "owner" \/ actor = "owner")

(* The member's session and then role are read; a deleted user has neither. *)
Resolve(q) ==
    /\ req[q].pc = "idle"
    /\ \E u \in Users :
          /\ role[u] \in Roles
          /\ req' = [req EXCEPT ![q] = [@ EXCEPT !.pc = "in", !.user = u, !.role = role[u]]]
    /\ UNCHANGED <<memberVars, iv, task, leaked, environment>>

(* A request of a route, let in by Require. *)
May(q, route, permission) ==
    /\ route \in Routes
    /\ req[q].pc = "in"
    /\ Can(req[q].role, permission)

Company(q) == CompanyOf[req[q].user]

(* WHERE company_id = $1, and the company in every foreign key. *)
InCompany_Unscoped(q, row) == TRUE
InCompany(q, row) == CompanyOf[row] = Company(q)

Member(q, u) == InCompany(q, u) /\ role[u] \in Roles
Interview(q, i) == InCompany(q, i) /\ iv[i].status # "none"

Done(q) == req' = [req EXCEPT ![q] = NoRequest]

(* 400, 403 or 413: the body is invalid or the role too low. *)
BadRequest(q) ==
    /\ req[q].pc = "in"
    /\ Done(q)
    /\ UNCHANGED <<memberVars, iv, task, leaked, environment>>

(* 404, 409, 422 or 503: a row is missing or in the way, a reference       *)
(* wrong, the store out of reach.                                          *)
StoreError(q) ==
    /\ req[q].pc # "idle"
    /\ Done(q)
    /\ UNCHANGED <<memberVars, iv, task, leaked, environment>>

(* The rows of an answer. *)
Answer(q, rows) == leaked' = leaked \cup {r \in rows : CompanyOf[r] # Company(q)}

-----------------------------------------------------------------------------
(* The company and its policies.                                           *)

(* The name is all that a PATCH of the company changes. *)
UpdateCompany(q) ==
    /\ May(q, "company", "company:write")
    /\ Done(q)
    /\ UNCHANGED <<memberVars, iv, task, leaked, environment>>

SetPolicy(q) ==
    /\ May(q, "policies", "policies:write")
    /\ \E k \in Keys, enabled \in BOOLEAN :
          setting' = [setting EXCEPT ![Company(q)][k] = enabled]
    /\ Done(q)
    /\ UNCHANGED <<role, offers, iv, task, leaked, environment>>

(* A missing row means the default, which is on for every key. *)
Enabled(c, k) == k \in Keys => setting[c][k]

(* LiveMonitoring and ReplayAccess: a purged interview is not found. *)
InterviewPolicy(q, i, k) == Interview(q, i) /\ ~iv[i].purged /\ Enabled(Company(q), k)

-----------------------------------------------------------------------------
(* Members.                                                                *)

CreateUser(q) ==
    /\ May(q, "users", "users:write")
    /\ \E u \in Users, r \in BodyRoles :
          /\ CompanyOf[u] = Company(q)
          /\ role[u] = "none"
          /\ CanManageRole(req[q].role, r)
          /\ role' = [role EXCEPT ![u] = r]
    /\ Done(q)
    /\ UNCHANGED <<offers, setting, iv, task, leaked, environment>>

UpdateUserReads_NewRole(q) ==
    /\ May(q, "users", "users:write")
    /\ \E u \in Users, r \in BodyRoles :
          /\ Member(q, u)
          /\ CanManageRole(req[q].role, role[u])
          /\ u = req[q].user => r = req[q].role
          /\ req' = [req EXCEPT ![q] = [@ EXCEPT !.pc = "update", !.row = u, !.to = r]]
    /\ UNCHANGED <<memberVars, iv, task, leaked, environment>>

(* The target is read, and everything checked, before the UPDATE.  A patch *)
(* of the display name alone changes nothing told apart here.              *)
UpdateUserReads(q) ==
    /\ May(q, "users", "users:write")
    /\ \E u \in Users, r \in BodyRoles :
          /\ Member(q, u)
          /\ CanManageRole(req[q].role, role[u])
          /\ CanManageRole(req[q].role, r)
          /\ u = req[q].user => r = req[q].role
          /\ req' = [req EXCEPT ![q] = [@ EXCEPT !.pc = "update", !.row = u, !.to = r]]
    /\ UNCHANGED <<memberVars, iv, task, leaked, environment>>

UpdateUser(q) ==
    /\ req[q].pc = "update"
    /\ Member(q, req[q].row)
    /\ role' = [role EXCEPT ![req[q].row] = req[q].to]
    /\ Done(q)
    /\ UNCHANGED <<offers, setting, iv, task, leaked, environment>>

DeleteUserReads(q) ==
    /\ May(q, "users", "users:write")
    /\ \E u \in Users \ {req[q].user} :
          /\ Member(q, u)
          /\ CanManageRole(req[q].role, role[u])
          /\ req' = [req EXCEPT ![q] = [@ EXCEPT !.pc = "delete", !.row = u]]
    /\ UNCHANGED <<memberVars, iv, task, leaked, environment>>

(* The user's tasks lose their assignee; the user's sessions go too. *)
DeleteUser(q) ==
    /\ req[q].pc = "delete"
    /\ Member(q, req[q].row)
    /\ role' = [role EXCEPT ![req[q].row] = "gone"]
    /\ task' = [t \in Tasks |-> IF task[t].assignee = req[q].row
                                THEN [task[t] EXCEPT !.assignee = NoRow] ELSE task[t]]
    /\ Done(q)
    /\ UNCHANGED <<offers, setting, iv, leaked, environment>>

InviteMember(q) ==
    /\ May(q, "invites", "invites:candidate")
    /\ Can(req[q].role, "invites:member")
    /\ \E r \in BodyRoles :
          /\ CanManageRole(req[q].role, r)
          /\ offers' = IF r = "owner" THEN offers \cup {Company(q)} ELSE offers
    /\ Done(q)
    /\ UNCHANGED <<role, setting, iv, task, leaked, environment>>

-----------------------------------------------------------------------------
(* Interviews.  A statement that writes the row of an interview, or        *)
(* inserts a row that refers to it, waits for a purge that holds its lock. *)

Locked(i) == \E h \in Housekeepers : hk[h].row = i

Terminal(status) == status \in {"completed", "cancelled"}

CreateInterview(q) ==
    /\ May(q, "interviews", "interviews:write")
    /\ \E i \in Interviews :
          /\ CompanyOf[i] = Company(q)
          /\ iv[i].status = "none"
          /\ iv' = [iv EXCEPT ![i] = Scheduled]
    /\ Done(q)
    /\ UNCHANGED <<memberVars, task, leaked, environment>>

(* terminal_at = COALESCE(terminal_at, $7): the first end counts. *)
TerminalAt(i, status) ==
    IF iv[i].terminal = Never /\ Terminal(status) THEN now ELSE iv[i].terminal

(* Any status may follow any other, of an interview in any state. *)
UpdateInterview(q) ==
    /\ May(q, "interviews", "interviews:write")
    /\ \E i \in Interviews, status \in BodyStatuses, renamed \in BOOLEAN :
          /\ Interview(q, i) /\ ~Locked(i)
          /\ iv' = [iv EXCEPT ![i].status = status,
                              ![i].terminal = TerminalAt(i, status),
                              ![i].named = @ \/ renamed]
    /\ Done(q)
    /\ UNCHANGED <<memberVars, task, leaked, environment>>

(* RequestErasure marks; the first request's time is kept. *)
EraseInterview(q) ==
    /\ May(q, "erasures", "interviews:erase")
    /\ \E i \in Interviews :
          /\ Interview(q, i) /\ ~Locked(i)
          /\ iv' = [iv EXCEPT ![i].erase = IF @ = Never THEN now ELSE @]
    /\ Done(q)
    /\ UNCHANGED <<memberVars, task, leaked, environment>>

(* The invite refers to the interview, in whatever state that is. *)
InviteCandidate(q) ==
    /\ May(q, "invites", "invites:candidate")
    /\ \E i \in Interviews :
          /\ Interview(q, i) /\ ~Locked(i)
          /\ iv' = [iv EXCEPT ![i].invited = TRUE]
    /\ Done(q)
    /\ UNCHANGED <<memberVars, task, leaked, environment>>

DecideScore(q) ==
    /\ May(q, "scores", "scores:approve")
    /\ \E i \in Interviews :
          /\ Interview(q, i)
          /\ iv[i].score # "none"
          /\ iv' = [iv EXCEPT ![i].score = "decided"]
    /\ Done(q)
    /\ UNCHANGED <<memberVars, task, leaked, environment>>

(* listScores reads the interview first, then its scores. *)
ListScoresReads(q) ==
    /\ May(q, "scores", "scores:read")
    /\ \E i \in Interviews :
          /\ Interview(q, i)
          /\ req' = [req EXCEPT ![q] = [@ EXCEPT !.pc = "scores", !.row = i]]
    /\ UNCHANGED <<memberVars, iv, task, leaked, environment>>

ListScores(q) ==
    /\ req[q].pc = "scores"
    /\ Answer(q, {i \in {req[q].row} : Interview(q, i) /\ iv[i].score # "none"})
    /\ Done(q)
    /\ UNCHANGED <<memberVars, iv, task, environment>>

(* Scores are proposed and holds set by nothing in this repository. *)
ProposeScore(i) ==
    /\ "scores" \in Routes
    /\ iv[i].status # "none" /\ ~Locked(i)
    /\ iv[i].score = "none"
    /\ iv' = [iv EXCEPT ![i].score = "proposed"]
    /\ UNCHANGED <<memberVars, task, req, leaked, environment>>

SetHold(i) ==
    /\ "interviews" \in Routes
    /\ iv[i].status # "none" /\ ~Locked(i)
    /\ \/ iv[i].hold /\ UNCHANGED faults
       \/ ~iv[i].hold /\ faults < MaxFaults /\ faults' = faults + 1
    /\ iv' = [iv EXCEPT ![i].hold = ~@]
    /\ UNCHANGED <<memberVars, task, req, leaked, hk, now>>

-----------------------------------------------------------------------------
(* Tasks.                                                                  *)

(* The rows a task may refer to, or none. *)
Assignee(q, u) == u # NoRow => Member(q, u)

CreateTask(q) ==
    /\ May(q, "tasks", "tasks:write")
    /\ \E t \in Tasks, i \in Interviews \cup {NoRow}, u \in Users \cup {NoRow} :
          /\ CompanyOf[t] = Company(q)
          /\ ~task[t].exists
          /\ i # NoRow => Interview(q, i) /\ ~Locked(i)
          /\ Assignee(q, u)
          /\ task' = [task EXCEPT ![t] = [exists |-> TRUE, interview |-> i, assignee |-> u]]
    /\ Done(q)
    /\ UNCHANGED <<memberVars, iv, leaked, environment>>

Task(q, t) == InCompany(q, t) /\ task[t].exists

UpdateTask(q) ==
    /\ May(q, "tasks", "tasks:write")
    /\ \E t \in Tasks, u \in Users \cup {NoRow} :
          /\ Task(q, t)
          /\ Assignee(q, u)
          /\ task' = [task EXCEPT ![t].assignee = u]
    /\ Done(q)
    /\ UNCHANGED <<memberVars, iv, leaked, environment>>

DeleteTask(q) ==
    /\ May(q, "tasks", "tasks:write")
    /\ \E t \in Tasks : Task(q, t) /\ task' = [task EXCEPT ![t] = NoTask]
    /\ Done(q)
    /\ UNCHANGED <<memberVars, iv, leaked, environment>>

(* Reads of one row, or of a table. *)
ReadUsers(q) == May(q, "users", "users:read") /\ Answer(q, {u \in Users : Member(q, u)})
ReadInterviews(q) ==
    May(q, "interviews", "interviews:read") /\ Answer(q, {i \in Interviews : Interview(q, i)})
ReadTasks(q) == May(q, "tasks", "tasks:read") /\ Answer(q, {t \in Tasks : Task(q, t)})

(* Watching an interview live. *)
Live(q) ==
    /\ May(q, "policies", "interviews:live")
    /\ Answer(q, {i \in Interviews : InterviewPolicy(q, i, "live_monitoring")})

(* Replaying it, and the dashboards, from the company's rows in ClickHouse. *)
Logged(q, i) == InCompany(q, i) /\ "analytics" \in iv[i].docs
Timeline(q) ==
    /\ May(q, "policies", "interviews:read")
    /\ Answer(q, {i \in Interviews : InterviewPolicy(q, i, "replay") /\ Logged(q, i)})
Dashboard(q) ==
    /\ May(q, "policies", "analytics:read")
    /\ Answer(q, {i \in Interviews : Logged(q, i)})

(* The analytics service's own timeline asks for a member's session only. *)
ReplayTimeline(q) ==
    /\ "policies" \in Routes /\ req[q].pc = "in"
    /\ Answer(q, {i \in Interviews : Logged(q, i)})

Read(q) ==
    /\ ReadUsers(q) \/ ReadInterviews(q) \/ ReadTasks(q)
       \/ Live(q) \/ Timeline(q) \/ Dashboard(q) \/ ReplayTimeline(q)
    /\ Done(q)
    /\ UNCHANGED <<memberVars, iv, task, environment>>

-----------------------------------------------------------------------------
(* The Housekeeper.                                                        *)

(* The retention cutoff is fixed when a run begins. *)
Eligible(i, at) ==
    /\ ~iv[i].purged /\ ~iv[i].hold
    /\ iv[i].erase # Never \/ (iv[i].terminal # Never /\ iv[i].terminal < at - Retention)

(* ORDER BY coalesce(erase_requested_at, terminal_at) LIMIT BatchSize. *)
DueSince(i) == IF iv[i].erase # Never THEN iv[i].erase ELSE iv[i].terminal

Batches_Unordered(at) ==
    LET due == {i \in Interviews : Eligible(i, at)} IN
    {s \in SUBSET due : Cardinality(s) <= BatchSize /\ (s # due => Cardinality(s) = BatchSize)}
Batches(at) ==
    LET due == {i \in Interviews : Eligible(i, at)} IN
    {s \in SUBSET due :
        /\ Cardinality(s) <= BatchSize
        /\ s # due => Cardinality(s) = BatchSize
        /\ \A i \in s, j \in due \ s : DueSince(i) <= DueSince(j)}

Housekeeping(h, state) ==
    /\ hk' = [hk EXCEPT ![h] = state]
    /\ UNCHANGED <<memberVars, task, req, now, leaked>>

Candidates(h) ==
    /\ hk[h].pc = "run" /\ hk[h].todo = {}
    /\ \E s \in Batches(now) \ {{}} : Housekeeping(h, [NoRun EXCEPT !.todo = s, !.at = now])
    /\ UNCHANGED <<iv, faults>>

NextCandidate(h) == [hk[h] EXCEPT !.pc = "run", !.row = NoRow, !.todo = @ \ {hk[h].row},
                                  !.at = IF hk[h].todo \subseteq {hk[h].row} THEN 0 ELSE @]

(* SELECT ... FOR UPDATE: the candidate is checked again under its lock. *)
LockCandidate_Listed(h) ==
    /\ hk[h].pc = "run"
    /\ \E i \in hk[h].todo :
          /\ ~Locked(i)
          /\ Housekeeping(h, [hk[h] EXCEPT !.pc = "search", !.row = i])
    /\ UNCHANGED <<iv, faults>>
LockCandidate(h) ==
    /\ hk[h].pc = "run"
    /\ \E i \in hk[h].todo :
          /\ ~Locked(i)
          /\ IF Eligible(i, hk[h].at)
             THEN Housekeeping(h, [hk[h] EXCEPT !.pc = "search", !.row = i])
             ELSE Housekeeping(h, [hk[h] EXCEPT !.todo = @ \ {i},
                                                !.at = IF hk[h].todo = {i} THEN 0 ELSE @])
    /\ UNCHANGED <<iv, faults>>

(* deleteExternal: Typesense, then ClickHouse. *)
DeleteExternal(h) ==
    /\ \/ /\ hk[h].pc = "search" /\ hk[h].row \notin Failing
          /\ Housekeeping(h, [hk[h] EXCEPT !.pc = "analytics"])
       \/ hk[h].pc = "analytics" /\ Housekeeping(h, [hk[h] EXCEPT !.pc = "commit"])
    /\ iv' = [iv EXCEPT ![hk[h].row].docs = @ \ {hk[h].pc}]
    /\ UNCHANGED faults

Skeleton(i) == [iv[i] EXCEPT !.named = FALSE, !.purged = TRUE, !.invited = FALSE, !.score = "none",
                             !.terminal = IF @ = Never THEN now ELSE @]

Purge(h) ==
    /\ hk[h].pc = "commit"
    /\ iv' = [iv EXCEPT ![hk[h].row] = Skeleton(hk[h].row)]
    /\ Housekeeping(h, NextCandidate(h))
    /\ UNCHANGED faults

(* An interview that cannot be deleted: the transaction rolls back, the    *)
(* failure is reported and the run goes on.                                *)
DeleteRefused(h) ==
    /\ hk[h].pc = "search" /\ hk[h].row \in Failing
    /\ Housekeeping(h, NextCandidate(h))
    /\ UNCHANGED <<iv, faults>>

(* A step of the purge fails, with or without effect on the store it was   *)
(* about; the transaction rolls back and the run goes on or dies.          *)
PurgeFails(h) ==
    /\ hk[h].row # NoRow
    /\ faults < MaxFaults /\ faults' = faults + 1
    /\ \E gone \in {{}, {hk[h].pc}} : iv' = [iv EXCEPT ![hk[h].row].docs = @ \ gone]
    /\ \E next \in {NextCandidate(h), NoRun} : Housekeeping(h, next)

Tick ==
    /\ now < MaxTime
    /\ now' = now + 1
    /\ UNCHANGED <<memberVars, iv, task, req, hk, leaked, faults>>

-----------------------------------------------------------------------------

Write(q) ==
    \/ UpdateCompany(q) \/ SetPolicy(q)
    \/ CreateUser(q) \/ UpdateUserReads(q) \/ UpdateUser(q) \/ DeleteUserReads(q) \/ DeleteUser(q)
    \/ InviteMember(q) \/ CreateInterview(q) \/ UpdateInterview(q) \/ EraseInterview(q)
    \/ InviteCandidate(q) \/ DecideScore(q) \/ CreateTask(q) \/ UpdateTask(q) \/ DeleteTask(q)

PurgeStep(h) == LockCandidate(h) \/ DeleteExternal(h) \/ DeleteRefused(h) \/ Purge(h)

Next ==
    \/ \E q \in Requests : Resolve(q) \/ Write(q) \/ Read(q) \/ ListScoresReads(q) \/ ListScores(q)
                           \/ BadRequest(q) \/ StoreError(q)
    \/ \E i \in Interviews : ProposeScore(i) \/ SetHold(i)
    \/ \E h \in Housekeepers : Candidates(h) \/ PurgeStep(h) \/ PurgeFails(h)
    \/ Tick

Spec == Init /\ [][Next]_vars

(* The Housekeeper's CronJob runs again and again, and its calls return. *)
FairSpec == Spec /\ \A h \in Housekeepers : WF_vars(Candidates(h)) /\ WF_vars(PurgeStep(h))

-----------------------------------------------------------------------------
(* Properties.                                                             *)

InterviewRecord == [status : Statuses \cup {"none"}, terminal : Time \cup {Never},
                    erase : Time \cup {Never}, hold : BOOLEAN, purged : BOOLEAN,
                    named : BOOLEAN, invited : BOOLEAN,
                    score : {"none", "proposed", "decided"},
                    docs : SUBSET {"search", "analytics"}]
TaskRecord == [exists : BOOLEAN, interview : Interviews \cup {NoRow},
               assignee : Users \cup {NoRow}]
RequestRecord == [pc : {"idle", "in", "update", "delete", "scores"}, user : Users \cup {NoRow},
                  role : Roles \cup {"none"}, row : Rows \cup {NoRow}, to : Roles \cup {"none"}]
RunRecord == [pc : {"run", "search", "analytics", "commit"}, todo : SUBSET Interviews,
              row : Interviews \cup {NoRow}, at : Time]

(* Every variable has its type. *)
TypeOK ==
    /\ role \in [Users -> Roles \cup {"none", "gone"}]
    /\ iv \in [Interviews -> InterviewRecord]
    /\ task \in [Tasks -> TaskRecord]
    /\ offers \subseteq Companies
    /\ setting \in [Companies -> [Keys -> BOOLEAN]]
    /\ req \in [Requests -> RequestRecord]
    /\ hk \in [Housekeepers -> RunRecord]
    /\ now \in Time
    /\ leaked \subseteq Rows
    /\ faults \in 0..MaxFaults

Owners(c) == {u \in Users : CompanyOf[u] = c /\ role[u] = "owner"}
OwnerAtWork(c) == \E q \in Requests : req[q].role = "owner" /\ Company(q) = c

(* A company that has no owner, and no request of one under way, never     *)
(* has an owner again, nor an invite for one: an admin cannot make one, by *)
(* creating, changing or inviting a member, although roles are read before *)
(* the statement that uses them and owners are demoted meanwhile.          *)
OwnersFromOwners ==
    [][\A c \in Companies :
          Owners(c) = {} /\ ~OwnerAtWork(c) =>
              Owners(c)' = {} /\ (c \in offers' => c \in offers)]_vars

(* The references of a task stay within its company, and its assignee      *)
(* is a member.                                                            *)
TaskRefs(t) ==
    /\ task[t].interview # NoRow => CompanyOf[task[t].interview] = CompanyOf[t]
    /\ task[t].assignee # NoRow =>
          CompanyOf[task[t].assignee] = CompanyOf[t] /\ role[task[t].assignee] \in Roles

(* What a request knows while it is handled.  The row it has read is one   *)
(* of its company's, and only an owner's request is ever about to make an  *)
(* owner.                                                                  *)
RequestInv(q) ==
    /\ req[q].pc # "idle" => req[q].user \in Users /\ req[q].role \in Roles
    /\ req[q].pc \in {"update", "delete"} => req[q].row \in Users
    /\ req[q].pc = "scores" => req[q].row \in Interviews
    /\ req[q].pc \in {"update", "delete", "scores"} => InCompany(q, req[q].row)
    /\ req[q].pc = "update" =>
          req[q].to \in Roles /\ (req[q].to = "owner" => req[q].role = "owner")

(* The interview a purge holds stays eligible, and is held by no other.    *)
RunInv(h) ==
    /\ hk[h].pc = "run" <=> hk[h].row = NoRow
    /\ hk[h].at <= now
    /\ hk[h].row # NoRow =>
          /\ Eligible(hk[h].row, hk[h].at)
          /\ \A g \in Housekeepers \ {h} : hk[g].row # hk[h].row

(* A row that is not there yet has nothing to delete. *)
Unborn(i) == iv[i].status = "none" => iv[i] = NoInterview

(* A request changes no row of another company, refers to none and is      *)
(* shown none, while members and interviews come and go beneath it.        *)
TenantIsolation ==
    [][/\ \A q \in Requests : req[q].pc # "idle" /\ req'[q] # req[q] =>
             /\ \A u \in Users : CompanyOf[u] # Company(q) => role'[u] = role[u]
             /\ \A i \in Interviews : CompanyOf[i] # Company(q) => iv'[i] = iv[i]
             /\ \A t \in Tasks : CompanyOf[t] # Company(q) => task'[t] = task[t]
             /\ \A c \in Companies \ {Company(q)} : setting'[c] = setting[c]
       /\ \A t \in Tasks : TaskRefs(t)'
       /\ leaked' = {}]_vars

Due(i) == iv[i].erase # Never \/ (iv[i].terminal # Never /\ iv[i].terminal < now - Retention)

(* Nothing of an interview is deleted, in any store, while it is on legal  *)
(* hold, or before erasure was requested or its retention has passed,      *)
(* although the Housekeeper works from a list that may be out of date.     *)
PurgeIsDue ==
    [][\A i \in Interviews :
          iv[i].status # "none" /\ (iv'[i].docs # iv[i].docs \/ iv'[i].purged # iv[i].purged) =>
              ~iv[i].hold /\ Due(i)]_vars

(* As many interviews as a batch holds cannot be deleted and have been due *)
(* for as long: every run lists them.                                      *)
Starved(i) ==
    Cardinality({j \in Failing : Eligible(j, now) /\ DueSince(j) <= DueSince(i)}) >= BatchSize

(* An interview that is due is purged at last, unless it is put on hold:   *)
(* those that became due after it, and fewer than BatchSize that were due  *)
(* before it, may fail for ever.                                           *)
DueIsPurged == \A i \in Interviews \ Failing : Due(i) ~> (iv[i].purged \/ iv[i].hold \/ Starved(i))

=============================================================================
