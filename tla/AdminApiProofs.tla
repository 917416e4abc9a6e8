--------------------------- MODULE AdminApiProofs ---------------------------
(***************************************************************************)
(* Proofs about AdminApi, for any number of companies, members, interviews *)
(* and tasks, of requests handled at a time and of Housekeepers.           *)
(***************************************************************************)
EXTENDS AdminApi, TLAPS

(* The invariant, in four parts. *)
RequestsKnow == \A q \in Requests : RequestInv(q)
PurgesHold == \A h \in Housekeepers : RunInv(h)
RowsBorn == \A i \in Interviews : Unborn(i)
NothingCrosses == leaked = {} /\ \A t \in Tasks : TaskRefs(t)

IInv == TypeOK /\ RequestsKnow /\ PurgesHold /\ RowsBorn /\ NothingCrosses

(* What a step of a request does, besides keeping the invariant: no other  *)
(* request moves, no row of another company changes, only an owner makes   *)
(* an owner, and nothing of an interview is deleted.                       *)
Alone(q) == \A p \in Requests \ {q} : req'[p] = req[p]
Within(q) ==
    /\ \A u \in Users : CompanyOf[u] # Company(q) => role'[u] = role[u]
    /\ \A i \in Interviews : CompanyOf[i] # Company(q) => iv'[i] = iv[i]
    /\ \A t \in Tasks : CompanyOf[t] # Company(q) => task'[t] = task[t]
    /\ \A c \in Companies \ {Company(q)} : setting'[c] = setting[c]
FromOwner(q) ==
    \/ /\ req[q].role = "owner"
       /\ \A u \in Users : CompanyOf[u] # Company(q) => role'[u] = role[u]
       /\ \A c \in offers' : c # Company(q) => c \in offers
    \/ /\ offers' \subseteq offers
       /\ \A u \in Users : role'[u] = "owner" => role[u] = "owner"
NothingDeleted ==
    \A i \in Interviews : iv[i].status # "none" => iv'[i].docs = iv[i].docs /\ iv'[i].purged = iv[i].purged

Handled(q) == IInv' /\ Alone(q) /\ Within(q) /\ FromOwner(q) /\ NothingDeleted

-----------------------------------------------------------------------------
(* Requests.                                                               *)

(* A request's company is one, and so is that of every row it names. *)
LEMMA CompanyTyped ==
    ASSUME TypeOK, RequestsKnow, NEW q \in Requests, req[q].pc # "idle"
    PROVE  Company(q) \in Companies /\ req[q].user \in Users /\ req[q].role \in Roles
  BY TenancyAssumption DEF RequestsKnow, RequestInv, Company, Rows

(* What a request becomes: RequestInv of its record. *)
Knows(r) ==
    /\ r.pc # "idle" => r.user \in Users /\ r.role \in Roles
    /\ r.pc \in {"update", "delete"} => r.row \in Users
    /\ r.pc = "scores" => r.row \in Interviews
    /\ r.pc \in {"update", "delete", "scores"} => CompanyOf[r.row] = CompanyOf[r.user]
    /\ r.pc = "update" => r.to \in Roles /\ (r.to = "owner" => r.role = "owner")

LEMMA ReqStep ==
    ASSUME TypeOK, RequestsKnow, NEW q \in Requests, NEW r \in RequestRecord,
           req' = [req EXCEPT ![q] = r], Knows(r)
    PROVE  /\ req' \in [Requests -> RequestRecord]
           /\ RequestsKnow'
           /\ req'[q] = r
           /\ \A p \in Requests \ {q} : req'[p] = req[p]
<1>1. /\ req' \in [Requests -> RequestRecord] /\ req'[q] = r
      /\ \A p \in Requests \ {q} : req'[p] = req[p]
  BY DEF TypeOK
<1>2. ASSUME NEW p \in Requests PROVE RequestInv(p)'
  <2>1. CASE p = q
    BY <1>1, <2>1 DEF RequestInv, InCompany, Company, Knows
  <2>2. CASE p # q
    BY <1>1, <2>2 DEF RequestInv, RequestsKnow, InCompany, Company
  <2> QED
    BY <2>1, <2>2
<1> QED
  BY <1>1, <1>2 DEF RequestsKnow

(* An answered request is idle again. *)
LEMMA DoneStep ==
    ASSUME TypeOK, RequestsKnow, NEW q \in Requests, Done(q)
    PROVE  /\ req' \in [Requests -> RequestRecord]
           /\ RequestsKnow'
           /\ \A p \in Requests \ {q} : req'[p] = req[p]
<1>1. NoRequest \in RequestRecord
  BY DEF NoRequest, RequestRecord
<1>2. NoRequest.pc = "idle"
  BY DEF NoRequest
<1>3. req' = [req EXCEPT ![q] = NoRequest]
  BY DEF Done
<1>4. Knows(NoRequest)
  BY <1>2 DEF Knows
<1> QED
  BY <1>1, <1>3, <1>4, ReqStep

-----------------------------------------------------------------------------
(* What leaves an invariant alone.                                         *)

(* A purge's interview stays eligible while nothing it depends on moves. *)
LEMMA PurgesKept ==
    ASSUME TypeOK, PurgesHold, UNCHANGED hk, now' \in Time, now' >= now,
           \A i \in Interviews : Locked(i) =>
               /\ iv'[i].purged = iv[i].purged /\ iv'[i].hold = iv[i].hold
               /\ iv'[i].erase = iv[i].erase /\ iv'[i].terminal = iv[i].terminal
    PROVE  PurgesHold'
<1> SUFFICES ASSUME NEW h \in Housekeepers PROVE RunInv(h)'
  BY DEF PurgesHold
<1>1. RunInv(h) /\ hk[h] \in RunRecord
  BY DEF PurgesHold, TypeOK
<1>2. hk[h].at <= now'
  BY <1>1 DEF RunInv, RunRecord, TypeOK, Time
<1>3. hk[h].row # NoRow => hk[h].row \in Interviews /\ Locked(hk[h].row)
  BY <1>1 DEF RunRecord, Locked
<1> QED
  BY <1>1, <1>2, <1>3 DEF RunInv, Eligible

(* Tasks refer to members still. *)
LEMMA TasksKept ==
    ASSUME TypeOK, NothingCrosses, UNCHANGED <<task, leaked>>,
           \A u \in Users : role[u] \in Roles => role'[u] \in Roles
    PROVE  NothingCrosses'
  BY DEF NothingCrosses, TaskRefs, TypeOK, TaskRecord

(* Nothing is answered that is not the company's own. *)
LEMMA OwnAnswer ==
    ASSUME NothingCrosses, NEW q \in Requests, NEW rows, Answer(q, rows),
           \A r \in rows : InCompany(q, r)
    PROVE  leaked' = {}
  BY DEF NothingCrosses, Answer, InCompany

-----------------------------------------------------------------------------
(* Steps that only move a request, or change one table.                    *)

(* A step of a request that changes no row. *)
LEMMA OnlyReq ==
    ASSUME IInv, NEW q \in Requests, req' \in [Requests -> RequestRecord], RequestsKnow', Alone(q),
           UNCHANGED <<memberVars, iv, task, leaked, environment>>
    PROVE  Handled(q)
<1>1. PurgesHold'
  BY PurgesKept DEF IInv, environment, TypeOK, Time
<1>2. NothingCrosses'
  BY TasksKept DEF IInv, memberVars
<1>3. TypeOK' /\ RowsBorn'
  BY DEF IInv, TypeOK, RowsBorn, Unborn, memberVars, environment
<1>4. Within(q) /\ FromOwner(q) /\ NothingDeleted
  BY DEF Within, FromOwner, NothingDeleted, memberVars
<1> QED
  BY <1>1, <1>2, <1>3, <1>4 DEF IInv, Handled

(* A step that changes one interview that no purge holds, or nothing a     *)
(* purge looks at.                                                         *)
LEMMA OnlyInterview ==
    ASSUME IInv, NEW i \in Interviews, NEW r \in InterviewRecord, iv' = [iv EXCEPT ![i] = r],
           req' \in [Requests -> RequestRecord], RequestsKnow',
           \/ ~Locked(i)
           \/ /\ r.purged = iv[i].purged /\ r.hold = iv[i].hold
              /\ r.erase = iv[i].erase /\ r.terminal = iv[i].terminal,
           r.status # "none",
           iv[i].status # "none" => r.docs = iv[i].docs /\ r.purged = iv[i].purged,
           faults' \in 0..MaxFaults,
           UNCHANGED <<memberVars, task, leaked, hk, now>>
    PROVE  /\ IInv' /\ NothingDeleted
           /\ \A q \in Requests : Alone(q) /\ CompanyOf[i] = Company(q) => Handled(q)
<1>1. iv' \in [Interviews -> InterviewRecord] /\ iv'[i] = r /\ \A j \in Interviews \ {i} : iv'[j] = iv[j]
  BY DEF IInv, TypeOK
<1>2. \A j \in Interviews : Locked(j) =>
               /\ iv'[j].purged = iv[j].purged /\ iv'[j].hold = iv[j].hold
               /\ iv'[j].erase = iv[j].erase /\ iv'[j].terminal = iv[j].terminal
  BY <1>1
<1>3. PurgesHold'
  BY <1>2, PurgesKept DEF IInv, TypeOK, Time
<1>4. NothingCrosses'
  BY TasksKept DEF IInv, memberVars
<1>5. RowsBorn'
  BY <1>1 DEF IInv, RowsBorn, Unborn
<1>6. TypeOK'
  BY <1>1 DEF IInv, TypeOK, memberVars
<1>7. IInv'
  BY <1>3, <1>4, <1>5, <1>6 DEF IInv
<1>8. NothingDeleted
  BY <1>1 DEF NothingDeleted
<1>9. ASSUME NEW q \in Requests, Alone(q), CompanyOf[i] = Company(q) PROVE Handled(q)
  <2>1. Within(q) /\ FromOwner(q)
    BY <1>1, <1>9 DEF Within, FromOwner, memberVars
  <2> QED
    BY <1>7, <1>8, <1>9, <2>1 DEF Handled
<1> QED
  BY <1>7, <1>8, <1>9

(* A step of a request that changes members' roles, invites and settings. *)
LEMMA OnlyMembers ==
    ASSUME IInv, NEW q \in Requests,
           role' \in [Users -> Roles \cup {"none", "gone"}], offers' \subseteq Companies,
           setting' \in [Companies -> [Keys -> BOOLEAN]],
           \A u \in Users : role[u] \in Roles => role'[u] \in Roles,
           \A u \in Users : CompanyOf[u] # Company(q) => role'[u] = role[u],
           \A c \in Companies \ {Company(q)} : setting'[c] = setting[c],
           FromOwner(q), req' \in [Requests -> RequestRecord], RequestsKnow', Alone(q),
           UNCHANGED <<iv, task, leaked, environment>>
    PROVE  Handled(q)
<1>1. PurgesHold'
  BY PurgesKept DEF IInv, environment, TypeOK, Time
<1>2. NothingCrosses'
  BY TasksKept DEF IInv
<1>3. TypeOK' /\ RowsBorn'
  BY DEF IInv, TypeOK, RowsBorn, Unborn, environment
<1>4. Within(q) /\ NothingDeleted
  BY DEF Within, NothingDeleted
<1> QED
  BY <1>1, <1>2, <1>3, <1>4 DEF IInv, Handled

(* A step of a request that changes a task of its company. *)
LEMMA OnlyTask ==
    ASSUME IInv, NEW q \in Requests, NEW t \in Tasks, NEW r \in TaskRecord,
           CompanyOf[t] = Company(q), task' = [task EXCEPT ![t] = r],
           r.interview # NoRow => CompanyOf[r.interview] = CompanyOf[t],
           r.assignee # NoRow => CompanyOf[r.assignee] = CompanyOf[t] /\ role[r.assignee] \in Roles,
           req' \in [Requests -> RequestRecord], RequestsKnow', Alone(q),
           UNCHANGED <<memberVars, iv, leaked, environment>>
    PROVE  Handled(q)
<1>1. PurgesHold'
  BY PurgesKept DEF IInv, environment, TypeOK, Time
<1>2. task' \in [Tasks -> TaskRecord] /\ task'[t] = r /\ \A x \in Tasks \ {t} : task'[x] = task[x]
  BY DEF IInv, TypeOK
<1>3. NothingCrosses'
  BY <1>2 DEF IInv, NothingCrosses, TaskRefs, memberVars
<1>4. TypeOK' /\ RowsBorn'
  BY <1>2 DEF IInv, TypeOK, RowsBorn, Unborn, memberVars, environment
<1>5. Within(q) /\ FromOwner(q) /\ NothingDeleted
  BY <1>2 DEF Within, FromOwner, NothingDeleted, memberVars
<1> QED
  BY <1>1, <1>3, <1>4, <1>5 DEF IInv, Handled

-----------------------------------------------------------------------------
(* The session, the company and its members.                               *)

(* The role read with the session is one. *)
LEMMA ResolveInv ==
    ASSUME IInv, NEW q \in Requests, Resolve(q) PROVE Handled(q)
<1>1. PICK u \in Users : /\ role[u] \in Roles
                         /\ req' = [req EXCEPT ![q] = [req[q] EXCEPT !.pc = "in", !.user = u, !.role = role[u]]]
  BY DEF Resolve, IInv, TypeOK
<1>2. req[q] \in RequestRecord
  BY DEF IInv, TypeOK
<1> DEFINE r == [req[q] EXCEPT !.pc = "in", !.user = u, !.role = role[u]]
<1>3. r \in RequestRecord /\ r.pc = "in" /\ r.user = u /\ r.role = role[u]
  BY <1>1, <1>2 DEF RequestRecord
<1>4. req' = [req EXCEPT ![q] = r]
  BY <1>1
<1> HIDE DEF r
<1>5. req' \in [Requests -> RequestRecord] /\ RequestsKnow' /\ Alone(q)
  <2>1. Knows(r)
    BY <1>1, <1>2, <1>3 DEF Knows
  <2> QED
    BY <1>3, <1>4, <2>1, ReqStep DEF IInv, Alone
<1> QED
  BY <1>5, OnlyReq DEF Resolve

(* Answers that change nothing. *)
LEMMA RefusedInv ==
    ASSUME IInv, NEW q \in Requests, BadRequest(q) \/ StoreError(q) \/ UpdateCompany(q)
    PROVE  Handled(q)
<1>1. req' \in [Requests -> RequestRecord] /\ RequestsKnow' /\ Alone(q)
  BY DoneStep DEF IInv, BadRequest, StoreError, UpdateCompany, Alone
<1> QED
  BY <1>1, OnlyReq DEF BadRequest, StoreError, UpdateCompany

(* Only its own company's settings are set. *)
LEMMA SetPolicyInv ==
    ASSUME IInv, NEW q \in Requests, SetPolicy(q) PROVE Handled(q)
<1>1. PICK k \in Keys, enabled \in BOOLEAN : setting' = [setting EXCEPT ![Company(q)][k] = enabled]
  BY DEF SetPolicy
<1>2. Company(q) \in Companies
  BY CompanyTyped DEF IInv, SetPolicy, May
<1>3. setting' \in [Companies -> [Keys -> BOOLEAN]] /\ \A c \in Companies \ {Company(q)} : setting'[c] = setting[c]
  BY <1>1, <1>2 DEF IInv, TypeOK
<1>4. req' \in [Requests -> RequestRecord] /\ RequestsKnow' /\ Alone(q)
  BY DoneStep DEF IInv, SetPolicy, Alone
<1>5. FromOwner(q)
  BY DEF SetPolicy, FromOwner
<1> QED
  BY <1>3, <1>4, <1>5, OnlyMembers DEF SetPolicy, IInv, TypeOK

(* A member of the request's company gets a role, the owner's from an      *)
(* owner.                                                                  *)
LEMMA GiveRole ==
    ASSUME IInv, NEW q \in Requests, NEW u \in Users, NEW r \in Roles,
           CompanyOf[u] = Company(q), role' = [role EXCEPT ![u] = r],
           r = "owner" => req[q].role = "owner",
           Done(q), UNCHANGED <<offers, setting, iv, task, leaked, environment>>
    PROVE  Handled(q)
<1>1. /\ role' \in [Users -> Roles \cup {"none", "gone"}]
      /\ role'[u] = r /\ \A v \in Users \ {u} : role'[v] = role[v]
  BY DEF IInv, TypeOK
<1>2. req' \in [Requests -> RequestRecord] /\ RequestsKnow' /\ Alone(q)
  BY DoneStep DEF IInv, Alone
<1>3. FromOwner(q)
  BY <1>1 DEF FromOwner
<1> QED
  BY <1>1, <1>2, <1>3, OnlyMembers DEF IInv, TypeOK

(* A new member, of its own company. *)
LEMMA CreateUserInv ==
    ASSUME IInv, NEW q \in Requests, CreateUser(q) PROVE Handled(q)
<1>1. PICK u \in Users, r \in BodyRoles :
          /\ CompanyOf[u] = Company(q) /\ role[u] = "none" /\ CanManageRole(req[q].role, r)
          /\ role' = [role EXCEPT ![u] = r]
  BY DEF CreateUser
<1>2. r \in Roles /\ (r = "owner" => req[q].role = "owner")
  BY <1>1, BodiesAssumption DEF CanManageRole
<1> QED
  BY <1>1, <1>2, GiveRole DEF CreateUser

(* A change of role, checked and then made. *)
LEMMA UpdateUserReadsInv ==
    ASSUME IInv, NEW q \in Requests, UpdateUserReads(q) PROVE Handled(q)
<1>1. req[q] \in RequestRecord /\ req[q].user \in Users /\ req[q].role \in Roles
  BY CompanyTyped DEF IInv, TypeOK, UpdateUserReads, May
<1>2. PICK u \in Users, b \in BodyRoles :
          /\ CanManageRole(req[q].role, b) /\ CompanyOf[u] = CompanyOf[req[q].user]
          /\ req' = [req EXCEPT ![q] = [req[q] EXCEPT !.pc = "update", !.row = u, !.to = b]]
  BY DEF UpdateUserReads, IInv, TypeOK, Member, InCompany, Company
<1> DEFINE r == [req[q] EXCEPT !.pc = "update", !.row = u, !.to = b]
<1>3. b \in Roles /\ (b = "owner" => req[q].role = "owner")
  BY <1>2, BodiesAssumption DEF CanManageRole
<1>4. /\ r \in RequestRecord /\ r.pc = "update" /\ r.row = u /\ r.to = b
      /\ r.user = req[q].user /\ r.role = req[q].role
  BY <1>1, <1>3 DEF RequestRecord, Rows
<1>5. req' = [req EXCEPT ![q] = r]
  BY <1>2
<1> HIDE DEF r
<1>6. req' \in [Requests -> RequestRecord] /\ RequestsKnow' /\ Alone(q)
  <2>1. Knows(r)
    BY <1>1, <1>2, <1>3, <1>4 DEF Knows
  <2> QED
    BY <1>4, <1>5, <2>1, ReqStep DEF IInv, Alone
<1> QED
  BY <1>6, OnlyReq DEF UpdateUserReads

(* The member may have changed or gone since, the company has not. *)
LEMMA UpdateUserInv ==
    ASSUME IInv, NEW q \in Requests, UpdateUser(q) PROVE Handled(q)
<1>1. /\ req[q].row \in Users /\ req[q].to \in Roles
      /\ req[q].to = "owner" => req[q].role = "owner"
  BY DEF IInv, RequestsKnow, RequestInv, UpdateUser
<1> QED
  BY <1>1, GiveRole DEF UpdateUser, Member, InCompany

(* A member to delete. *)
LEMMA DeleteUserReadsInv ==
    ASSUME IInv, NEW q \in Requests, DeleteUserReads(q) PROVE Handled(q)
<1>1. req[q] \in RequestRecord /\ req[q].user \in Users /\ req[q].role \in Roles
  BY CompanyTyped DEF IInv, TypeOK, DeleteUserReads, May
<1>2. PICK u \in Users :
          /\ CompanyOf[u] = CompanyOf[req[q].user]
          /\ req' = [req EXCEPT ![q] = [req[q] EXCEPT !.pc = "delete", !.row = u]]
  BY DEF DeleteUserReads, IInv, TypeOK, Member, Interview, InCompany, Company
<1> DEFINE r == [req[q] EXCEPT !.pc = "delete", !.row = u]
<1>3. /\ r \in RequestRecord /\ r.pc = "delete" /\ r.row = u
      /\ r.user = req[q].user /\ r.role = req[q].role
  BY <1>1 DEF RequestRecord, Rows
<1>4. req' = [req EXCEPT ![q] = r]
  BY <1>2
<1> HIDE DEF r
<1>5. req' \in [Requests -> RequestRecord] /\ RequestsKnow' /\ Alone(q)
  <2>1. Knows(r)
    BY <1>1, <1>2, <1>3 DEF Knows
  <2> QED
    BY <1>3, <1>4, <2>1, ReqStep DEF IInv, Alone
<1> QED
  BY <1>5, OnlyReq DEF DeleteUserReads

(* A deleted member's tasks, of the same company, lose their assignee. *)
LEMMA DeleteUserInv ==
    ASSUME IInv, NEW q \in Requests, DeleteUser(q) PROVE Handled(q)
<1> DEFINE u == req[q].row
<1>1. u \in Users /\ u # NoRow /\ CompanyOf[u] = Company(q)
  BY TenancyAssumption DEF IInv, RequestsKnow, RequestInv, DeleteUser, Member, InCompany, Rows
<1>2. role' = [role EXCEPT ![u] = "gone"]
  BY DEF DeleteUser
<1>3. task' = [t \in Tasks |-> IF task[t].assignee = u THEN [task[t] EXCEPT !.assignee = NoRow] ELSE task[t]]
  BY DEF DeleteUser
<1> HIDE DEF u
<1>4. /\ role' \in [Users -> Roles \cup {"none", "gone"}]
      /\ role'[u] = "gone" /\ \A v \in Users \ {u} : role'[v] = role[v]
  BY <1>1, <1>2 DEF IInv, TypeOK
<1>5. ASSUME NEW t \in Tasks
      PROVE  /\ task'[t] \in TaskRecord /\ TaskRefs(t)'
             /\ CompanyOf[t] # Company(q) => task'[t] = task[t]
  <2>1. task[t] \in TaskRecord /\ TaskRefs(t)
    BY DEF IInv, TypeOK, NothingCrosses
  <2>2. CASE task[t].assignee = u
    <3>1. task'[t] = [task[t] EXCEPT !.assignee = NoRow]
      BY <1>3, <2>2
    <3>2. task'[t] \in TaskRecord /\ task'[t].assignee = NoRow /\ task'[t].interview = task[t].interview
      BY <2>1, <3>1 DEF TaskRecord
    <3> QED
      BY <1>1, <2>1, <2>2, <3>2 DEF TaskRefs
  <2>3. CASE task[t].assignee # u
    <3>1. task'[t] = task[t]
      BY <1>3, <2>3
    <3>2. task[t].assignee # NoRow => task[t].assignee \in Users \ {u}
      BY <2>1, <2>3 DEF TaskRecord
    <3> QED
      BY <1>4, <2>1, <3>1, <3>2 DEF TaskRefs
  <2> QED
    BY <2>2, <2>3
<1>6. req' \in [Requests -> RequestRecord] /\ RequestsKnow' /\ Alone(q)
  BY DoneStep DEF IInv, DeleteUser, Alone
<1>7. task' \in [Tasks -> TaskRecord]
  BY <1>3, <1>5
<1>8. TypeOK' /\ RowsBorn'
  BY <1>4, <1>6, <1>7 DEF IInv, TypeOK, RowsBorn, Unborn, DeleteUser, environment
<1>9. PurgesHold'
  BY PurgesKept DEF IInv, DeleteUser, environment, TypeOK, Time
<1>10. NothingCrosses'
  BY <1>5 DEF IInv, NothingCrosses, DeleteUser
<1>11. Within(q) /\ FromOwner(q) /\ NothingDeleted
  BY <1>1, <1>4, <1>5 DEF Within, FromOwner, NothingDeleted, DeleteUser
<1> QED
  BY <1>6, <1>8, <1>9, <1>10, <1>11 DEF IInv, Handled

(* An invite for an owner comes from one. *)
LEMMA InviteMemberInv ==
    ASSUME IInv, NEW q \in Requests, InviteMember(q) PROVE Handled(q)
<1>1. PICK r \in BodyRoles :
          /\ CanManageRole(req[q].role, r)
          /\ offers' = IF r = "owner" THEN offers \cup {Company(q)} ELSE offers
  BY DEF InviteMember
<1>2. Company(q) \in Companies
  BY CompanyTyped DEF IInv, InviteMember, May
<1>3. req' \in [Requests -> RequestRecord] /\ RequestsKnow' /\ Alone(q)
  BY DoneStep DEF IInv, InviteMember, Alone
<1>4. offers' \subseteq Companies
  BY <1>1, <1>2 DEF IInv, TypeOK
<1>5. FromOwner(q)
  BY <1>1 DEF FromOwner, CanManageRole, InviteMember
<1> QED
  BY <1>3, <1>4, <1>5, OnlyMembers DEF InviteMember, IInv, TypeOK

-----------------------------------------------------------------------------
(* Interviews and tasks.                                                   *)

(* No purge holds an interview that is not there. *)
LEMMA UnbornFree ==
    ASSUME IInv, NEW i \in Interviews, iv[i].status = "none"
    PROVE  ~Locked(i)
<1> SUFFICES ASSUME NEW h \in Housekeepers, hk[h].row = i PROVE FALSE
  BY DEF Locked
<1>1. i # NoRow
  BY TenancyAssumption DEF Rows
<1>2. Eligible(i, hk[h].at)
  BY <1>1 DEF IInv, PurgesHold, RunInv
<1>3. iv[i] = NoInterview
  BY DEF IInv, RowsBorn, Unborn
<1> QED
  BY <1>2, <1>3 DEF Eligible, NoInterview

(* A new interview of the company. *)
LEMMA CreateInterviewInv ==
    ASSUME IInv, NEW q \in Requests, CreateInterview(q) PROVE Handled(q)
<1>1. PICK i \in Interviews : /\ CompanyOf[i] = Company(q) /\ iv[i].status = "none"
                             /\ iv' = [iv EXCEPT ![i] = Scheduled]
  BY DEF CreateInterview
<1>2. Scheduled \in InterviewRecord /\ Scheduled.status # "none"
  BY DEF Scheduled, NoInterview, InterviewRecord, Statuses
<1>3. req' \in [Requests -> RequestRecord] /\ RequestsKnow' /\ Alone(q)
  BY DoneStep DEF IInv, CreateInterview, Alone
<1>4. faults' \in 0..MaxFaults
  BY DEF CreateInterview, environment, IInv, TypeOK
<1>5. UNCHANGED <<memberVars, task, leaked, hk, now>>
  BY DEF CreateInterview, environment
<1> QED
  BY <1>1, <1>2, <1>3, <1>4, <1>5, UnbornFree, OnlyInterview

(* A step that writes the interview i of the company while no purge holds  *)
(* it.                                                                     *)
LEMMA WriteInterview ==
    ASSUME IInv, NEW q \in Requests, NEW i \in Interviews, NEW r \in InterviewRecord,
           iv' = [iv EXCEPT ![i] = r], Interview(q, i),
           \/ ~Locked(i)
           \/ r.hold = iv[i].hold /\ r.erase = iv[i].erase /\ r.terminal = iv[i].terminal,
           r.status # "none", r.docs = iv[i].docs, r.purged = iv[i].purged,
           Done(q), UNCHANGED <<memberVars, task, leaked, environment>>
    PROVE  Handled(q)
<1>1. req' \in [Requests -> RequestRecord] /\ RequestsKnow' /\ Alone(q)
  BY DoneStep DEF IInv, Alone
<1>2. faults' \in 0..MaxFaults
  BY DEF environment, IInv, TypeOK
<1>3. UNCHANGED <<memberVars, task, leaked, hk, now>>
  BY DEF environment
<1>4. CompanyOf[i] = Company(q)
  BY DEF Interview, InCompany
<1> QED
  BY <1>1, <1>2, <1>3, <1>4, OnlyInterview

(* A change of the status, which keeps the first end. *)
LEMMA UpdateInterviewInv ==
    ASSUME IInv, NEW q \in Requests, UpdateInterview(q) PROVE Handled(q)
<1>1. PICK i \in Interviews, status \in BodyStatuses, renamed \in BOOLEAN :
          /\ Interview(q, i) /\ ~Locked(i)
          /\ iv' = [iv EXCEPT ![i].status = status, ![i].terminal = TerminalAt(i, status),
                              ![i].named = @ \/ renamed]
  BY DEF UpdateInterview
<1>2. iv[i] \in InterviewRecord /\ now \in Time /\ status \in Statuses
  BY BodiesAssumption DEF IInv, TypeOK
<1>3. TerminalAt(i, status) \in Time \cup {Never}
  BY <1>2 DEF TerminalAt, InterviewRecord
<1> DEFINE r == [iv[i] EXCEPT !.status = status, !.terminal = TerminalAt(i, status), !.named = iv[i].named \/ renamed]
<1>4. r \in InterviewRecord /\ r.status = status /\ r.docs = iv[i].docs /\ r.purged = iv[i].purged
  BY <1>2, <1>3 DEF InterviewRecord
<1>5. iv' = [iv EXCEPT ![i] = r]
  BY <1>1, <1>2 DEF IInv, TypeOK
<1> HIDE DEF r
<1>6. status # "none"
  BY <1>2 DEF Statuses
<1> QED
  BY <1>1, <1>4, <1>5, <1>6, WriteInterview DEF UpdateInterview

(* A request for erasure. *)
LEMMA EraseInterviewInv ==
    ASSUME IInv, NEW q \in Requests, EraseInterview(q) PROVE Handled(q)
<1>1. PICK i \in Interviews : /\ Interview(q, i) /\ ~Locked(i)
                             /\ iv' = [iv EXCEPT ![i].erase = IF @ = Never THEN now ELSE @]
  BY DEF EraseInterview
<1>2. iv[i] \in InterviewRecord /\ now \in Time
  BY DEF IInv, TypeOK
<1> DEFINE r == [iv[i] EXCEPT !.erase = IF iv[i].erase = Never THEN now ELSE iv[i].erase]
<1>3. r \in InterviewRecord /\ r.status = iv[i].status /\ r.docs = iv[i].docs /\ r.purged = iv[i].purged
  BY <1>2 DEF InterviewRecord
<1>4. iv' = [iv EXCEPT ![i] = r]
  BY <1>1, <1>2 DEF IInv, TypeOK
<1> HIDE DEF r
<1>5. iv[i].status # "none"
  BY <1>1 DEF Interview
<1> QED
  BY <1>1, <1>3, <1>4, <1>5, WriteInterview DEF EraseInterview

(* An invite for a candidate. *)
LEMMA InviteCandidateInv ==
    ASSUME IInv, NEW q \in Requests, InviteCandidate(q) PROVE Handled(q)
<1>1. PICK i \in Interviews : Interview(q, i) /\ ~Locked(i) /\ iv' = [iv EXCEPT ![i].invited = TRUE]
  BY DEF InviteCandidate
<1>2. iv[i] \in InterviewRecord
  BY DEF IInv, TypeOK
<1> DEFINE r == [iv[i] EXCEPT !.invited = TRUE]
<1>3. r \in InterviewRecord /\ r.status = iv[i].status /\ r.docs = iv[i].docs /\ r.purged = iv[i].purged
  BY <1>2 DEF InterviewRecord
<1>4. iv' = [iv EXCEPT ![i] = r]
  BY <1>1, <1>2 DEF IInv, TypeOK
<1> HIDE DEF r
<1>5. iv[i].status # "none"
  BY <1>1 DEF Interview
<1> QED
  BY <1>1, <1>3, <1>4, <1>5, WriteInterview DEF InviteCandidate

(* A decision about a score, which a purge does not look at. *)
LEMMA DecideScoreInv ==
    ASSUME IInv, NEW q \in Requests, DecideScore(q) PROVE Handled(q)
<1>1. PICK i \in Interviews : Interview(q, i) /\ iv' = [iv EXCEPT ![i].score = "decided"]
  BY DEF DecideScore
<1>2. iv[i] \in InterviewRecord
  BY DEF IInv, TypeOK
<1> DEFINE r == [iv[i] EXCEPT !.score = "decided"]
<1>3. /\ r \in InterviewRecord /\ r.status = iv[i].status /\ r.docs = iv[i].docs /\ r.purged = iv[i].purged
      /\ r.hold = iv[i].hold /\ r.erase = iv[i].erase /\ r.terminal = iv[i].terminal
  BY <1>2 DEF InterviewRecord
<1>4. iv' = [iv EXCEPT ![i] = r]
  BY <1>1, <1>2 DEF IInv, TypeOK
<1> HIDE DEF r
<1>5. iv[i].status # "none"
  BY <1>1 DEF Interview
<1> QED
  BY <1>1, <1>3, <1>4, <1>5, WriteInterview DEF DecideScore

(* A new task refers to an interview and a member of its company. *)
LEMMA CreateTaskInv ==
    ASSUME IInv, NEW q \in Requests, CreateTask(q) PROVE Handled(q)
<1>1. PICK t \in Tasks, i \in Interviews \cup {NoRow}, u \in Users \cup {NoRow} :
          /\ CompanyOf[t] = Company(q)
          /\ i # NoRow => Interview(q, i)
          /\ Assignee(q, u)
          /\ task' = [task EXCEPT ![t] = [exists |-> TRUE, interview |-> i, assignee |-> u]]
  BY DEF CreateTask
<1> DEFINE r == [exists |-> TRUE, interview |-> i, assignee |-> u]
<1>2. r \in TaskRecord /\ r.interview = i /\ r.assignee = u
  BY DEF TaskRecord
<1>3. task' = [task EXCEPT ![t] = r]
  BY <1>1
<1> HIDE DEF r
<1>4. req' \in [Requests -> RequestRecord] /\ RequestsKnow' /\ Alone(q)
  BY DoneStep DEF IInv, CreateTask, Alone
<1>5. /\ i # NoRow => CompanyOf[i] = CompanyOf[t]
      /\ u # NoRow => CompanyOf[u] = CompanyOf[t] /\ role[u] \in Roles
  BY <1>1 DEF Interview, Assignee, Member, InCompany
<1> QED
  BY <1>1, <1>2, <1>3, <1>4, <1>5, OnlyTask DEF CreateTask

(* A task gets another assignee. *)
LEMMA UpdateTaskInv ==
    ASSUME IInv, NEW q \in Requests, UpdateTask(q) PROVE Handled(q)
<1>1. PICK t \in Tasks, u \in Users \cup {NoRow} :
          Task(q, t) /\ Assignee(q, u) /\ task' = [task EXCEPT ![t].assignee = u]
  BY DEF UpdateTask
<1>2. task[t] \in TaskRecord /\ TaskRefs(t)
  BY DEF IInv, TypeOK, NothingCrosses
<1> DEFINE r == [task[t] EXCEPT !.assignee = u]
<1>3. r \in TaskRecord /\ r.interview = task[t].interview /\ r.assignee = u
  BY <1>2 DEF TaskRecord
<1>4. task' = [task EXCEPT ![t] = r]
  BY <1>1, <1>2 DEF IInv, TypeOK
<1> HIDE DEF r
<1>5. req' \in [Requests -> RequestRecord] /\ RequestsKnow' /\ Alone(q)
  BY DoneStep DEF IInv, UpdateTask, Alone
<1>6. /\ CompanyOf[t] = Company(q)
      /\ u # NoRow => CompanyOf[u] = CompanyOf[t] /\ role[u] \in Roles
  BY <1>1 DEF Task, Assignee, Member, InCompany
<1>7. task[t].interview # NoRow => CompanyOf[task[t].interview] = CompanyOf[t]
  BY <1>2 DEF TaskRefs
<1> QED
  BY <1>3, <1>4, <1>5, <1>6, <1>7, OnlyTask DEF UpdateTask

(* A task goes. *)
LEMMA DeleteTaskInv ==
    ASSUME IInv, NEW q \in Requests, DeleteTask(q) PROVE Handled(q)
<1>1. PICK t \in Tasks : Task(q, t) /\ task' = [task EXCEPT ![t] = NoTask]
  BY DEF DeleteTask
<1>2. NoTask \in TaskRecord /\ NoTask.interview = NoRow /\ NoTask.assignee = NoRow
  BY DEF NoTask, TaskRecord
<1>3. req' \in [Requests -> RequestRecord] /\ RequestsKnow' /\ Alone(q)
  BY DoneStep DEF IInv, DeleteTask, Alone
<1>4. CompanyOf[t] = Company(q)
  BY <1>1 DEF Task, InCompany
<1> QED
  BY <1>1, <1>2, <1>3, <1>4, OnlyTask DEF DeleteTask

-----------------------------------------------------------------------------
(* Reads.                                                                  *)

(* An answer of the company's own rows shows nothing else. *)
LEMMA AnswerInv ==
    ASSUME IInv, NEW q \in Requests, NEW rows, Answer(q, rows), \A r \in rows : InCompany(q, r),
           Done(q), UNCHANGED <<memberVars, iv, task, environment>>
    PROVE  Handled(q)
<1>1. req' \in [Requests -> RequestRecord] /\ RequestsKnow' /\ Alone(q)
  BY DoneStep DEF IInv, Alone
<1>2. leaked' = {} /\ leaked = {}
  BY OwnAnswer DEF IInv, NothingCrosses
<1> QED
  BY <1>1, <1>2, OnlyReq

(* Every read is limited to the company in its statement. *)
LEMMA ReadInv == ASSUME IInv, NEW q \in Requests, Read(q) PROVE Handled(q)
<1>1. PICK rows : Answer(q, rows) /\ \A r \in rows : InCompany(q, r)
  BY DEF Read, ReadUsers, ReadInterviews, ReadTasks, Live, Timeline, Dashboard, ReplayTimeline,
         Member, Interview, Task, InterviewPolicy, Logged
<1> QED
  BY <1>1, AnswerInv DEF Read

(* The interview whose scores are to be listed. *)
LEMMA ListScoresReadsInv ==
    ASSUME IInv, NEW q \in Requests, ListScoresReads(q) PROVE Handled(q)
<1>1. req[q] \in RequestRecord /\ req[q].user \in Users /\ req[q].role \in Roles
  BY CompanyTyped DEF IInv, TypeOK, ListScoresReads, May
<1>2. PICK i \in Interviews :
          /\ CompanyOf[i] = CompanyOf[req[q].user]
          /\ req' = [req EXCEPT ![q] = [req[q] EXCEPT !.pc = "scores", !.row = i]]
  BY DEF ListScoresReads, IInv, TypeOK, Member, Interview, InCompany, Company
<1> DEFINE r == [req[q] EXCEPT !.pc = "scores", !.row = i]
<1>3. /\ r \in RequestRecord /\ r.pc = "scores" /\ r.row = i
      /\ r.user = req[q].user /\ r.role = req[q].role
  BY <1>1 DEF RequestRecord, Rows
<1>4. req' = [req EXCEPT ![q] = r]
  BY <1>2
<1> HIDE DEF r
<1>5. req' \in [Requests -> RequestRecord] /\ RequestsKnow' /\ Alone(q)
  <2>1. Knows(r)
    BY <1>1, <1>2, <1>3 DEF Knows
  <2> QED
    BY <1>3, <1>4, <2>1, ReqStep DEF IInv, Alone
<1> QED
  BY <1>5, OnlyReq DEF ListScoresReads

(* Its scores, looked up by company again. *)
LEMMA ListScoresInv ==
    ASSUME IInv, NEW q \in Requests, ListScores(q) PROVE Handled(q)
<1> DEFINE rows == {i \in {req[q].row} : Interview(q, i) /\ iv[i].score # "none"}
<1>1. Answer(q, rows) /\ \A r \in rows : InCompany(q, r)
  BY DEF ListScores, Interview
<1> HIDE DEF rows
<1> QED
  BY <1>1, AnswerInv DEF ListScores

-----------------------------------------------------------------------------
(* What is no request's doing.                                             *)

(* A score is proposed. *)
LEMMA ProposeScoreInv ==
    ASSUME IInv, NEW i \in Interviews, ProposeScore(i)
    PROVE  IInv' /\ NothingDeleted
<1>1. iv[i] \in InterviewRecord
  BY DEF IInv, TypeOK
<1> DEFINE r == [iv[i] EXCEPT !.score = "proposed"]
<1>2. r \in InterviewRecord /\ r.status = iv[i].status /\ r.docs = iv[i].docs /\ r.purged = iv[i].purged
  BY <1>1 DEF InterviewRecord
<1>3. iv' = [iv EXCEPT ![i] = r]
  BY <1>1 DEF ProposeScore, IInv, TypeOK
<1> HIDE DEF r
<1>4. req' \in [Requests -> RequestRecord] /\ RequestsKnow'
  BY DEF ProposeScore, IInv, TypeOK, RequestsKnow, RequestInv, InCompany, Company
<1>5. faults' \in 0..MaxFaults /\ UNCHANGED <<memberVars, task, leaked, hk, now>>
  BY DEF ProposeScore, environment, IInv, TypeOK
<1> QED
  BY <1>2, <1>3, <1>4, <1>5, OnlyInterview DEF ProposeScore

(* A legal hold is set or lifted. *)
LEMMA SetHoldInv ==
    ASSUME IInv, NEW i \in Interviews, SetHold(i)
    PROVE  IInv' /\ NothingDeleted
<1>1. iv[i] \in InterviewRecord
  BY DEF IInv, TypeOK
<1> DEFINE r == [iv[i] EXCEPT !.hold = ~iv[i].hold]
<1>2. r \in InterviewRecord /\ r.status = iv[i].status /\ r.docs = iv[i].docs /\ r.purged = iv[i].purged
  BY <1>1 DEF InterviewRecord
<1>3. iv' = [iv EXCEPT ![i] = r]
  BY <1>1 DEF SetHold, IInv, TypeOK
<1> HIDE DEF r
<1>4. req' \in [Requests -> RequestRecord] /\ RequestsKnow'
  BY DEF SetHold, IInv, TypeOK, RequestsKnow, RequestInv, InCompany, Company
<1>5. faults' \in 0..MaxFaults
  BY HousekeeperAssumption DEF SetHold, IInv, TypeOK
<1>6. UNCHANGED <<memberVars, task, leaked, hk, now>>
  BY DEF SetHold
<1> QED
  BY <1>2, <1>3, <1>4, <1>5, <1>6, OnlyInterview DEF SetHold

(* Time passes. *)
LEMMA TickInv == ASSUME IInv, Tick PROVE IInv' /\ NothingDeleted
<1>1. now' \in Time /\ now' >= now
  BY HousekeeperAssumption DEF Tick, IInv, TypeOK, Time
<1>2. PurgesHold'
  BY <1>1, PurgesKept DEF IInv, Tick
<1>3. NothingCrosses'
  BY TasksKept DEF IInv, Tick, memberVars
<1>4. TypeOK' /\ RowsBorn' /\ RequestsKnow'
  BY <1>1 DEF IInv, TypeOK, RowsBorn, Unborn, RequestsKnow, RequestInv, InCompany, Company, Tick, memberVars
<1> QED
  BY <1>2, <1>3, <1>4 DEF IInv, NothingDeleted, Tick

-----------------------------------------------------------------------------
(* The Housekeeper.                                                        *)

(* A Housekeeper that holds no row afterwards, or one that is eligible and *)
(* that no other holds.                                                    *)
LEMMA RunStep ==
    ASSUME IInv, NEW h \in Housekeepers, NEW r \in RunRecord, Housekeeping(h, r),
           faults' \in 0..MaxFaults, iv' \in [Interviews -> InterviewRecord], RowsBorn',
           r.pc = "run" <=> r.row = NoRow,
           r.at <= now,
           r.row # NoRow => Eligible(r.row, r.at)' /\ \A g \in Housekeepers \ {h} : hk[g].row # r.row,
           \A g \in Housekeepers \ {h} : hk[g].row # NoRow =>
               /\ iv'[hk[g].row].purged = iv[hk[g].row].purged /\ iv'[hk[g].row].hold = iv[hk[g].row].hold
               /\ iv'[hk[g].row].erase = iv[hk[g].row].erase /\ iv'[hk[g].row].terminal = iv[hk[g].row].terminal
    PROVE  IInv'
<1>1. hk' \in [Housekeepers -> RunRecord] /\ hk'[h] = r /\ \A g \in Housekeepers \ {h} : hk'[g] = hk[g]
  BY DEF IInv, TypeOK, Housekeeping
<1>2. UNCHANGED <<role, offers, setting, task, req, now, leaked>>
  BY DEF Housekeeping, memberVars
<1>3. TypeOK' /\ RequestsKnow'
  BY <1>1, <1>2 DEF IInv, TypeOK, RequestsKnow, RequestInv, InCompany, Company
<1>4. NothingCrosses'
  BY <1>2, TasksKept DEF IInv
<1>5. ASSUME NEW g \in Housekeepers PROVE RunInv(g)'
  <2>1. RunInv(g)
    BY DEF IInv, PurgesHold
  <2>2. CASE g = h
    BY <1>1, <1>2, <2>2 DEF RunInv
  <2>3. CASE g # h
    <3>1. hk[g].row # NoRow => Eligible(hk[g].row, hk[g].at)'
      BY <1>1, <2>1, <2>3 DEF RunInv, Eligible
    <3> QED
      BY <1>1, <1>2, <2>1, <2>3, <3>1 DEF RunInv
  <2> QED
    BY <2>2, <2>3
<1> QED
  BY <1>3, <1>4, <1>5 DEF IInv, PurgesHold

(* The list of a run, with the time it was made. *)
LEMMA CandidatesInv ==
    ASSUME IInv, NEW h \in Housekeepers, Candidates(h)
    PROVE  IInv' /\ NothingDeleted
<1>1. PICK s \in SUBSET Interviews : Housekeeping(h, [NoRun EXCEPT !.todo = s, !.at = now])
  BY DEF Candidates, Batches
<1> DEFINE r == [NoRun EXCEPT !.todo = s, !.at = now]
<1>2. r \in RunRecord /\ r.pc = "run" /\ r.row = NoRow /\ r.at = now
  BY DEF NoRun, RunRecord, IInv, TypeOK
<1>3. Housekeeping(h, r)
  BY <1>1
<1> HIDE DEF r
<1>4. /\ faults' \in 0..MaxFaults /\ iv' = iv /\ iv' \in [Interviews -> InterviewRecord] /\ RowsBorn'
      /\ now \in Int
  BY DEF Candidates, IInv, TypeOK, RowsBorn, Unborn, Time
<1>5. IInv'
  BY <1>2, <1>3, <1>4, RunStep
<1> QED
  BY <1>4, <1>5 DEF NothingDeleted

(* A candidate is locked when it is still eligible, and skipped otherwise. *)
LEMMA LockCandidateInv ==
    ASSUME IInv, NEW h \in Housekeepers, LockCandidate(h)
    PROVE  IInv' /\ NothingDeleted
<1>1. /\ faults' \in 0..MaxFaults /\ iv' = iv /\ iv' \in [Interviews -> InterviewRecord] /\ RowsBorn'
  BY DEF LockCandidate, IInv, TypeOK, RowsBorn, Unborn
<1>2. hk[h] \in RunRecord /\ hk[h].pc = "run" /\ hk[h].row = NoRow /\ hk[h].at <= now /\ now \in Nat
  BY DEF LockCandidate, IInv, TypeOK, PurgesHold, RunInv, Time
<1>3. PICK i \in hk[h].todo :
          /\ ~Locked(i)
          /\ IF Eligible(i, hk[h].at)
             THEN Housekeeping(h, [hk[h] EXCEPT !.pc = "search", !.row = i])
             ELSE Housekeeping(h, [hk[h] EXCEPT !.todo = @ \ {i},
                                                !.at = IF hk[h].todo = {i} THEN 0 ELSE @])
  BY DEF LockCandidate
<1>4. i \in Interviews /\ i # NoRow
  BY <1>2, TenancyAssumption DEF RunRecord, Rows
<1>5. CASE Eligible(i, hk[h].at)
  <2>1. [hk[h] EXCEPT !.pc = "search", !.row = i] \in RunRecord
    BY <1>2, <1>4 DEF RunRecord
  <2>2. PICK r \in RunRecord : r = [hk[h] EXCEPT !.pc = "search", !.row = i]
    BY <2>1
  <2>3. r.pc = "search" /\ r.row = i /\ r.at = hk[h].at
    BY <1>2, <2>2 DEF RunRecord
  <2>4. Housekeeping(h, r)
    BY <1>3, <1>5, <2>2
  <2>5. Eligible(i, r.at)
    BY <1>5, <2>3
  <2>6. Eligible(r.row, r.at)' /\ \A g \in Housekeepers \ {h} : hk[g].row # r.row
    BY <1>1, <1>3, <2>3, <2>5 DEF Eligible, Locked
  <2> QED
    BY <1>1, <1>2, <1>4, <2>3, <2>4, <2>6, RunStep DEF NothingDeleted
<1>6. CASE ~Eligible(i, hk[h].at)
  <2>1. PICK at \in Time : at = (IF hk[h].todo = {i} THEN 0 ELSE hk[h].at) /\ at <= now
    BY <1>2, HousekeeperAssumption DEF RunRecord, Time
  <2> DEFINE r == [hk[h] EXCEPT !.todo = hk[h].todo \ {i}, !.at = at]
  <2>2. r \in RunRecord /\ r.pc = "run" /\ r.row = NoRow /\ r.at <= now
    BY <1>2, <2>1 DEF RunRecord
  <2>3. Housekeeping(h, r)
    BY <1>3, <1>6, <2>1
  <2> HIDE DEF r
  <2> QED
    BY <1>1, <2>2, <2>3, RunStep DEF NothingDeleted
<1> QED
  BY <1>5, <1>6

(* What the interview a purge holds is. *)
LEMMA HeldRow ==
    ASSUME IInv, NEW h \in Housekeepers, hk[h].pc # "run" \/ hk[h].row # NoRow
    PROVE  /\ hk[h] \in RunRecord /\ hk[h].row \in Interviews /\ hk[h].row # NoRow /\ hk[h].pc # "run"
           /\ iv[hk[h].row] \in InterviewRecord /\ iv[hk[h].row].status # "none"
           /\ Eligible(hk[h].row, hk[h].at)
           /\ ~iv[hk[h].row].hold /\ Due(hk[h].row)
           /\ \A g \in Housekeepers \ {h} : hk[g].row # hk[h].row
<1>1. hk[h] \in RunRecord /\ RunInv(h) /\ now \in Nat
  BY DEF IInv, TypeOK, PurgesHold, Time
<1>2. hk[h].row # NoRow /\ hk[h].pc # "run" /\ hk[h].row \in Interviews
  BY <1>1 DEF RunInv, RunRecord
<1>3. Eligible(hk[h].row, hk[h].at) /\ \A g \in Housekeepers \ {h} : hk[g].row # hk[h].row
  BY <1>1, <1>2 DEF RunInv
<1>4. iv[hk[h].row] \in InterviewRecord
  BY <1>2 DEF IInv, TypeOK
<1>5. hk[h].at \in Int /\ hk[h].at <= now /\ Retention \in Int
  BY <1>1, HousekeeperAssumption DEF RunInv, RunRecord, Time
<1>6. iv[hk[h].row].terminal \in Int
  BY <1>4 DEF InterviewRecord, Time, Never
<1>7. ~iv[hk[h].row].hold /\ Due(hk[h].row)
  BY <1>1, <1>3, <1>5, <1>6 DEF Eligible, Due
<1>8. iv[hk[h].row].status # "none"
  <2>1. hk[h].row \in Interviews /\ ~Locked(hk[h].row) => FALSE
    BY DEF Locked
  <2> QED
    BY <1>2, <2>1, UnbornFree
<1> QED
  BY <1>1, <1>2, <1>3, <1>4, <1>7, <1>8

(* What deletes from the interviews only what is due. *)
OnlyDue ==
    \A i \in Interviews :
        iv[i].status # "none" /\ (iv'[i].docs # iv[i].docs \/ iv'[i].purged # iv[i].purged) =>
            ~iv[i].hold /\ Due(i)

(* A purge that deletes documents, and goes on or lets go of the row. *)
LEMMA DocsGone ==
    ASSUME IInv, NEW h \in Housekeepers, hk[h].pc # "run" \/ hk[h].row # NoRow, NEW gone,
           iv' = [iv EXCEPT ![hk[h].row].docs = @ \ gone],
           NEW r \in RunRecord, Housekeeping(h, r), faults' \in 0..MaxFaults,
           r.pc = "run" <=> r.row = NoRow, r.at <= now,
           r.row # NoRow => r.row = hk[h].row /\ r.at = hk[h].at
    PROVE  IInv' /\ OnlyDue
<1> DEFINE i == hk[h].row
           x == [iv[i] EXCEPT !.docs = iv[i].docs \ gone]
<1>1. /\ i \in Interviews /\ iv[i] \in InterviewRecord /\ iv[i].status # "none"
      /\ Eligible(i, hk[h].at) /\ ~iv[i].hold /\ Due(i)
      /\ \A g \in Housekeepers \ {h} : hk[g].row # i
  BY HeldRow
<1>2. /\ x \in InterviewRecord /\ x.status = iv[i].status /\ x.purged = iv[i].purged /\ x.hold = iv[i].hold
      /\ x.erase = iv[i].erase /\ x.terminal = iv[i].terminal
  BY <1>1 DEF InterviewRecord
<1>3. iv' = [iv EXCEPT ![i] = x]
  BY <1>1 DEF IInv, TypeOK
<1> HIDE DEF x
<1>4. iv' \in [Interviews -> InterviewRecord] /\ iv'[i] = x /\ \A j \in Interviews \ {i} : iv'[j] = iv[j]
  BY <1>1, <1>2, <1>3 DEF IInv, TypeOK
<1>5. RowsBorn'
  BY <1>1, <1>2, <1>4 DEF RowsBorn, Unborn, IInv
<1>6. \A g \in Housekeepers \ {h} : hk[g].row # NoRow => hk[g].row \in Interviews \ {i}
  BY <1>1 DEF IInv, TypeOK, RunRecord
<1>7. r.row # NoRow => Eligible(r.row, r.at)' /\ \A g \in Housekeepers \ {h} : hk[g].row # r.row
  BY <1>1, <1>2, <1>4 DEF Eligible
<1>8. IInv'
  BY <1>4, <1>5, <1>6, <1>7, RunStep
<1>9. OnlyDue
  BY <1>1, <1>4 DEF OnlyDue
<1> QED
  BY <1>8, <1>9

(* Typesense, then ClickHouse. *)
LEMMA DeleteExternalInv ==
    ASSUME IInv, NEW h \in Housekeepers, DeleteExternal(h) PROVE IInv' /\ OnlyDue
<1>1. PICK c \in {"analytics", "commit"} : Housekeeping(h, [hk[h] EXCEPT !.pc = c])
  BY DEF DeleteExternal
<1>2. hk[h].pc # "run"
  BY DEF DeleteExternal
<1>3. hk[h] \in RunRecord /\ hk[h].row # NoRow /\ hk[h].at <= now
  BY <1>2, HeldRow DEF IInv, PurgesHold, RunInv
<1> DEFINE r == [hk[h] EXCEPT !.pc = c]
<1>4. r \in RunRecord /\ r.pc = c /\ r.row = hk[h].row /\ r.at = hk[h].at
  BY <1>3 DEF RunRecord
<1>5. Housekeeping(h, r)
  BY <1>1
<1> HIDE DEF r
<1>6. faults' \in 0..MaxFaults
  BY DEF DeleteExternal, IInv, TypeOK
<1>7. iv' = [iv EXCEPT ![hk[h].row].docs = @ \ {hk[h].pc}]
  BY DEF DeleteExternal
<1>8. r.pc = "run" <=> r.row = NoRow
  BY <1>3, <1>4
<1> QED
  BY <1>2, <1>3, <1>4, <1>5, <1>6, <1>7, <1>8, DocsGone

(* The candidate after this one. *)
LEMMA NextTyped ==
    ASSUME IInv, NEW h \in Housekeepers
    PROVE  /\ NextCandidate(h) \in RunRecord /\ NextCandidate(h).pc = "run"
           /\ NextCandidate(h).row = NoRow /\ NextCandidate(h).at <= now
<1>1. hk[h] \in RunRecord /\ hk[h].at <= now /\ now \in Nat
  BY DEF IInv, TypeOK, PurgesHold, RunInv, Time
<1>2. PICK at \in Time : at = (IF hk[h].todo \subseteq {hk[h].row} THEN 0 ELSE hk[h].at) /\ at <= now
  BY <1>1, HousekeeperAssumption DEF RunRecord, Time
<1>3. PICK todo \in SUBSET Interviews : todo = hk[h].todo \ {hk[h].row}
  BY <1>1 DEF RunRecord
<1>4. NextCandidate(h) = [hk[h] EXCEPT !.pc = "run", !.row = NoRow, !.todo = todo, !.at = at]
  BY <1>2, <1>3 DEF NextCandidate
<1> QED
  BY <1>1, <1>2, <1>4 DEF RunRecord

(* Nothing is deleted of an interview that the search service keeps. *)
LEMMA DeleteRefusedInv ==
    ASSUME IInv, NEW h \in Housekeepers, DeleteRefused(h)
    PROVE  IInv' /\ NothingDeleted
<1>1. PICK r \in RunRecord : r = NextCandidate(h) /\ r.pc = "run" /\ r.row = NoRow /\ r.at <= now
  BY NextTyped
<1>2. Housekeeping(h, r)
  BY <1>1 DEF DeleteRefused
<1>3. faults' \in 0..MaxFaults /\ iv' = iv /\ iv' \in [Interviews -> InterviewRecord] /\ RowsBorn'
  BY DEF DeleteRefused, IInv, TypeOK, RowsBorn, Unborn
<1>4. IInv'
  BY <1>1, <1>2, <1>3, RunStep
<1> QED
  BY <1>3, <1>4 DEF NothingDeleted

(* A failed purge lets go of the row. *)
LEMMA PurgeFailsInv ==
    ASSUME IInv, NEW h \in Housekeepers, PurgeFails(h) PROVE IInv' /\ OnlyDue
<1>1. PICK gone \in {{}, {hk[h].pc}} : iv' = [iv EXCEPT ![hk[h].row].docs = @ \ gone]
  BY DEF PurgeFails
<1>2. PICK next \in {NextCandidate(h), NoRun} : Housekeeping(h, next)
  BY DEF PurgeFails
<1>3. next \in RunRecord /\ next.pc = "run" /\ next.row = NoRow /\ next.at <= now
  <2>1. NoRun \in RunRecord /\ NoRun.pc = "run" /\ NoRun.row = NoRow /\ NoRun.at <= now
    BY HousekeeperAssumption DEF NoRun, RunRecord, Time, IInv, TypeOK
  <2> QED
    BY <2>1, NextTyped
<1>4. faults' \in 0..MaxFaults
  BY HousekeeperAssumption DEF PurgeFails, IInv, TypeOK
<1>5. hk[h].row # NoRow
  BY DEF PurgeFails
<1> QED
  BY <1>1, <1>2, <1>3, <1>4, <1>5, DocsGone

(* What is left of a purged interview. *)
LEMMA PurgeInv ==
    ASSUME IInv, NEW h \in Housekeepers, Purge(h) PROVE IInv' /\ OnlyDue
<1> DEFINE i == hk[h].row
<1>1. /\ i \in Interviews /\ iv[i] \in InterviewRecord /\ iv[i].status # "none"
      /\ ~iv[i].hold /\ Due(i)
      /\ \A g \in Housekeepers \ {h} : hk[g].row # i
  BY HeldRow DEF Purge
<1>2. Skeleton(i) \in InterviewRecord /\ Skeleton(i).status = iv[i].status
  BY <1>1 DEF Skeleton, InterviewRecord, IInv, TypeOK
<1>3. iv' = [iv EXCEPT ![i] = Skeleton(i)]
  BY DEF Purge
<1>4. iv' \in [Interviews -> InterviewRecord] /\ iv'[i] = Skeleton(i) /\ \A j \in Interviews \ {i} : iv'[j] = iv[j]
  BY <1>1, <1>2, <1>3 DEF IInv, TypeOK
<1>5. RowsBorn'
  BY <1>1, <1>2, <1>4 DEF RowsBorn, Unborn, IInv
<1>6. \A g \in Housekeepers \ {h} : hk[g].row # NoRow => hk[g].row \in Interviews \ {i}
  BY <1>1 DEF IInv, TypeOK, RunRecord
<1>7. faults' \in 0..MaxFaults /\ Housekeeping(h, NextCandidate(h))
  BY DEF Purge, IInv, TypeOK
<1>8. IInv'
  BY <1>4, <1>5, <1>6, <1>7, NextTyped, RunStep
<1>9. OnlyDue
  BY <1>1, <1>4 DEF OnlyDue
<1> QED
  BY <1>8, <1>9

-----------------------------------------------------------------------------
(* The theorems.                                                           *)

(* The invariant holds at first. *)
LEMMA InitInv == Init => IInv
<1> SUFFICES ASSUME Init PROVE IInv
  OBVIOUS
<1>1. NoInterview \in InterviewRecord /\ Scheduled \in InterviewRecord /\ Scheduled.status # "none"
  BY DEF NoInterview, Scheduled, InterviewRecord, Statuses
<1>2. NoTask \in TaskRecord /\ NoTask.interview = NoRow /\ NoTask.assignee = NoRow
  BY DEF NoTask, TaskRecord
<1>3. NoRequest \in RequestRecord /\ NoRequest.pc = "idle"
  BY DEF NoRequest, RequestRecord
<1>4. NoRun \in RunRecord /\ NoRun.pc = "run" /\ NoRun.row = NoRow /\ NoRun.at = 0
  BY HousekeeperAssumption DEF NoRun, RunRecord, Time
<1>5. iv \in [Interviews -> InterviewRecord] /\ task \in [Tasks -> TaskRecord]
  BY <1>1, <1>2 DEF Init
<1>6. TypeOK
  BY <1>3, <1>4, <1>5, MembersAssumption, HousekeeperAssumption DEF Init, TypeOK, Time
<1>7. RowsBorn
  BY <1>1 DEF Init, RowsBorn, Unborn
<1>8. RequestsKnow /\ PurgesHold /\ NothingCrosses
  BY <1>2, <1>3, <1>4 DEF Init, RequestsKnow, RequestInv, PurgesHold, RunInv, NothingCrosses, TaskRefs
<1> QED
  BY <1>6, <1>7, <1>8 DEF IInv

(* What any step is: a request's, the environment's or the Housekeeper's. *)
LEMMA Steps ==
    ASSUME IInv, Next
    PROVE  /\ IInv'
           /\ \/ \E q \in Requests : Handled(q)
              \/ UNCHANGED <<role, offers, req>> /\ OnlyDue
<1>1. ASSUME NEW q \in Requests,
             Resolve(q) \/ Write(q) \/ Read(q) \/ ListScoresReads(q) \/ ListScores(q)
             \/ BadRequest(q) \/ StoreError(q)
      PROVE  IInv' /\ Handled(q)
  <2>1. Handled(q)
    BY <1>1, ResolveInv, ReadInv, ListScoresReadsInv, ListScoresInv, RefusedInv, SetPolicyInv,
       CreateUserInv, UpdateUserReadsInv, UpdateUserInv, DeleteUserReadsInv, DeleteUserInv,
       InviteMemberInv, CreateInterviewInv, UpdateInterviewInv, EraseInterviewInv,
       InviteCandidateInv, DecideScoreInv, CreateTaskInv, UpdateTaskInv, DeleteTaskInv
       DEF Write
  <2> QED
    BY <2>1 DEF Handled
<1>2. NothingDeleted => OnlyDue
  BY DEF NothingDeleted, OnlyDue
<1>3. ASSUME NEW i \in Interviews, ProposeScore(i) \/ SetHold(i)
      PROVE  IInv' /\ UNCHANGED <<role, offers, req>> /\ OnlyDue
  BY <1>2, <1>3, ProposeScoreInv, SetHoldInv DEF ProposeScore, SetHold, memberVars
<1>4. ASSUME NEW h \in Housekeepers, Candidates(h) \/ PurgeStep(h) \/ PurgeFails(h)
      PROVE  IInv' /\ UNCHANGED <<role, offers, req>> /\ OnlyDue
  <2>1. IInv' /\ OnlyDue
    BY <1>2, <1>4, CandidatesInv, LockCandidateInv, DeleteExternalInv, DeleteRefusedInv, PurgeInv, PurgeFailsInv
       DEF PurgeStep
  <2>2. UNCHANGED <<role, offers, req>>
    BY <1>4 DEF Candidates, PurgeStep, LockCandidate, DeleteExternal, DeleteRefused, Purge, PurgeFails,
               Housekeeping, memberVars
  <2> QED
    BY <2>1, <2>2
<1>5. CASE Tick
  BY <1>2, <1>5, TickInv DEF Tick, memberVars
<1> QED
  BY <1>1, <1>3, <1>4, <1>5 DEF Next

(* Every step keeps the invariant. *)
LEMMA StepInv == IInv /\ [Next]_vars => IInv'
<1> SUFFICES ASSUME IInv, [Next]_vars PROVE IInv'
  OBVIOUS
<1>1. CASE UNCHANGED vars
  BY <1>1 DEF vars, IInv, TypeOK, RequestsKnow, RequestInv, InCompany, Company, PurgesHold, RunInv, Eligible, RowsBorn,
              Unborn, NothingCrosses, TaskRefs
<1> QED
  BY <1>1, Steps

(* In every reachable state the row a request has read and is about to use *)
(* is one of its company's, only an owner's request is about to make an    *)
(* owner, tasks refer to rows of their company, and the interview a purge  *)
(* holds is still eligible and held by no other.                           *)
THEOREM ApiInvariant == Spec => []IInv
  BY InitInv, StepInv, PTL DEF Spec

(* Every variable of the Admin API and the Housekeeper keeps its type.     *)
THEOREM TypeCorrect == Spec => []TypeOK
<1>1. IInv => TypeOK
  BY DEF IInv
<1> QED
  BY <1>1, ApiInvariant, PTL

(* The body of TenantIsolation: what no step of a request does.            *)
Isolated ==
    /\ \A q \in Requests : req[q].pc # "idle" /\ req'[q] # req[q] => Within(q)
    /\ \A t \in Tasks : TaskRefs(t)'
    /\ leaked' = {}

(* No request changes, refers to or is shown a row of another company, for *)
(* any number of companies and of requests that interleave.                *)
THEOREM TenantsIsolated == Spec => TenantIsolation
<1>1. IInv /\ IInv' /\ [Next]_vars => [Isolated]_vars
  <2> SUFFICES ASSUME IInv, IInv', Next PROVE Isolated
    OBVIOUS
  <2>1. leaked' = {} /\ \A t \in Tasks : TaskRefs(t)'
    BY DEF IInv, NothingCrosses
  <2>2. ASSUME NEW q \in Requests, req'[q] # req[q] PROVE Within(q)
    <3>1. PICK p \in Requests : Handled(p)
      BY <2>2, Steps
    <3>2. p = q
      BY <2>2, <3>1 DEF Handled, Alone
    <3> QED
      BY <3>1, <3>2 DEF Handled
  <2> QED
    BY <2>1, <2>2 DEF Isolated
<1>2. IInv /\ IInv' /\ [Next]_vars =>
        [/\ \A q \in Requests : req[q].pc # "idle" /\ req'[q] # req[q] =>
                /\ \A u \in Users : CompanyOf[u] # Company(q) => role'[u] = role[u]
                /\ \A i \in Interviews : CompanyOf[i] # Company(q) => iv'[i] = iv[i]
                /\ \A t \in Tasks : CompanyOf[t] # Company(q) => task'[t] = task[t]
                /\ \A c \in Companies \ {Company(q)} : setting'[c] = setting[c]
         /\ \A t \in Tasks : TaskRefs(t)'
         /\ leaked' = {}]_vars
  BY <1>1 DEF Isolated, Within
<1> QED
  BY <1>2, ApiInvariant, PTL DEF Spec, TenantIsolation

(* A company without an owner, and without a request of one under way,     *)
(* gets none and no invite for one, however many requests interleave.      *)
THEOREM OwnersOnlyFromOwners == Spec => OwnersFromOwners
<1>1. IInv /\ [Next]_vars =>
        [\A c \in Companies : Owners(c) = {} /\ ~OwnerAtWork(c) =>
            Owners(c)' = {} /\ (c \in offers' => c \in offers)]_vars
  <2> SUFFICES ASSUME IInv, Next, NEW c \in Companies, Owners(c) = {}, ~OwnerAtWork(c)
               PROVE  Owners(c)' = {} /\ (c \in offers' => c \in offers)
    OBVIOUS
  <2>1. CASE \E q \in Requests : Handled(q)
    <3>1. PICK q \in Requests : FromOwner(q)
      BY <2>1 DEF Handled
    <3>2. CASE req[q].role = "owner" /\ (\A u \in Users : CompanyOf[u] # Company(q) => role'[u] = role[u])
               /\ (\A d \in offers' : d # Company(q) => d \in offers)
      <4>1. Company(q) # c
        BY <3>2 DEF OwnerAtWork
      <4> QED
        BY <3>2, <4>1 DEF Owners
    <3>3. CASE offers' \subseteq offers /\ \A u \in Users : role'[u] = "owner" => role[u] = "owner"
      BY <3>3 DEF Owners
    <3> QED
      BY <3>1, <3>2, <3>3 DEF FromOwner
  <2>2. CASE UNCHANGED <<role, offers, req>> /\ OnlyDue
    BY <2>2 DEF Owners
  <2> QED
    BY <2>1, <2>2, Steps
<1> QED
  BY <1>1, ApiInvariant, PTL DEF Spec, OwnersFromOwners

(* Nothing of an interview is deleted before it is due or while it is on   *)
(* hold, for any number of Housekeepers and whatever happens between the   *)
(* listing of a candidate and its purge.                                   *)
THEOREM PurgesAreDue == Spec => PurgeIsDue
<1>1. IInv /\ [Next]_vars =>
        [\A i \in Interviews :
            iv[i].status # "none" /\ (iv'[i].docs # iv[i].docs \/ iv'[i].purged # iv[i].purged) =>
                ~iv[i].hold /\ Due(i)]_vars
  <2>1. ASSUME IInv, Next PROVE OnlyDue
    <3>1. \A q \in Requests : Handled(q) => OnlyDue
      BY DEF Handled, NothingDeleted, OnlyDue
    <3> QED
      BY <2>1, <3>1, Steps
  <2> QED
    BY <2>1 DEF OnlyDue
<1> QED
  BY <1>1, ApiInvariant, PTL DEF Spec, PurgeIsDue

=============================================================================
