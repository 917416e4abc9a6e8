------------------------------ MODULE RunFlow ------------------------------
(***************************************************************************)
(* A candidate runs code: RunService.Run in the candidate API takes the    *)
(* session's lock in Redis, stores a snapshot, records the two events of   *)
(* the run and calls the execution sandbox in between; the sandbox runs    *)
(* the program in a container of its own.                                  *)
(*                                                                         *)
(* Each action is one call that leaves a process: to Redis, S3, Postgres,  *)
(* the sandbox or the container engine.  The engine and what it keeps      *)
(* outlive the sandbox process.  A run is an execution id; it is its lock  *)
(* token, its handler in the sandbox and its container too.                *)
(*                                                                         *)
(* A definition named X_Y is X with a fault Y: the properties below must   *)
(* fail when it takes the place of X.                                      *)
(***************************************************************************)
EXTENDS Integers, FiniteSets

CONSTANTS
    Sessions,
    Runs,
    SessionOf,   \* the session of each run
    NoRun,
    Slots,       \* SANDBOX_CONCURRENCY
    MaxFaults    \* bound: failed calls and crashes

ASSUME RunsAssumption ==
    IsFiniteSet(Runs) /\ NoRun \notin Runs /\ SessionOf \in [Runs -> Sessions]
ASSUME SlotsAssumption == Slots \in Nat \ {0} /\ MaxFaults \in Nat

VARIABLES
    lock,       \* the run that holds each session's key in Redis
    run,        \* where RunService.Run is, for each run
    requested,  \* runs whose execution.requested is recorded
    completed,  \* the status in execution.completed, "none" if there is none
    exec,       \* where each run's request is in the sandbox
    used,       \* how many slots are taken
    box,        \* the containers
    strays,     \* containers whose removal failed
    boot,       \* the sandbox process
    listed,     \* the containers Reap has found
    faults      \* faults so far

vars == <<lock, run, requested, completed, exec, used, box, strays, boot, listed, faults>>
apiVars == <<lock, run, requested, completed>>
engineVars == <<box, strays>>
sandboxVars == <<exec, used, boot, listed>>

Fault == faults < MaxFaults /\ faults' = faults + 1
NoFault == UNCHANGED faults

-----------------------------------------------------------------------------
(* RunService.Run.  expired: the lock's TTL has passed.  late: runCtx has   *)
(* ended, after which every call fails.  lost: a record failed, with or    *)
(* without effect.                                                         *)

NoCall == [pc |-> "idle", expired |-> FALSE, late |-> FALSE, lost |-> FALSE,
           status |-> "none"]
NoExec == [pc |-> "none", status |-> "none"]

AtRun(r, pc) == run[r].pc = pc

Active(r) == run[r].pc \in {"put", "request", "send", "call", "complete", "release"}

Go(r, pc) == run' = [run EXCEPT ![r].pc = pc]

(* A call made with runCtx succeeds, or fails. *)
InTime(r) == ~run[r].late /\ NoFault
Fails(r) == (run[r].late /\ NoFault) \/ Fault

(* SET NX: the key is set if there is none. *)
TakeLock(r) ==
    /\ lock[SessionOf[r]] = NoRun
    /\ lock' = [lock EXCEPT ![SessionOf[r]] = r]

Acquire(r) ==
    /\ AtRun(r, "idle")
    /\ TakeLock(r)
    /\ Go(r, "put")
    /\ NoFault
    /\ UNCHANGED <<requested, completed, engineVars, sandboxVars>>

(* ErrRunInProgress. *)
Refuse(r) ==
    /\ AtRun(r, "idle")
    /\ lock[SessionOf[r]] # NoRun
    /\ Go(r, "done")
    /\ NoFault
    /\ UNCHANGED <<lock, requested, completed, engineVars, sandboxVars>>

(* Redis fails, or the candidate disconnects; the key may have been set. *)
AcquireFails(r) ==
    /\ AtRun(r, "idle")
    /\ TakeLock(r) \/ UNCHANGED lock
    /\ Go(r, "done")
    /\ Fault
    /\ UNCHANGED <<requested, completed, engineVars, sandboxVars>>

PutSnapshot(r) ==
    /\ AtRun(r, "put")
    /\ \/ InTime(r) /\ Go(r, "request")
       \/ Fails(r) /\ Go(r, "release")
    /\ UNCHANGED <<lock, requested, completed, engineVars, sandboxVars>>

(* The transaction that records an event may fail before or after its commit. *)
RecordRequested(r) ==
    /\ AtRun(r, "request")
    /\ \/ /\ InTime(r)
          /\ requested' = requested \cup {r}
          /\ Go(r, "send")
       \/ /\ Fails(r)
          /\ requested' \in {requested, requested \cup {r}}
          /\ run' = [run EXCEPT ![r].pc = "release", ![r].lost = TRUE]
    /\ UNCHANGED <<lock, completed, engineVars, sandboxVars>>

Send(r) ==
    /\ AtRun(r, "send")
    /\ boot = "up"
    /\ InTime(r)
    /\ exec' = [exec EXCEPT ![r].pc = "arrived"]
    /\ Go(r, "call")
    /\ UNCHANGED <<lock, requested, completed, engineVars, used, boot, listed>>

Answer(r, status) == run' = [run EXCEPT ![r].pc = "complete", ![r].status = status]

(* execErr != nil: the run is recorded as an error all the same. *)
SandboxUnavailable_Returns(r) == Go(r, "release")
SandboxUnavailable(r) == Answer(r, "error")

SendFails(r) ==
    /\ AtRun(r, "send")
    /\ (boot # "up" /\ NoFault) \/ Fails(r)
    /\ SandboxUnavailable(r)
    /\ UNCHANGED <<lock, requested, completed, engineVars, sandboxVars>>

CallReturns(r) ==
    /\ AtRun(r, "call")
    /\ exec[r].pc = "replied"
    /\ InTime(r)
    /\ IF exec[r].status = "error" THEN SandboxUnavailable(r) ELSE Answer(r, exec[r].status)
    /\ exec' = [exec EXCEPT ![r] = NoExec]
    /\ UNCHANGED <<lock, requested, completed, engineVars, used, boot, listed>>

(* The deadline, the connection or the sandbox ends the call. *)
CallBreaks(r) ==
    /\ AtRun(r, "call")
    /\ (exec[r].pc = "none" /\ NoFault) \/ Fails(r)
    /\ SandboxUnavailable(r)
    /\ exec' = [exec EXCEPT ![r] = IF @.pc = "replied" THEN NoExec ELSE @]
    /\ UNCHANGED <<lock, requested, completed, engineVars, used, boot, listed>>

RecordCompleted(r) ==
    /\ AtRun(r, "complete")
    /\ \/ /\ InTime(r)
          /\ completed' = [completed EXCEPT ![r] = run[r].status]
          /\ run' = [run EXCEPT ![r].pc = "release", ![r].status = "none"]
       \/ /\ Fails(r)
          /\ \E status \in {"none", run[r].status} : completed' = [completed EXCEPT ![r] = status]
          /\ run' = [run EXCEPT ![r].pc = "release", ![r].status = "none", ![r].lost = TRUE]
    /\ UNCHANGED <<lock, requested, engineVars, sandboxVars>>

(* unlockScript: only the holder's own token is deleted. *)
Unlock_Any(r) == lock' = [lock EXCEPT ![SessionOf[r]] = NoRun]
Unlock(r) ==
    lock' = [lock EXCEPT ![SessionOf[r]] = IF @ = r THEN NoRun ELSE @]

(* The deferred release, and the end of Run. *)
Release(r) ==
    /\ AtRun(r, "release")
    /\ \/ InTime(r) /\ Unlock(r)
       \/ Fails(r) /\ (Unlock(r) \/ UNCHANGED lock)
    /\ Go(r, "done")
    /\ UNCHANGED <<requested, completed, engineVars, sandboxVars>>

(* The candidate API's process dies. *)
RunDies(r) ==
    /\ Active(r)
    /\ Fault
    /\ run' = [run EXCEPT ![r].pc = "dead", ![r].status = "none"]
    /\ UNCHANGED <<lock, requested, completed, engineVars, sandboxVars>>

(* LockTTL after SET NX.  runCtx lasts as long but begins a little later.  *)
LockExpires(r) ==
    /\ lock[SessionOf[r]] = r
    /\ lock' = [lock EXCEPT ![SessionOf[r]] = NoRun]
    /\ run' = [run EXCEPT ![r].expired = TRUE]
    /\ UNCHANGED <<requested, completed, engineVars, sandboxVars, faults>>

Deadline(r) ==
    /\ Active(r) /\ run[r].expired /\ ~run[r].late
    /\ run' = [run EXCEPT ![r].late = TRUE]
    /\ UNCHANGED <<lock, requested, completed, engineVars, sandboxVars, faults>>

-----------------------------------------------------------------------------
(* The sandbox: Service.Execute and ContainerRunner.Run.                   *)

InSlot == {"load", "create", "start", "attach", "kill", "stopped", "inspect",
           "remove", "return"}
Handlers == {r \in Runs : exec[r].pc \in InSlot}

AtExec(r, pc) == exec[r].pc = pc

(* The request's context ends when its caller is gone. *)
Gone(r) == ~AtRun(r, "call")

SetExec(r, e) ==
    /\ exec' = [exec EXCEPT ![r] = e]
    /\ UNCHANGED <<apiVars, boot, listed>>

Step(r, pc) == SetExec(r, [exec[r] EXCEPT !.pc = pc]) /\ UNCHANGED used

(* Run returns: the deferred removal of the container comes next. *)
Finish(r, status) == SetExec(r, [pc |-> "remove", status |-> status]) /\ UNCHANGED used

(* The handler answers; nobody hears it if the caller is gone. *)
Reply(r, status) ==
    SetExec(r, IF Gone(r) THEN NoExec ELSE [pc |-> "replied", status |-> status])

ExecFails(r) == (Gone(r) /\ NoFault) \/ Fault

FreeSlot == used < Slots

(* A slot, or ErrBusy at once. *)
TakeSlot(r) ==
    /\ AtExec(r, "arrived")
    /\ IF FreeSlot
       THEN used' = used + 1 /\ SetExec(r, [exec[r] EXCEPT !.pc = "load"])
       ELSE UNCHANGED used /\ Reply(r, "error")
    /\ NoFault
    /\ UNCHANGED engineVars

(* The snapshot is loaded and the engine asked to create the container. *)
LoadSnapshot(r) ==
    /\ AtExec(r, "load")
    /\ box' = [box EXCEPT ![r] = "creating"]
    /\ Step(r, "create")
    /\ NoFault
    /\ UNCHANGED strays

LoadFails(r) ==
    /\ AtExec(r, "load")
    /\ ExecFails(r)
    /\ SetExec(r, [pc |-> "return", status |-> "error"])
    /\ UNCHANGED <<used, engineVars>>

(* The engine goes on with a create whose client is gone. *)
EngineCreates(r) ==
    /\ box[r] = "creating"
    /\ box' = [box EXCEPT ![r] = "created"]
    /\ UNCHANGED <<apiVars, sandboxVars, strays, faults>>

Created(r) ==
    /\ AtExec(r, "create")
    /\ box[r] = "created"
    /\ Step(r, "start")
    /\ NoFault
    /\ UNCHANGED engineVars

CreateFails(r) ==
    /\ AtExec(r, "create")
    /\ ExecFails(r)
    /\ \/ box[r] = "creating" /\ box' = [box EXCEPT ![r] = "none"]
       \/ UNCHANGED box
    /\ Finish(r, "error")
    /\ UNCHANGED strays

Start(r) ==
    /\ AtExec(r, "start")
    /\ box' = [box EXCEPT ![r] = "running"]
    /\ Step(r, "attach")
    /\ NoFault
    /\ UNCHANGED strays

(* start fails before the engine starts the container, or the attached     *)
(* stream breaks or ends; inspect then looks at what there is.             *)
AttachEnds(r) ==
    /\ exec[r].pc \in {"start", "attach"} /\ ~Gone(r)
    /\ (AtExec(r, "attach") /\ box[r] = "exited" /\ NoFault) \/ Fault
    /\ Step(r, "inspect")
    /\ UNCHANGED engineVars

(* The program ends by itself. *)
Exit(r) ==
    /\ box[r] = "running"
    /\ box' = [box EXCEPT ![r] = "exited"]
    /\ UNCHANGED <<apiVars, sandboxVars, strays, faults>>

(* The wall-clock limit, or the caller is gone. *)
TimedOut(r) ==
    /\ exec[r].pc \in {"start", "attach"}
    /\ Step(r, "kill")
    /\ NoFault
    /\ UNCHANGED engineVars

Kill(r) ==
    /\ AtExec(r, "kill")
    /\ box[r] = "running"
    /\ box' = [box EXCEPT ![r] = "exited"]
    /\ Finish(r, IF Gone(r) THEN "error" ELSE "timed_out")
    /\ NoFault
    /\ UNCHANGED strays

(* kill also fails when the container does not run. *)
KillFails(r) ==
    /\ AtExec(r, "kill")
    /\ (box[r] # "running" /\ NoFault) \/ Fault
    /\ IF Gone(r) THEN Finish(r, "error") ELSE Step(r, "stopped")
    /\ UNCHANGED engineVars

(* stopped: an inspect that fails counts as stopped. *)
Stopped(r) ==
    /\ AtExec(r, "stopped")
    /\ \/ NoFault /\ Finish(r, IF box[r] = "running" THEN "error" ELSE "timed_out")
       \/ Fault /\ Finish(r, "timed_out")
    /\ UNCHANGED engineVars

(* The status is that of the container's exit code: "ended" stands for     *)
(* succeeded, failed and oom_killed.                                       *)
Inspect(r) ==
    /\ AtExec(r, "inspect")
    /\ \/ ~Gone(r) /\ NoFault /\ Finish(r, IF box[r] = "running" THEN "error" ELSE "ended")
       \/ ExecFails(r) /\ Finish(r, "error")
    /\ UNCHANGED engineVars

RemovedBy_Unforced(b) == IF b \in {"created", "exited"} THEN "none" ELSE b

(* rm --force. *)
RemovedBy(b) == IF b \in {"created", "running", "exited"} THEN "none" ELSE b

(* The deferred removal, with a context of its own.  Its error is ignored. *)
Remove(r) ==
    /\ AtExec(r, "remove")
    /\ \/ NoFault /\ box' = [box EXCEPT ![r] = RemovedBy(@)] /\ UNCHANGED strays
       \/ Fault /\ strays' = strays \cup {r} /\ UNCHANGED box
    /\ Step(r, "return")

(* Execute's deferred receive, and the reply. *)
Return_KeepsSlot(r) ==
    /\ AtExec(r, "return")
    /\ Reply(r, exec[r].status)
    /\ used' = IF exec[r].status = "error" THEN used ELSE used - 1
    /\ NoFault
    /\ UNCHANGED engineVars

Return(r) ==
    /\ AtExec(r, "return")
    /\ Reply(r, exec[r].status)
    /\ used' = used - 1
    /\ NoFault
    /\ UNCHANGED engineVars

(* The process dies or is stopped, as main does not wait for Shutdown, or  *)
(* it exits because Reap failed.                                           *)
SandboxDies ==
    /\ boot # "down"
    /\ Fault
    /\ boot' = "down"
    /\ exec' = [r \in Runs |-> NoExec]
    /\ used' = 0
    /\ listed' = {}
    /\ UNCHANGED <<apiVars, engineVars>>

ReapList_Skipped ==
    /\ boot = "down"
    /\ boot' = "up"
    /\ UNCHANGED <<apiVars, engineVars, exec, used, listed, faults>>

(* Reap, before the server listens: list, ... *)
ReapList ==
    /\ boot = "down"
    /\ boot' = "reap"
    /\ listed' = {r \in Runs : box[r] \in {"created", "running", "exited"}}
    /\ UNCHANGED <<apiVars, engineVars, exec, used, faults>>

(* ... then remove what was listed. *)
ReapRemove ==
    /\ boot = "reap"
    /\ boot' = "up"
    /\ box' = [r \in Runs |-> IF r \in listed THEN "none" ELSE box[r]]
    /\ strays' = strays \ listed
    /\ listed' = {}
    /\ UNCHANGED <<apiVars, exec, used, faults>>

-----------------------------------------------------------------------------
Init ==
    /\ lock = [s \in Sessions |-> NoRun]
    /\ run = [r \in Runs |-> NoCall]
    /\ requested = {}
    /\ completed = [r \in Runs |-> "none"]
    /\ exec = [r \in Runs |-> NoExec]
    /\ used = 0
    /\ box = [r \in Runs |-> "none"]
    /\ strays = {}
    /\ boot = "up"
    /\ listed = {}
    /\ faults = 0

RunStep(r) ==
    \/ PutSnapshot(r) \/ RecordRequested(r) \/ Send(r) \/ SendFails(r)
    \/ CallReturns(r) \/ CallBreaks(r) \/ RecordCompleted(r) \/ Release(r)

ExecStep(r) ==
    \/ TakeSlot(r) \/ LoadSnapshot(r) \/ LoadFails(r) \/ Created(r) \/ CreateFails(r)
    \/ Start(r) \/ AttachEnds(r) \/ TimedOut(r) \/ Kill(r) \/ KillFails(r)
    \/ Stopped(r) \/ Inspect(r) \/ Remove(r) \/ Return(r)

Next ==
    \/ \E r \in Runs :
          \/ Acquire(r) \/ Refuse(r) \/ AcquireFails(r)
          \/ RunStep(r) \/ RunDies(r) \/ LockExpires(r) \/ Deadline(r)
          \/ ExecStep(r) \/ EngineCreates(r) \/ Exit(r)
    \/ SandboxDies \/ ReapList \/ ReapRemove

Spec == Init /\ [][Next]_vars

(* Calls return, time passes and the sandbox is restarted; nobody has to   *)
(* run code, no program has to end and no fault has to happen.             *)
FairSpec ==
    /\ Spec
    /\ \A r \in Runs :
          /\ WF_vars(NoFault /\ RunStep(r))
          /\ WF_vars(NoFault /\ ExecStep(r))
          /\ WF_vars(EngineCreates(r)) /\ WF_vars(LockExpires(r)) /\ WF_vars(Deadline(r))
    /\ WF_vars(ReapList) /\ WF_vars(ReapRemove)

-----------------------------------------------------------------------------
(* Properties.                                                             *)

Statuses == {"none", "ended", "timed_out", "error"}

RunRecord == [pc : {"idle", "put", "request", "send", "call", "complete",
                    "release", "done", "dead"},
              expired : BOOLEAN, late : BOOLEAN, lost : BOOLEAN, status : Statuses]
ExecRecord == [pc : {"none", "arrived", "replied"} \cup InSlot, status : Statuses]

(* Every variable has its type; no more slots are used than there are. *)
TypeOK ==
    /\ lock \in [Sessions -> Runs \cup {NoRun}]
    /\ run \in [Runs -> RunRecord]
    /\ requested \subseteq Runs
    /\ completed \in [Runs -> Statuses]
    /\ exec \in [Runs -> ExecRecord]
    /\ used \in 0..Slots
    /\ box \in [Runs -> {"none", "creating", "created", "running", "exited"}]
    /\ strays \subseteq Runs /\ listed \subseteq Runs
    /\ boot \in {"up", "down", "reap"}
    /\ faults \in Nat

(* A run whose lock has not expired holds it, so a session has one such    *)
(* run at a time: no late release, lost answer or crash of another run     *)
(* takes the lock away.                                                    *)
OneRunPerSession ==
    \A r \in Runs : Active(r) /\ ~run[r].expired => lock[SessionOf[r]] = r

(* The slots that are taken are those of the executions under way, however *)
(* an execution ends.                                                      *)
SlotsExact == used = Cardinality(Handlers)

(* While the sandbox serves, every program that runs has its handler, but  *)
(* for containers that the engine refused to remove: neither crashes nor   *)
(* callers that disconnect leave one behind.                               *)
NoOrphans ==
    \A r \in Runs :
        boot = "up" /\ box[r] = "running" => r \in Handlers \/ r \in strays

(* The two events of a run tell the truth: none is completed that was not  *)
(* requested; a run that returned was completed if it was requested, but   *)
(* for a record that failed; and a program whose end was recorded does not *)
(* run on, but for containers that the engine refused to remove.           *)
RecordsTrue ==
    \A r \in Runs :
        /\ completed[r] # "none" => r \in requested
        /\ AtRun(r, "done") /\ r \in requested => completed[r] # "none" \/ run[r].lost
        /\ completed[r] \in {"ended", "timed_out"} => box[r] # "running" \/ r \in strays

(* Every program is ended, by itself, by its wall-clock limit, by its      *)
(* caller's end or by Reap.                                                *)
ProgramsEnd ==
    \A r \in Runs : box[r] = "running" ~> box[r] # "running" \/ r \in strays

(* A requested execution is completed, also when the sandbox is busy,      *)
(* fails, dies or cannot be reached: unless the API's process dies, the    *)
(* deadline passes or a record fails.                                      *)
RequestedIsCompleted ==
    \A r \in Runs :
        r \in requested ~> \/ completed[r] # "none"
                           \/ AtRun(r, "dead") \/ run[r].late \/ run[r].lost

Unsent(r) == run[r].pc \in {"idle", "put", "request", "send"}

(* The inductive invariant behind the safety properties: a run's container *)
(* is made after it has got to the sandbox, and one that runs has a        *)
(* handler that will still remove it, or is a stray, or awaits Reap.       *)
BoxInv ==
    /\ boot # "up" => \A r \in Runs : exec[r].pc = "none"
    /\ \A r \in Runs :
          /\ Unsent(r) => exec[r].pc = "none"
          /\ (Unsent(r) \/ exec[r].pc \in {"arrived", "load"}) => box[r] = "none"
          /\ box[r] = "running" =>
                \/ exec[r].pc \in InSlot \ {"load", "return"}
                \/ r \in strays
                \/ boot = "down"
                \/ boot = "reap" /\ r \in listed

(* Behind RecordsTrue: what is recorded of a run follows from where it is, *)
(* and once an end was reported its request has left the sandbox.          *)
EndKnown(r) == {run[r].status, completed[r]} \cap {"ended", "timed_out"} # {}

RecordInv(r) ==
    /\ run[r].pc \in {"idle", "put", "request"} =>
          r \notin requested /\ completed[r] = "none" /\ ~run[r].lost
    /\ run[r].pc \in {"send", "call", "complete"} =>
          r \in requested /\ completed[r] = "none" /\ ~run[r].lost
    /\ run[r].pc \in {"release", "done"} /\ r \in requested => completed[r] # "none" \/ run[r].lost
    /\ completed[r] # "none" => r \in requested
    /\ run[r].status # "none" <=> run[r].pc = "complete"
    /\ exec[r].pc \in {"remove", "return", "replied"} => exec[r].status # "none"
    /\ EndKnown(r) => /\ exec[r].pc = "none" /\ ~Unsent(r)
                      /\ box[r] # "running" \/ r \in strays

RecordsInv == \A r \in Runs : RecordInv(r)

RunInv == TypeOK /\ OneRunPerSession /\ SlotsExact /\ BoxInv

=============================================================================
