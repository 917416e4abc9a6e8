--------------------------- MODULE RunFlowProofs ---------------------------
(***************************************************************************)
(* Proofs about RunFlow, for any number of sessions, runs and slots and    *)
(* any number of faults.                                                   *)
(***************************************************************************)
EXTENDS RunFlow, FiniteSetTheorems, TLAPS

(* Handlers is a finite set, so its cardinality is a number. *)
LEMMA HandlersFinite == IsFiniteSet(Handlers) /\ Cardinality(Handlers) \in Nat
<1>1. Handlers \subseteq Runs
  BY DEF Handlers
<1>2. IsFiniteSet(Handlers)
  BY <1>1, RunsAssumption, FS_Subset
<1> QED
  BY <1>2, FS_CardinalityType

(* A step that neither takes nor gives back a slot. *)
LEMMA SlotsKept ==
    ASSUME SlotsExact, UNCHANGED used, Handlers' = Handlers
    PROVE  SlotsExact'
  BY DEF SlotsExact

(* The initial states satisfy the invariant. *)
LEMMA InitRunInv == Init => RunInv
<1> SUFFICES ASSUME Init PROVE RunInv
  OBVIOUS
<1>1. TypeOK
  BY RunsAssumption, SlotsAssumption DEF Init, TypeOK, RunRecord, ExecRecord, NoCall, NoExec, Statuses
<1>2. OneRunPerSession
  BY DEF Init, OneRunPerSession, Active, NoCall
<1>3. SlotsExact
  <2>1. Handlers = {}
    BY DEF Init, Handlers, NoExec, InSlot
  <2> QED
    BY <2>1, FS_EmptySet DEF Init, SlotsExact
<1>4. BoxInv
  BY DEF Init, BoxInv, Unsent, NoCall, NoExec, InSlot
<1> QED
  BY <1>1, <1>2, <1>3, <1>4 DEF RunInv

(* A call with runCtx leaves the count of faults a number. *)
LEMMA FaultsCounted ==
    ASSUME TypeOK, NEW r \in Runs, InTime(r) \/ Fails(r) \/ NoFault \/ Fault
    PROVE  faults' \in Nat
  BY SlotsAssumption DEF TypeOK, InTime, Fails, NoFault, Fault

(* A run that moves on, with a status, keeps its type. *)
LEMMA RunTyped ==
    ASSUME TypeOK, NEW r \in Runs, NEW pc \in {"complete", "release", "dead"},
           NEW status \in Statuses
    PROVE  [run EXCEPT ![r].pc = pc, ![r].status = status] \in [Runs -> RunRecord]
<1>1. run[r] \in RunRecord
  BY DEF TypeOK
<1>2. [run[r] EXCEPT !.pc = pc, !.status = status] \in RunRecord
  BY <1>1 DEF RunRecord
<1>3. [run EXCEPT ![r].pc = pc, ![r].status = status]
        = [run EXCEPT ![r] = [run[r] EXCEPT !.pc = pc, !.status = status]]
  BY DEF TypeOK
<1> QED
  BY <1>2, <1>3 DEF TypeOK

(* A run that only moves on keeps its type. *)
LEMMA GoTyped ==
    ASSUME TypeOK, NEW r \in Runs, NEW pc \in {"put", "request", "call", "release", "done"}
    PROVE  [run EXCEPT ![r].pc = pc] \in [Runs -> RunRecord]
<1>1. run[r] \in RunRecord
  BY DEF TypeOK
<1>2. [run[r] EXCEPT !.pc = pc] \in RunRecord
  BY <1>1 DEF RunRecord
<1>3. [run EXCEPT ![r].pc = pc] = [run EXCEPT ![r] = [run[r] EXCEPT !.pc = pc]]
  BY DEF TypeOK
<1> QED
  BY <1>2, <1>3 DEF TypeOK

(* So does one whose lock expires, or whose context ends. *)
LEMMA TimeTyped ==
    ASSUME TypeOK, NEW r \in Runs
    PROVE  /\ [run EXCEPT ![r].expired = TRUE] \in [Runs -> RunRecord]
           /\ [run EXCEPT ![r].late = TRUE] \in [Runs -> RunRecord]
<1>1. run[r] \in RunRecord
  BY DEF TypeOK
<1>2. [run[r] EXCEPT !.expired = TRUE] \in RunRecord
  BY <1>1 DEF RunRecord
<1>3. [run[r] EXCEPT !.late = TRUE] \in RunRecord
  BY <1>1 DEF RunRecord
<1>4. [run EXCEPT ![r].expired = TRUE] = [run EXCEPT ![r] = [run[r] EXCEPT !.expired = TRUE]]
  BY DEF TypeOK
<1>5. [run EXCEPT ![r].late = TRUE] = [run EXCEPT ![r] = [run[r] EXCEPT !.late = TRUE]]
  BY DEF TypeOK
<1> QED
  BY <1>2, <1>3, <1>4, <1>5 DEF TypeOK

(* RunInv is kept by a step of RunService.Run that goes forward, gives up  *)
(* no lock but its own and disturbs no handler in the sandbox.             *)
LEMMA ApiFrame ==
    ASSUME RunInv, NEW r \in Runs,
           run' \in [Runs -> RunRecord],
           \A x \in Runs \ {r} : run'[x] = run[x],
           run'[r].expired = run[r].expired,
           Active(r)' => Active(r),
           Unsent(r)' => Unsent(r),
           \/ UNCHANGED lock
           \/ /\ lock[SessionOf[r]] = r /\ ~Active(r)'
              /\ lock' = [lock EXCEPT ![SessionOf[r]] = NoRun],
           requested' \subseteq Runs,
           completed' \in [Runs -> Statuses],
           faults' \in Nat,
           \/ UNCHANGED exec
           \/ exec[r].pc = "replied" /\ exec' = [exec EXCEPT ![r] = NoExec],
           UNCHANGED <<used, boot, listed, engineVars>>
    PROVE  RunInv'
<1> USE RunsAssumption DEF RunInv
<1>1. exec' \in [Runs -> ExecRecord]
  BY DEF TypeOK, ExecRecord, NoExec, Statuses
<1>2. TypeOK'
  BY <1>1 DEF TypeOK, engineVars
<1>3. OneRunPerSession'
  <2> SUFFICES ASSUME NEW x \in Runs, Active(x)', ~run'[x].expired
               PROVE  lock'[SessionOf[x]] = x
    BY DEF OneRunPerSession
  <2>1. Active(x) /\ ~run[x].expired
    BY DEF Active
  <2>2. lock[SessionOf[x]] = x
    BY <2>1 DEF OneRunPerSession
  <2>3. lock' # lock => x # r /\ SessionOf[x] # SessionOf[r]
    BY <2>2
  <2> QED
    BY <2>2, <2>3 DEF TypeOK
<1>4. Handlers' = Handlers
  BY DEF TypeOK, Handlers, InSlot, NoExec
<1>5. SlotsExact'
  BY <1>4, SlotsKept
<1>6. \A x \in Runs : Unsent(x)' => Unsent(x)
  BY DEF Unsent
<1>7. \A x \in Runs : exec'[x] = exec[x] \/ (exec[x].pc = "replied" /\ exec'[x].pc = "none")
  BY DEF TypeOK, NoExec
<1>8. BoxInv'
  BY <1>6, <1>7 DEF BoxInv, InSlot, engineVars
<1> QED
  BY <1>2, <1>3, <1>5, <1>8

(* RunInv is kept by a refusal. *)
LEMMA RefuseKeeps ==
    ASSUME RunInv, NEW r \in Runs, Refuse(r)
    PROVE  RunInv'
<1>1. run' \in [Runs -> RunRecord]
  BY DEF RunInv, TypeOK, RunRecord, Statuses, Refuse, AtRun, Go
<1>2. /\ \A x \in Runs \ {r} : run'[x] = run[x]
      /\ run'[r].expired = run[r].expired
      /\ Active(r)' => Active(r)
      /\ Unsent(r)' => Unsent(r)
  BY DEF RunInv, TypeOK, RunRecord, Refuse, AtRun, Active, Unsent, Go
<1>3. faults' \in Nat
  BY FaultsCounted DEF RunInv, Refuse
<1> QED
  BY <1>1, <1>2, <1>3, ApiFrame
     DEF RunInv, TypeOK, Refuse, sandboxVars

(* RunInv is kept by storing the snapshot, or failing to. *)
LEMMA PutSnapshotKeeps ==
    ASSUME RunInv, NEW r \in Runs, PutSnapshot(r)
    PROVE  RunInv'
<1>1. run' \in [Runs -> RunRecord]
  BY GoTyped DEF RunInv, PutSnapshot, Go
<1>2. /\ \A x \in Runs \ {r} : run'[x] = run[x]
      /\ run'[r].expired = run[r].expired
      /\ Active(r)' => Active(r)
      /\ Unsent(r)' => Unsent(r)
  BY DEF RunInv, TypeOK, RunRecord, PutSnapshot, AtRun, Active, Unsent, Go
<1>3. faults' \in Nat
  BY FaultsCounted DEF RunInv, PutSnapshot
<1> QED
  BY <1>1, <1>2, <1>3, ApiFrame
     DEF RunInv, TypeOK, PutSnapshot, sandboxVars

(* RunInv is kept by recording execution.requested, or failing to. *)
LEMMA RecordRequestedKeeps ==
    ASSUME RunInv, NEW r \in Runs, RecordRequested(r)
    PROVE  RunInv'
<1>1. run' \in [Runs -> RunRecord]
  BY SMTT(30) DEF RunInv, TypeOK, RunRecord, Statuses, RecordRequested, AtRun, Go
<1>2. /\ \A x \in Runs \ {r} : run'[x] = run[x]
      /\ run'[r].expired = run[r].expired
      /\ Active(r)' => Active(r)
      /\ Unsent(r)' => Unsent(r)
  BY DEF RunInv, TypeOK, RunRecord, RecordRequested, AtRun, Active, Unsent, Go
<1>3. faults' \in Nat
  BY FaultsCounted DEF RunInv, RecordRequested
<1> QED
  BY <1>1, <1>2, <1>3, ApiFrame
     DEF RunInv, TypeOK, RecordRequested, sandboxVars

(* RunInv is kept by a sandbox that cannot be reached. *)
LEMMA SendFailsKeeps ==
    ASSUME RunInv, NEW r \in Runs, SendFails(r)
    PROVE  RunInv'
<1>1. run' \in [Runs -> RunRecord]
  BY RunTyped DEF RunInv, Statuses, SendFails, SandboxUnavailable, Answer
<1>2. /\ \A x \in Runs \ {r} : run'[x] = run[x]
      /\ run'[r].expired = run[r].expired
      /\ Active(r)' => Active(r)
      /\ Unsent(r)' => Unsent(r)
  BY DEF RunInv, TypeOK, RunRecord, SendFails, AtRun, Active, Unsent, SandboxUnavailable, Answer
<1>3. faults' \in Nat
  BY FaultsCounted DEF RunInv, SendFails
<1> QED
  BY <1>1, <1>2, <1>3, ApiFrame
     DEF RunInv, TypeOK, SendFails, sandboxVars

(* RunInv is kept by the sandbox's answer. *)
LEMMA CallReturnsKeeps ==
    ASSUME RunInv, NEW r \in Runs, CallReturns(r)
    PROVE  RunInv'
<1>0. PICK status \in Statuses : Answer(r, status)
  <2>1. exec[r].status \in Statuses
    BY DEF RunInv, TypeOK, ExecRecord
  <2> QED
    BY <2>1 DEF CallReturns, SandboxUnavailable, Statuses
<1>1. run' \in [Runs -> RunRecord]
  BY <1>0, RunTyped DEF RunInv, Answer
<1>2. /\ \A x \in Runs \ {r} : run'[x] = run[x]
      /\ run'[r].expired = run[r].expired
      /\ Active(r)' => Active(r)
      /\ Unsent(r)' => Unsent(r)
  BY DEF RunInv, TypeOK, RunRecord, CallReturns, AtRun, Active, Unsent, SandboxUnavailable, Answer
<1>3. faults' \in Nat
  BY FaultsCounted DEF RunInv, CallReturns
<1> QED
  BY <1>1, <1>2, <1>3, ApiFrame
     DEF RunInv, TypeOK, CallReturns, sandboxVars

(* RunInv is kept by a call that breaks. *)
LEMMA CallBreaksKeeps ==
    ASSUME RunInv, NEW r \in Runs, CallBreaks(r)
    PROVE  RunInv'
<1>1. run' \in [Runs -> RunRecord]
  BY RunTyped DEF RunInv, Statuses, CallBreaks, SandboxUnavailable, Answer
<1>2. /\ \A x \in Runs \ {r} : run'[x] = run[x]
      /\ run'[r].expired = run[r].expired
      /\ Active(r)' => Active(r)
      /\ Unsent(r)' => Unsent(r)
  BY DEF RunInv, TypeOK, RunRecord, CallBreaks, AtRun, Active, Unsent, SandboxUnavailable, Answer
<1>3. faults' \in Nat
  BY FaultsCounted DEF RunInv, CallBreaks
<1> QED
  BY <1>1, <1>2, <1>3, ApiFrame
     DEF RunInv, TypeOK, CallBreaks, sandboxVars, NoExec

(* RunInv is kept by recording execution.completed, or failing to. *)
LEMMA RecordCompletedKeeps ==
    ASSUME RunInv, NEW r \in Runs, RecordCompleted(r)
    PROVE  RunInv'
<1>1. \/ run' = [run EXCEPT ![r].pc = "release", ![r].status = "none"]
      \/ run' = [run EXCEPT ![r].pc = "release", ![r].status = "none", ![r].lost = TRUE]
  BY DEF RecordCompleted
<1>2. run' \in [Runs -> RunRecord]
  BY <1>1, SMTT(30) DEF RunInv, TypeOK, RunRecord, Statuses
<1>3. /\ \A x \in Runs \ {r} : run'[x] = run[x]
      /\ run'[r].expired = run[r].expired
      /\ Active(r)' => Active(r)
      /\ Unsent(r)' => Unsent(r)
  <2>1. run[r].pc = "complete"
    BY DEF RecordCompleted, AtRun
  <2> QED
    BY <1>1, <2>1 DEF RunInv, TypeOK, RunRecord, Active, Unsent
<1>4. completed' \in [Runs -> Statuses]
  <2>1. run[r].status \in Statuses /\ "none" \in Statuses
    BY DEF RunInv, TypeOK, RunRecord, Statuses
  <2> QED
    BY <2>1 DEF RunInv, TypeOK, RecordCompleted
<1>5. faults' \in Nat
  BY FaultsCounted DEF RunInv, RecordCompleted
<1> QED
  BY <1>2, <1>3, <1>4, <1>5, ApiFrame
     DEF RunInv, TypeOK, RecordCompleted, sandboxVars

(* RunInv is kept by a crash of the API. *)
LEMMA RunDiesKeeps ==
    ASSUME RunInv, NEW r \in Runs, RunDies(r)
    PROVE  RunInv'
<1>1. run' \in [Runs -> RunRecord]
  BY RunTyped DEF RunInv, Statuses, RunDies, TypeOK
<1>2. /\ \A x \in Runs \ {r} : run'[x] = run[x]
      /\ run'[r].expired = run[r].expired
      /\ Active(r)' => Active(r)
      /\ Unsent(r)' => Unsent(r)
  BY DEF RunInv, TypeOK, RunRecord, RunDies, AtRun, Active, Unsent
<1>3. faults' \in Nat
  BY FaultsCounted DEF RunInv, RunDies
<1> QED
  BY <1>1, <1>2, <1>3, ApiFrame, SMTT(30)
     DEF RunInv, TypeOK, RunDies, sandboxVars

(* RunInv is kept by the release: it deletes the run's own token or none. *)
LEMMA ReleaseKeeps ==
    ASSUME RunInv, NEW r \in Runs, Release(r)
    PROVE  RunInv'
<1>1. run' \in [Runs -> RunRecord]
  BY DEF RunInv, TypeOK, RunRecord, Statuses, Release, AtRun, Go
<1>2. /\ \A x \in Runs \ {r} : run'[x] = run[x]
      /\ run'[r].expired = run[r].expired
      /\ Active(r) /\ ~Active(r)'
      /\ ~Unsent(r)'
  BY DEF RunInv, TypeOK, RunRecord, Release, AtRun, Active, Unsent, Go
<1>3. faults' \in Nat
  BY FaultsCounted DEF RunInv, Release
<1>4. \/ UNCHANGED lock
      \/ /\ lock[SessionOf[r]] = r
         /\ lock' = [lock EXCEPT ![SessionOf[r]] = NoRun]
  BY RunsAssumption DEF RunInv, TypeOK, Release, Unlock
<1> QED
  BY <1>1, <1>2, <1>3, <1>4, ApiFrame
     DEF RunInv, TypeOK, Release, sandboxVars

(* RunInv is kept by the end of runCtx. *)
LEMMA DeadlineKeeps ==
    ASSUME RunInv, NEW r \in Runs, Deadline(r)
    PROVE  RunInv'
<1>1. run' \in [Runs -> RunRecord]
  BY TimeTyped DEF RunInv, Deadline
<1>2. /\ \A x \in Runs \ {r} : run'[x] = run[x]
      /\ run'[r].expired = run[r].expired
      /\ Active(r)' => Active(r)
      /\ Unsent(r)' => Unsent(r)
  BY DEF RunInv, TypeOK, RunRecord, Deadline, Active, Unsent
<1> QED
  BY <1>1, <1>2, ApiFrame DEF RunInv, TypeOK, Deadline, sandboxVars

(* RunInv is kept by SET NX, whether or not its answer arrives: a free     *)
(* lock means that no run of the session has an unexpired one.             *)
LEMMA LockKeeps ==
    ASSUME RunInv, NEW r \in Runs, Acquire(r) \/ AcquireFails(r)
    PROVE  RunInv'
<1>0. run' \in [Runs -> RunRecord]
  <2>1. PICK pc \in {"put", "done"} : run' = [run EXCEPT ![r].pc = pc]
    BY DEF Acquire, AcquireFails, Go
  <2>2. [run EXCEPT ![r].pc = pc] \in [Runs -> RunRecord]
    BY GoTyped DEF RunInv
  <2> QED
    BY <2>1, <2>2
<1> USE RunsAssumption DEF RunInv, engineVars, sandboxVars
<1>1. lock' \in [Sessions -> Runs \cup {NoRun}]
  BY DEF TypeOK, Acquire, AcquireFails, TakeLock
<1>2. faults' \in Nat
  BY FaultsCounted DEF Acquire, AcquireFails
<1>3. TypeOK'
  BY <1>0, <1>1, <1>2 DEF TypeOK, Acquire, AcquireFails
<1>4. OneRunPerSession'
  <2> SUFFICES ASSUME NEW x \in Runs, Active(x)', ~run'[x].expired
               PROVE  lock'[SessionOf[x]] = x
    BY DEF OneRunPerSession
  <2>1. CASE x = r
    BY <2>1 DEF TypeOK, RunRecord, Active, Acquire, AcquireFails, AtRun, Go, TakeLock
  <2>2. CASE x # r
    <3>1. run'[x] = run[x]
      BY <2>2 DEF TypeOK, Acquire, AcquireFails, Go
    <3>2. lock[SessionOf[x]] = x
      BY <3>1 DEF OneRunPerSession, Active
    <3> QED
      BY <3>2 DEF TypeOK, Acquire, AcquireFails, TakeLock
  <2> QED
    BY <2>1, <2>2
<1>5. SlotsExact'
  BY SlotsKept DEF Handlers, Acquire, AcquireFails
<1>6. \A x \in Runs : Unsent(x)' => Unsent(x)
  BY DEF TypeOK, RunRecord, Unsent, Acquire, AcquireFails, AtRun, Go
<1>7. BoxInv'
  BY <1>6 DEF BoxInv, Acquire, AcquireFails
<1> QED
  BY <1>3, <1>4, <1>5, <1>7

(* RunInv is kept by the lock's expiry, which its run takes note of. *)
LEMMA LockExpiresKeeps ==
    ASSUME RunInv, NEW r \in Runs, LockExpires(r)
    PROVE  RunInv'
<1> USE RunsAssumption DEF RunInv, LockExpires, engineVars, sandboxVars
<1>1. TypeOK'
  <2>1. run' \in [Runs -> RunRecord]
    BY TimeTyped
  <2>2. lock' \in [Sessions -> Runs \cup {NoRun}]
    BY DEF TypeOK
  <2> QED
    BY <2>1, <2>2 DEF TypeOK
<1>2. OneRunPerSession'
  BY DEF TypeOK, RunRecord, OneRunPerSession, Active
<1>3. SlotsExact'
  BY SlotsKept DEF Handlers
<1>4. BoxInv'
  BY DEF TypeOK, RunRecord, BoxInv, Unsent
<1> QED
  BY <1>1, <1>2, <1>3, <1>4

(* RunInv is kept by a call of the sandbox, the only one of its run. *)
LEMMA SendKeeps ==
    ASSUME RunInv, NEW r \in Runs, Send(r)
    PROVE  RunInv'
<1> USE RunsAssumption DEF RunInv, Send, AtRun, Go, engineVars
<1>0. run' \in [Runs -> RunRecord]
  BY GoTyped
<1>1. exec' \in [Runs -> ExecRecord]
  BY DEF TypeOK, ExecRecord, Statuses
<1>2. faults' \in Nat
  BY FaultsCounted
<1>3. TypeOK'
  BY <1>0, <1>1, <1>2 DEF TypeOK
<1>4. OneRunPerSession'
  BY DEF TypeOK, RunRecord, OneRunPerSession, Active
<1>5. SlotsExact'
  <2>1. exec[r].pc = "none"
    BY DEF BoxInv, Unsent
  <2>2. Handlers' = Handlers
    BY <2>1 DEF TypeOK, ExecRecord, Handlers, InSlot
  <2> QED
    BY <2>2, SlotsKept
<1>6. BoxInv'
  BY DEF TypeOK, RunRecord, ExecRecord, BoxInv, Unsent, InSlot
<1> QED
  BY <1>3, <1>4, <1>5, <1>6

(* RunInv is kept by the load of the snapshot. *)
LEMMA LoadSnapshotKeeps ==
    ASSUME RunInv, NEW r \in Runs, LoadSnapshot(r)
    PROVE  RunInv'
<1> USE SlotsAssumption
    DEF RunInv, LoadSnapshot, AtExec, AtRun, SetExec, NoFault, apiVars, engineVars, Step
<1>0. exec' \in [Runs -> ExecRecord]
  BY DEF TypeOK, ExecRecord, Statuses, InSlot
<1>1. TypeOK'
  BY <1>0 DEF TypeOK
<1>2. OneRunPerSession'
  BY DEF OneRunPerSession, Active
<1>3. SlotsExact'
  <2>1. r \in Handlers /\ exec'[r].pc \in InSlot
    BY DEF TypeOK, ExecRecord, Handlers, InSlot
  <2>2. \A x \in Runs \ {r} : exec'[x] = exec[x]
    BY DEF TypeOK
  <2>3. Handlers' = Handlers
    BY <2>1, <2>2 DEF Handlers
  <2>4. UNCHANGED used
    OBVIOUS
  <2> QED
    BY <2>3, <2>4, SlotsKept
<1>4. BoxInv'
  BY DEF TypeOK, ExecRecord, BoxInv, Unsent, InSlot
<1> QED
  BY <1>1, <1>2, <1>3, <1>4

(* RunInv is kept by a failed load. *)
LEMMA LoadFailsKeeps ==
    ASSUME RunInv, NEW r \in Runs, LoadFails(r)
    PROVE  RunInv'
<1> USE SlotsAssumption
    DEF RunInv, LoadFails, AtExec, AtRun, SetExec, NoFault, apiVars, engineVars, ExecFails, Fault, Gone
<1>0. exec' \in [Runs -> ExecRecord]
  BY DEF TypeOK, ExecRecord, Statuses, InSlot
<1>1. TypeOK'
  BY <1>0 DEF TypeOK
<1>2. OneRunPerSession'
  BY DEF OneRunPerSession, Active
<1>3. SlotsExact'
  <2>1. r \in Handlers /\ exec'[r].pc \in InSlot
    BY DEF TypeOK, ExecRecord, Handlers, InSlot
  <2>2. \A x \in Runs \ {r} : exec'[x] = exec[x]
    BY DEF TypeOK
  <2>3. Handlers' = Handlers
    BY <2>1, <2>2 DEF Handlers
  <2>4. UNCHANGED used
    OBVIOUS
  <2> QED
    BY <2>3, <2>4, SlotsKept
<1>4. BoxInv'
  BY DEF TypeOK, ExecRecord, BoxInv, Unsent, InSlot
<1> QED
  BY <1>1, <1>2, <1>3, <1>4

(* RunInv is kept by the end of create. *)
LEMMA CreatedKeeps ==
    ASSUME RunInv, NEW r \in Runs, Created(r)
    PROVE  RunInv'
<1> USE SlotsAssumption
    DEF RunInv, Created, AtExec, AtRun, SetExec, NoFault, apiVars, engineVars, Step
<1>0. exec' \in [Runs -> ExecRecord]
  BY DEF TypeOK, ExecRecord, Statuses, InSlot
<1>1. TypeOK'
  BY <1>0 DEF TypeOK
<1>2. OneRunPerSession'
  BY DEF OneRunPerSession, Active
<1>3. SlotsExact'
  <2>1. r \in Handlers /\ exec'[r].pc \in InSlot
    BY DEF TypeOK, ExecRecord, Handlers, InSlot
  <2>2. \A x \in Runs \ {r} : exec'[x] = exec[x]
    BY DEF TypeOK
  <2>3. Handlers' = Handlers
    BY <2>1, <2>2 DEF Handlers
  <2>4. UNCHANGED used
    OBVIOUS
  <2> QED
    BY <2>3, <2>4, SlotsKept
<1>4. BoxInv'
  BY DEF TypeOK, ExecRecord, BoxInv, Unsent, InSlot
<1> QED
  BY <1>1, <1>2, <1>3, <1>4

(* RunInv is kept by a failed create. *)
LEMMA CreateFailsKeeps ==
    ASSUME RunInv, NEW r \in Runs, CreateFails(r)
    PROVE  RunInv'
<1> USE SlotsAssumption
    DEF RunInv, CreateFails, AtExec, AtRun, SetExec, NoFault, apiVars, engineVars, Finish, ExecFails, Fault, Gone
<1>0. exec' \in [Runs -> ExecRecord]
  BY DEF TypeOK, ExecRecord, Statuses, InSlot
<1>1. TypeOK'
  BY <1>0 DEF TypeOK
<1>2. OneRunPerSession'
  BY DEF OneRunPerSession, Active
<1>3. SlotsExact'
  <2>1. r \in Handlers /\ exec'[r].pc \in InSlot
    BY DEF TypeOK, ExecRecord, Handlers, InSlot
  <2>2. \A x \in Runs \ {r} : exec'[x] = exec[x]
    BY DEF TypeOK
  <2>3. Handlers' = Handlers
    BY <2>1, <2>2 DEF Handlers
  <2>4. UNCHANGED used
    OBVIOUS
  <2> QED
    BY <2>3, <2>4, SlotsKept
<1>4. BoxInv'
  BY DEF TypeOK, ExecRecord, BoxInv, Unsent, InSlot
<1> QED
  BY <1>1, <1>2, <1>3, <1>4

(* RunInv is kept by the start of the program. *)
LEMMA StartKeeps ==
    ASSUME RunInv, NEW r \in Runs, Start(r)
    PROVE  RunInv'
<1> USE SlotsAssumption
    DEF RunInv, Start, AtExec, AtRun, SetExec, NoFault, apiVars, engineVars, Step
<1>0. exec' \in [Runs -> ExecRecord]
  BY DEF TypeOK, ExecRecord, Statuses, InSlot
<1>1. TypeOK'
  BY <1>0 DEF TypeOK
<1>2. OneRunPerSession'
  BY DEF OneRunPerSession, Active
<1>3. SlotsExact'
  <2>1. r \in Handlers /\ exec'[r].pc \in InSlot
    BY DEF TypeOK, ExecRecord, Handlers, InSlot
  <2>2. \A x \in Runs \ {r} : exec'[x] = exec[x]
    BY DEF TypeOK
  <2>3. Handlers' = Handlers
    BY <2>1, <2>2 DEF Handlers
  <2>4. UNCHANGED used
    OBVIOUS
  <2> QED
    BY <2>3, <2>4, SlotsKept
<1>4. BoxInv'
  BY DEF TypeOK, ExecRecord, BoxInv, Unsent, InSlot
<1> QED
  BY <1>1, <1>2, <1>3, <1>4

(* RunInv is kept by the end of the attached stream. *)
LEMMA AttachEndsKeeps ==
    ASSUME RunInv, NEW r \in Runs, AttachEnds(r)
    PROVE  RunInv'
<1> USE SlotsAssumption
    DEF RunInv, AttachEnds, AtExec, AtRun, SetExec, NoFault, apiVars, engineVars, Step, Fault, Gone
<1>0. exec' \in [Runs -> ExecRecord]
  BY DEF TypeOK, ExecRecord, Statuses, InSlot
<1>1. TypeOK'
  BY <1>0 DEF TypeOK
<1>2. OneRunPerSession'
  BY DEF OneRunPerSession, Active
<1>3. SlotsExact'
  <2>1. r \in Handlers /\ exec'[r].pc \in InSlot
    BY DEF TypeOK, ExecRecord, Handlers, InSlot
  <2>2. \A x \in Runs \ {r} : exec'[x] = exec[x]
    BY DEF TypeOK
  <2>3. Handlers' = Handlers
    BY <2>1, <2>2 DEF Handlers
  <2>4. UNCHANGED used
    OBVIOUS
  <2> QED
    BY <2>3, <2>4, SlotsKept
<1>4. BoxInv'
  BY DEF TypeOK, ExecRecord, BoxInv, Unsent, InSlot
<1> QED
  BY <1>1, <1>2, <1>3, <1>4

(* RunInv is kept by the wall-clock limit. *)
LEMMA TimedOutKeeps ==
    ASSUME RunInv, NEW r \in Runs, TimedOut(r)
    PROVE  RunInv'
<1> USE SlotsAssumption
    DEF RunInv, TimedOut, AtExec, AtRun, SetExec, NoFault, apiVars, engineVars, Step
<1>0. exec' \in [Runs -> ExecRecord]
  BY DEF TypeOK, ExecRecord, Statuses, InSlot
<1>1. TypeOK'
  BY <1>0 DEF TypeOK
<1>2. OneRunPerSession'
  BY DEF OneRunPerSession, Active
<1>3. SlotsExact'
  <2>1. r \in Handlers /\ exec'[r].pc \in InSlot
    BY DEF TypeOK, ExecRecord, Handlers, InSlot
  <2>2. \A x \in Runs \ {r} : exec'[x] = exec[x]
    BY DEF TypeOK
  <2>3. Handlers' = Handlers
    BY <2>1, <2>2 DEF Handlers
  <2>4. UNCHANGED used
    OBVIOUS
  <2> QED
    BY <2>3, <2>4, SlotsKept
<1>4. BoxInv'
  BY DEF TypeOK, ExecRecord, BoxInv, Unsent, InSlot
<1> QED
  BY <1>1, <1>2, <1>3, <1>4

(* RunInv is kept by a kill. *)
LEMMA KillKeeps ==
    ASSUME RunInv, NEW r \in Runs, Kill(r)
    PROVE  RunInv'
<1> USE SlotsAssumption
    DEF RunInv, Kill, AtExec, AtRun, SetExec, NoFault, apiVars, engineVars, Finish, Gone
<1>0. exec' \in [Runs -> ExecRecord]
  BY DEF TypeOK, ExecRecord, Statuses, InSlot
<1>1. TypeOK'
  BY <1>0 DEF TypeOK
<1>2. OneRunPerSession'
  BY DEF OneRunPerSession, Active
<1>3. SlotsExact'
  <2>1. r \in Handlers /\ exec'[r].pc \in InSlot
    BY DEF TypeOK, ExecRecord, Handlers, InSlot
  <2>2. \A x \in Runs \ {r} : exec'[x] = exec[x]
    BY DEF TypeOK
  <2>3. Handlers' = Handlers
    BY <2>1, <2>2 DEF Handlers
  <2>4. UNCHANGED used
    OBVIOUS
  <2> QED
    BY <2>3, <2>4, SlotsKept
<1>4. BoxInv'
  BY DEF TypeOK, ExecRecord, BoxInv, Unsent, InSlot
<1> QED
  BY <1>1, <1>2, <1>3, <1>4

(* RunInv is kept by a failed kill. *)
LEMMA KillFailsKeeps ==
    ASSUME RunInv, NEW r \in Runs, KillFails(r)
    PROVE  RunInv'
<1> USE SlotsAssumption
    DEF RunInv, KillFails, AtExec, AtRun, SetExec, NoFault, apiVars, engineVars, Finish, Step, Fault, Gone
<1>0. exec' \in [Runs -> ExecRecord]
  BY DEF TypeOK, ExecRecord, Statuses, InSlot
<1>1. TypeOK'
  BY <1>0 DEF TypeOK
<1>2. OneRunPerSession'
  BY DEF OneRunPerSession, Active
<1>3. SlotsExact'
  <2>1. r \in Handlers /\ exec'[r].pc \in InSlot
    BY DEF TypeOK, ExecRecord, Handlers, InSlot
  <2>2. \A x \in Runs \ {r} : exec'[x] = exec[x]
    BY DEF TypeOK
  <2>3. Handlers' = Handlers
    BY <2>1, <2>2 DEF Handlers
  <2>4. UNCHANGED used
    OBVIOUS
  <2> QED
    BY <2>3, <2>4, SlotsKept
<1>4. BoxInv'
  BY DEF TypeOK, ExecRecord, BoxInv, Unsent, InSlot
<1> QED
  BY <1>1, <1>2, <1>3, <1>4

(* RunInv is kept by the check that a container has stopped. *)
LEMMA StoppedKeeps ==
    ASSUME RunInv, NEW r \in Runs, Stopped(r)
    PROVE  RunInv'
<1> USE SlotsAssumption
    DEF RunInv, Stopped, AtExec, AtRun, SetExec, NoFault, apiVars, engineVars, Finish, Fault
<1>0. exec' \in [Runs -> ExecRecord]
  BY DEF TypeOK, ExecRecord, Statuses, InSlot
<1>1. TypeOK'
  BY <1>0 DEF TypeOK
<1>2. OneRunPerSession'
  BY DEF OneRunPerSession, Active
<1>3. SlotsExact'
  <2>1. r \in Handlers /\ exec'[r].pc \in InSlot
    BY DEF TypeOK, ExecRecord, Handlers, InSlot
  <2>2. \A x \in Runs \ {r} : exec'[x] = exec[x]
    BY DEF TypeOK
  <2>3. Handlers' = Handlers
    BY <2>1, <2>2 DEF Handlers
  <2>4. UNCHANGED used
    OBVIOUS
  <2> QED
    BY <2>3, <2>4, SlotsKept
<1>4. BoxInv'
  BY DEF TypeOK, ExecRecord, BoxInv, Unsent, InSlot
<1> QED
  BY <1>1, <1>2, <1>3, <1>4

(* RunInv is kept by the removal of the container. *)
LEMMA RemoveKeeps ==
    ASSUME RunInv, NEW r \in Runs, Remove(r)
    PROVE  RunInv'
<1> USE SlotsAssumption
    DEF RunInv, Remove, AtExec, AtRun, SetExec, NoFault, apiVars, engineVars, Step, Fault, RemovedBy
<1>0. exec' \in [Runs -> ExecRecord]
  BY DEF TypeOK, ExecRecord, Statuses, InSlot
<1>1. TypeOK'
  BY <1>0 DEF TypeOK
<1>2. OneRunPerSession'
  BY DEF OneRunPerSession, Active
<1>3. SlotsExact'
  <2>1. r \in Handlers /\ exec'[r].pc \in InSlot
    BY DEF TypeOK, ExecRecord, Handlers, InSlot
  <2>2. \A x \in Runs \ {r} : exec'[x] = exec[x]
    BY DEF TypeOK
  <2>3. Handlers' = Handlers
    BY <2>1, <2>2 DEF Handlers
  <2>4. UNCHANGED used
    OBVIOUS
  <2> QED
    BY <2>3, <2>4, SlotsKept
<1>4. BoxInv'
  BY DEF TypeOK, ExecRecord, BoxInv, Unsent, InSlot
<1> QED
  BY <1>1, <1>2, <1>3, <1>4

(* RunInv is kept by an inspection, whatever it finds. *)
LEMMA InspectKeeps ==
    ASSUME RunInv, NEW r \in Runs, Inspect(r)
    PROVE  RunInv'
<1> USE DEF RunInv
<1>1. PICK status \in Statuses : Finish(r, status)
  BY DEF Inspect, Statuses
<1>2. /\ exec[r].pc = "inspect"
      /\ exec' = [exec EXCEPT ![r] = [pc |-> "remove", status |-> status]]
      /\ UNCHANGED <<lock, run, requested, completed, boot, listed, used, box, strays>>
  BY <1>1 DEF Inspect, Finish, SetExec, AtExec, apiVars, engineVars
<1>3. exec' \in [Runs -> ExecRecord]
  BY <1>2 DEF TypeOK, ExecRecord, InSlot
<1>4. faults' \in Nat
  BY FaultsCounted DEF Inspect, ExecFails
<1>5. TypeOK'
  BY <1>2, <1>3, <1>4 DEF TypeOK
<1>6. OneRunPerSession'
  BY <1>2 DEF OneRunPerSession, Active
<1>7. Handlers' = Handlers
  BY <1>2 DEF TypeOK, ExecRecord, Handlers, InSlot
<1>8. SlotsExact'
  BY <1>2, <1>7, SlotsKept
<1>9. BoxInv'
  BY <1>2 DEF TypeOK, ExecRecord, BoxInv, Unsent, InSlot
<1> QED
  BY <1>5, <1>6, <1>8, <1>9

(* RunInv is kept by taking a slot, or by ErrBusy. *)
LEMMA TakeSlotKeeps ==
    ASSUME RunInv, NEW r \in Runs, TakeSlot(r)
    PROVE  RunInv'
<1> USE RunsAssumption, SlotsAssumption
    DEF RunInv, TakeSlot, AtExec, AtRun, SetExec, NoFault, engineVars, FreeSlot
<1>0. UNCHANGED <<lock, run, requested, completed>>
  BY DEF apiVars, Reply
<1>1. TypeOK'
  BY <1>0 DEF TypeOK, ExecRecord, Statuses, InSlot, Reply, NoExec, Gone
<1>2. OneRunPerSession'
  BY <1>0 DEF OneRunPerSession, Active
<1>3. SlotsExact'
  <2>1. CASE FreeSlot
    <3>1. Handlers' = Handlers \cup {r} /\ r \notin Handlers
      BY <2>1 DEF TypeOK, ExecRecord, Handlers, InSlot
    <3>2. Cardinality(Handlers') = Cardinality(Handlers) + 1
      BY <3>1, HandlersFinite, FS_AddElement
    <3> QED
      BY <2>1, <3>2 DEF SlotsExact
  <2>2. CASE ~FreeSlot
    <3>1. Handlers' = Handlers
      BY <2>2 DEF TypeOK, Handlers, InSlot, Reply, NoExec
    <3> QED
      BY <2>2, <3>1, SlotsKept
  <2> QED
    BY <2>1, <2>2
<1>4. BoxInv'
  BY <1>0 DEF TypeOK, BoxInv, Unsent, InSlot, Reply, NoExec, Gone
<1> QED
  BY <1>1, <1>2, <1>3, <1>4

(* RunInv is kept by the end of Execute, which gives the slot back. *)
LEMMA ReturnKeeps ==
    ASSUME RunInv, NEW r \in Runs, Return(r)
    PROVE  RunInv'
<1> USE RunsAssumption, SlotsAssumption
    DEF RunInv, Return, AtExec, AtRun, SetExec, NoFault, apiVars, engineVars, Reply, NoExec
<1>1. Handlers' = Handlers \ {r} /\ r \in Handlers
  BY DEF TypeOK, ExecRecord, Handlers, InSlot
<1>2. Cardinality(Handlers') = Cardinality(Handlers) - 1
  BY <1>1, HandlersFinite, FS_RemoveElement
<1>3. SlotsExact'
  BY <1>2 DEF SlotsExact
<1>4. TypeOK'
  <2>1. Cardinality(Handlers) # 0
    BY <1>1, HandlersFinite, FS_EmptySet
  <2>2. used' \in 0..Slots
    BY <2>1, HandlersFinite DEF TypeOK, SlotsExact
  <2> QED
    BY <2>2 DEF TypeOK, ExecRecord, Statuses, InSlot, Gone
<1>5. OneRunPerSession'
  BY DEF OneRunPerSession, Active
<1>6. BoxInv'
  BY DEF TypeOK, BoxInv, Unsent, InSlot, Gone
<1> QED
  BY <1>3, <1>4, <1>5, <1>6

(* RunInv is kept by the engine, which creates a container or sees its     *)
(* program end.                                                            *)
LEMMA EngineKeeps ==
    ASSUME RunInv, NEW r \in Runs, EngineCreates(r) \/ Exit(r)
    PROVE  RunInv'
<1> USE DEF RunInv, EngineCreates, Exit, apiVars, sandboxVars
<1>1. TypeOK'
  BY DEF TypeOK
<1>2. OneRunPerSession'
  BY DEF OneRunPerSession, Active
<1>3. SlotsExact'
  BY SlotsKept DEF Handlers
<1>4. BoxInv'
  BY DEF TypeOK, BoxInv, Unsent
<1> QED
  BY <1>1, <1>2, <1>3, <1>4

(* RunInv is kept by a crash of the sandbox: no handler, no slot in use. *)
LEMMA SandboxDiesKeeps ==
    ASSUME RunInv, SandboxDies
    PROVE  RunInv'
<1> USE SlotsAssumption DEF RunInv, SandboxDies, Fault, NoExec, apiVars, engineVars
<1>1. TypeOK'
  BY DEF TypeOK, ExecRecord, Statuses
<1>2. OneRunPerSession'
  BY DEF OneRunPerSession, Active
<1>3. SlotsExact'
  <2>1. Handlers' = {}
    BY DEF Handlers, InSlot
  <2> QED
    BY <2>1, FS_EmptySet DEF SlotsExact
<1>4. BoxInv'
  BY DEF TypeOK, ExecRecord, BoxInv, Unsent, InSlot
<1> QED
  BY <1>1, <1>2, <1>3, <1>4

(* RunInv is kept by Reap, which removes every container that runs. *)
LEMMA ReapKeeps ==
    ASSUME RunInv, ReapList \/ ReapRemove
    PROVE  RunInv'
<1> USE DEF RunInv, ReapList, ReapRemove, apiVars, engineVars
<1>1. TypeOK'
  BY DEF TypeOK
<1>2. OneRunPerSession'
  BY DEF OneRunPerSession, Active
<1>3. SlotsExact'
  BY SlotsKept DEF Handlers
<1>4. BoxInv'
  BY DEF TypeOK, ExecRecord, BoxInv, Unsent, InSlot
<1> QED
  BY <1>1, <1>2, <1>3, <1>4

(* RunInv is kept by a step that changes nothing. *)
LEMMA StutterKeeps ==
    ASSUME RunInv, UNCHANGED vars
    PROVE  RunInv'
  BY SlotsKept DEF RunInv, vars, TypeOK, OneRunPerSession, Active, Handlers, BoxInv, Unsent

(* Every reachable state satisfies the inductive invariant of the run      *)
(* flow: Redis, the candidate API, the sandbox and the engine.             *)
THEOREM RunFlowCorrect == Spec => []RunInv
<1>1. RunInv /\ [Next]_vars => RunInv'
  <2> SUFFICES ASSUME RunInv, [Next]_vars PROVE RunInv'
    OBVIOUS
  <2>1. ASSUME NEW r \in Runs, Acquire(r) \/ Refuse(r) \/ AcquireFails(r) PROVE RunInv'
    BY <2>1, LockKeeps, RefuseKeeps
  <2>2. ASSUME NEW r \in Runs, RunStep(r) PROVE RunInv'
    BY <2>2, PutSnapshotKeeps, RecordRequestedKeeps, SendKeeps, SendFailsKeeps,
       CallReturnsKeeps, CallBreaksKeeps, RecordCompletedKeeps, ReleaseKeeps DEF RunStep
  <2>3. ASSUME NEW r \in Runs, RunDies(r) \/ LockExpires(r) \/ Deadline(r) PROVE RunInv'
    BY <2>3, RunDiesKeeps, LockExpiresKeeps, DeadlineKeeps
  <2>4. ASSUME NEW r \in Runs, ExecStep(r) PROVE RunInv'
    BY <2>4, TakeSlotKeeps, LoadSnapshotKeeps, LoadFailsKeeps, CreatedKeeps,
       CreateFailsKeeps, StartKeeps, AttachEndsKeeps, TimedOutKeeps, KillKeeps,
       KillFailsKeeps, StoppedKeeps, InspectKeeps, RemoveKeeps, ReturnKeeps DEF ExecStep
  <2>5. ASSUME NEW r \in Runs, EngineCreates(r) \/ Exit(r) PROVE RunInv'
    BY <2>5, EngineKeeps
  <2>6. CASE SandboxDies \/ ReapList \/ ReapRemove
    BY <2>6, SandboxDiesKeeps, ReapKeeps
  <2>7. CASE UNCHANGED vars
    BY <2>7, StutterKeeps
  <2> QED
    BY <2>1, <2>2, <2>3, <2>4, <2>5, <2>6, <2>7 DEF Next
<1> QED
  BY InitRunInv, <1>1, PTL DEF Spec

(* Every variable keeps its type, and the sandbox never uses more slots    *)
(* than it has.                                                            *)
THEOREM TypeCorrect == Spec => []TypeOK
<1>1. RunInv => TypeOK
  BY DEF RunInv
<1> QED
  BY <1>1, RunFlowCorrect, PTL

(* A run holds its session's lock until it has expired, whatever the other *)
(* runs of the session do.                                                 *)
THEOREM LockHeld == Spec => []OneRunPerSession
<1>1. RunInv => OneRunPerSession
  BY DEF RunInv
<1> QED
  BY <1>1, RunFlowCorrect, PTL

(* Two runs of a session are never under way together, unless the lock of  *)
(* one has expired.                                                        *)
THEOREM MutualExclusion ==
    Spec => [](\A q, r \in Runs :
                  /\ SessionOf[q] = SessionOf[r]
                  /\ Active(q) /\ ~run[q].expired
                  /\ Active(r) /\ ~run[r].expired
                  => q = r)
<1>1. OneRunPerSession => \A q, r \in Runs :
          /\ SessionOf[q] = SessionOf[r]
          /\ Active(q) /\ ~run[q].expired
          /\ Active(r) /\ ~run[r].expired
          => q = r
  BY DEF OneRunPerSession
<1> QED
  BY <1>1, LockHeld, PTL

(* The slots in use are those of the handlers, so none is lost or given    *)
(* back twice.                                                             *)
THEOREM SlotsBalanced == Spec => []SlotsExact
<1>1. RunInv => SlotsExact
  BY DEF RunInv
<1> QED
  BY <1>1, RunFlowCorrect, PTL

(* While the sandbox serves, no program runs without a handler, but for    *)
(* containers that the engine refused to remove.                           *)
THEOREM OrphanFree == Spec => []NoOrphans
<1>1. RunInv => NoOrphans
  BY DEF RunInv, BoxInv, NoOrphans, Handlers
<1> QED
  BY <1>1, RunFlowCorrect, PTL

-----------------------------------------------------------------------------
(* The two events of a run.                                                *)

(* A step of r that touches nothing of the other runs. *)
OthersStay(r) ==
    \A q \in Runs \ {r} :
        /\ run'[q] = run[q] /\ completed'[q] = completed[q]
        /\ exec'[q] = exec[q] /\ box'[q] = box[q]
        /\ q \in requested' <=> q \in requested
        /\ q \in strays => q \in strays'

(* The others' records stay true. *)
LEMMA OneRunRecords ==
    ASSUME RecordsInv, NEW r \in Runs, OthersStay(r), RecordInv(r)'
    PROVE  RecordsInv'
<1>1. ASSUME NEW q \in Runs \ {r} PROVE RecordInv(q)'
  BY <1>1 DEF RecordsInv, OthersStay, RecordInv, EndKnown, Unsent
<1> QED
  BY <1>1 DEF RecordsInv

(* The steps of the candidate API, one by one. *)
LEMMA AcquireRecords == ASSUME RunInv, RecordsInv, NEW r \in Runs, Acquire(r) PROVE RecordsInv'
<1>1. /\ run \in [Runs -> RunRecord] /\ completed \in [Runs -> Statuses]
      /\ run[r] \in RunRecord /\ RecordInv(r)
  BY DEF RunInv, TypeOK, RecordsInv
<1>2. OthersStay(r)
  BY <1>1 DEF OthersStay, Acquire, AtRun, Go, sandboxVars, engineVars
<1>3. RecordInv(r)'
  BY <1>1 DEF RecordInv, EndKnown, Unsent, RunRecord, Acquire, AtRun, Go, sandboxVars, engineVars
<1> QED
  BY <1>2, <1>3, OneRunRecords

LEMMA RefuseRecords == ASSUME RunInv, RecordsInv, NEW r \in Runs, Refuse(r) PROVE RecordsInv'
<1>1. /\ run \in [Runs -> RunRecord] /\ completed \in [Runs -> Statuses]
      /\ run[r] \in RunRecord /\ RecordInv(r)
  BY DEF RunInv, TypeOK, RecordsInv
<1>2. OthersStay(r)
  BY <1>1 DEF OthersStay, Refuse, AtRun, Go, sandboxVars, engineVars
<1>3. RecordInv(r)'
  BY <1>1 DEF RecordInv, EndKnown, Unsent, RunRecord, Refuse, AtRun, Go, sandboxVars, engineVars
<1> QED
  BY <1>2, <1>3, OneRunRecords

LEMMA AcquireFailsRecords == ASSUME RunInv, RecordsInv, NEW r \in Runs, AcquireFails(r) PROVE RecordsInv'
<1>1. /\ run \in [Runs -> RunRecord] /\ completed \in [Runs -> Statuses]
      /\ run[r] \in RunRecord /\ RecordInv(r)
  BY DEF RunInv, TypeOK, RecordsInv
<1>2. OthersStay(r)
  BY <1>1 DEF OthersStay, AcquireFails, AtRun, Go, sandboxVars, engineVars
<1>3. RecordInv(r)'
  BY <1>1 DEF RecordInv, EndKnown, Unsent, RunRecord, AcquireFails, AtRun, Go, sandboxVars, engineVars
<1> QED
  BY <1>2, <1>3, OneRunRecords

LEMMA PutSnapshotRecords == ASSUME RunInv, RecordsInv, NEW r \in Runs, PutSnapshot(r) PROVE RecordsInv'
<1>1. /\ run \in [Runs -> RunRecord] /\ completed \in [Runs -> Statuses]
      /\ run[r] \in RunRecord /\ RecordInv(r)
  BY DEF RunInv, TypeOK, RecordsInv
<1>2. OthersStay(r)
  BY <1>1 DEF OthersStay, PutSnapshot, AtRun, Go, sandboxVars, engineVars
<1>3. RecordInv(r)'
  BY <1>1 DEF RecordInv, EndKnown, Unsent, RunRecord, PutSnapshot, AtRun, Go, sandboxVars, engineVars
<1> QED
  BY <1>2, <1>3, OneRunRecords

LEMMA RecordRequestedRecords == ASSUME RunInv, RecordsInv, NEW r \in Runs, RecordRequested(r) PROVE RecordsInv'
<1>1. /\ run \in [Runs -> RunRecord] /\ completed \in [Runs -> Statuses]
      /\ run[r] \in RunRecord /\ RecordInv(r)
  BY DEF RunInv, TypeOK, RecordsInv
<1>2. OthersStay(r)
  BY <1>1 DEF OthersStay, RecordRequested, AtRun, Go, sandboxVars, engineVars
<1>3. RecordInv(r)'
  BY <1>1 DEF RecordInv, EndKnown, Unsent, RunRecord, RecordRequested, AtRun, Go, sandboxVars, engineVars
<1> QED
  BY <1>2, <1>3, OneRunRecords

LEMMA SendFailsRecords == ASSUME RunInv, RecordsInv, NEW r \in Runs, SendFails(r) PROVE RecordsInv'
<1>1. /\ run \in [Runs -> RunRecord] /\ completed \in [Runs -> Statuses]
      /\ run[r] \in RunRecord /\ RecordInv(r)
  BY DEF RunInv, TypeOK, RecordsInv
<1>2. OthersStay(r)
  BY <1>1 DEF OthersStay, SendFails, AtRun, SandboxUnavailable, Answer, sandboxVars, engineVars
<1>3. RecordInv(r)'
  BY <1>1 DEF RecordInv, EndKnown, Unsent, RunRecord, SendFails, AtRun, SandboxUnavailable, Answer, sandboxVars, engineVars
<1> QED
  BY <1>2, <1>3, OneRunRecords

LEMMA RecordCompletedRecords == ASSUME RunInv, RecordsInv, NEW r \in Runs, RecordCompleted(r) PROVE RecordsInv'
<1>1. /\ run \in [Runs -> RunRecord] /\ completed \in [Runs -> Statuses]
      /\ run[r] \in RunRecord /\ RecordInv(r)
  BY DEF RunInv, TypeOK, RecordsInv
<1>2. OthersStay(r)
  BY <1>1 DEF OthersStay, RecordCompleted, AtRun, Statuses, sandboxVars, engineVars
<1>3. RecordInv(r)'
  BY <1>1 DEF RecordInv, EndKnown, Unsent, RunRecord, RecordCompleted, AtRun, Statuses, sandboxVars, engineVars
<1> QED
  BY <1>2, <1>3, OneRunRecords

LEMMA ReleaseRecords == ASSUME RunInv, RecordsInv, NEW r \in Runs, Release(r) PROVE RecordsInv'
<1>1. /\ run \in [Runs -> RunRecord] /\ completed \in [Runs -> Statuses]
      /\ run[r] \in RunRecord /\ RecordInv(r)
  BY DEF RunInv, TypeOK, RecordsInv
<1>2. OthersStay(r)
  BY <1>1 DEF OthersStay, Release, AtRun, Go, sandboxVars, engineVars
<1>3. RecordInv(r)'
  BY <1>1 DEF RecordInv, EndKnown, Unsent, RunRecord, Release, AtRun, Go, sandboxVars, engineVars
<1> QED
  BY <1>2, <1>3, OneRunRecords

LEMMA RunDiesRecords == ASSUME RunInv, RecordsInv, NEW r \in Runs, RunDies(r) PROVE RecordsInv'
<1>1. /\ run \in [Runs -> RunRecord] /\ completed \in [Runs -> Statuses]
      /\ run[r] \in RunRecord /\ RecordInv(r)
  BY DEF RunInv, TypeOK, RecordsInv
<1>2. OthersStay(r)
  BY <1>1 DEF OthersStay, RunDies, Active, sandboxVars, engineVars
<1>3. RecordInv(r)'
  BY <1>1 DEF RecordInv, EndKnown, Unsent, RunRecord, RunDies, Active, sandboxVars, engineVars
<1> QED
  BY <1>2, <1>3, OneRunRecords

LEMMA LockExpiresRecords == ASSUME RunInv, RecordsInv, NEW r \in Runs, LockExpires(r) PROVE RecordsInv'
<1>1. /\ run \in [Runs -> RunRecord] /\ completed \in [Runs -> Statuses]
      /\ run[r] \in RunRecord /\ RecordInv(r)
  BY DEF RunInv, TypeOK, RecordsInv
<1>2. OthersStay(r)
  BY <1>1 DEF OthersStay, LockExpires, sandboxVars, engineVars
<1>3. RecordInv(r)'
  BY <1>1 DEF RecordInv, EndKnown, Unsent, RunRecord, LockExpires, sandboxVars, engineVars
<1> QED
  BY <1>2, <1>3, OneRunRecords

LEMMA DeadlineRecords == ASSUME RunInv, RecordsInv, NEW r \in Runs, Deadline(r) PROVE RecordsInv'
<1>1. /\ run \in [Runs -> RunRecord] /\ completed \in [Runs -> Statuses]
      /\ run[r] \in RunRecord /\ RecordInv(r)
  BY DEF RunInv, TypeOK, RecordsInv
<1>2. OthersStay(r)
  BY <1>1 DEF OthersStay, Deadline, sandboxVars, engineVars
<1>3. RecordInv(r)'
  BY <1>1 DEF RecordInv, EndKnown, Unsent, RunRecord, Deadline, sandboxVars, engineVars
<1> QED
  BY <1>2, <1>3, OneRunRecords

(* A status that the sandbox replied is of a program whose container is    *)
(* gone, or could not be removed.                                          *)
LEMMA RepliedIsOver ==
    ASSUME RunInv, NEW r \in Runs, exec[r].pc = "replied"
    PROVE  box[r] # "running" \/ r \in strays
  BY DEF RunInv, TypeOK, BoxInv, InSlot

(* The steps of the call to the sandbox. *)
LEMMA SendRecords == ASSUME RunInv, RecordsInv, NEW r \in Runs, Send(r) PROVE RecordsInv'
<1>1. /\ run \in [Runs -> RunRecord] /\ exec \in [Runs -> ExecRecord] /\ DOMAIN box = Runs
      /\ run[r] \in RunRecord /\ exec[r] \in ExecRecord /\ RecordInv(r)
  BY DEF RunInv, TypeOK, RecordsInv
<1>2. OthersStay(r)
  BY <1>1 DEF OthersStay, Send, AtRun, Go, engineVars
<1>3. RecordInv(r)'
  BY <1>1 DEF RecordInv, EndKnown, Unsent, RunRecord, ExecRecord, NoExec, Send, AtRun, Go, engineVars
<1> QED
  BY <1>2, <1>3, OneRunRecords

LEMMA CallReturnsRecords == ASSUME RunInv, RecordsInv, NEW r \in Runs, CallReturns(r) PROVE RecordsInv'
<1>1. /\ run \in [Runs -> RunRecord] /\ exec \in [Runs -> ExecRecord] /\ DOMAIN box = Runs
      /\ run[r] \in RunRecord /\ exec[r] \in ExecRecord /\ RecordInv(r)
  BY DEF RunInv, TypeOK, RecordsInv
<1>2. OthersStay(r)
  BY <1>1 DEF OthersStay, CallReturns, AtRun, SandboxUnavailable, Answer, engineVars
<1>3. RecordInv(r)'
  BY <1>1, RepliedIsOver DEF RecordInv, EndKnown, Unsent, RunRecord, ExecRecord, NoExec, CallReturns, AtRun, SandboxUnavailable, Answer, engineVars
<1> QED
  BY <1>2, <1>3, OneRunRecords

LEMMA CallBreaksRecords == ASSUME RunInv, RecordsInv, NEW r \in Runs, CallBreaks(r) PROVE RecordsInv'
<1>1. /\ run \in [Runs -> RunRecord] /\ exec \in [Runs -> ExecRecord] /\ DOMAIN box = Runs
      /\ run[r] \in RunRecord /\ exec[r] \in ExecRecord /\ RecordInv(r)
  BY DEF RunInv, TypeOK, RecordsInv
<1>2. OthersStay(r)
  BY <1>1 DEF OthersStay, CallBreaks, AtRun, SandboxUnavailable, Answer, engineVars
<1>3. RecordInv(r)'
  BY <1>1 DEF RecordInv, EndKnown, Unsent, RunRecord, ExecRecord, NoExec, CallBreaks, AtRun, SandboxUnavailable, Answer, engineVars
<1> QED
  BY <1>2, <1>3, OneRunRecords

(* The steps of the sandbox, one by one. *)
LEMMA TakeSlotRecords == ASSUME RunInv, RecordsInv, NEW r \in Runs, TakeSlot(r) PROVE RecordsInv'
<1>1. /\ run \in [Runs -> RunRecord] /\ exec \in [Runs -> ExecRecord] /\ DOMAIN box = Runs
      /\ run[r] \in RunRecord /\ exec[r] \in ExecRecord /\ RecordInv(r)
  BY DEF RunInv, TypeOK, RecordsInv
<1>2. OthersStay(r)
  BY <1>1 DEF OthersStay, TakeSlot, AtExec, SetExec, apiVars, engineVars, Reply
<1>3. RecordInv(r)'
  BY <1>1 DEF RecordInv, EndKnown, Unsent, RunRecord, ExecRecord, NoExec, TakeSlot, AtExec, SetExec, apiVars, engineVars, Reply
<1> QED
  BY <1>2, <1>3, OneRunRecords

LEMMA LoadSnapshotRecords == ASSUME RunInv, RecordsInv, NEW r \in Runs, LoadSnapshot(r) PROVE RecordsInv'
<1>1. /\ run \in [Runs -> RunRecord] /\ exec \in [Runs -> ExecRecord] /\ DOMAIN box = Runs
      /\ run[r] \in RunRecord /\ exec[r] \in ExecRecord /\ RecordInv(r)
  BY DEF RunInv, TypeOK, RecordsInv
<1>2. OthersStay(r)
  BY <1>1 DEF OthersStay, LoadSnapshot, AtExec, SetExec, apiVars, engineVars, Step
<1>3. RecordInv(r)'
  BY <1>1 DEF RecordInv, EndKnown, Unsent, RunRecord, ExecRecord, NoExec, LoadSnapshot, AtExec, SetExec, apiVars, engineVars, Step
<1> QED
  BY <1>2, <1>3, OneRunRecords

LEMMA LoadFailsRecords == ASSUME RunInv, RecordsInv, NEW r \in Runs, LoadFails(r) PROVE RecordsInv'
<1>1. /\ run \in [Runs -> RunRecord] /\ exec \in [Runs -> ExecRecord] /\ DOMAIN box = Runs
      /\ run[r] \in RunRecord /\ exec[r] \in ExecRecord /\ RecordInv(r)
  BY DEF RunInv, TypeOK, RecordsInv
<1>2. OthersStay(r)
  BY <1>1 DEF OthersStay, LoadFails, AtExec, SetExec, apiVars, engineVars
<1>3. RecordInv(r)'
  BY <1>1 DEF RecordInv, EndKnown, Unsent, RunRecord, ExecRecord, NoExec, LoadFails, AtExec, SetExec, apiVars, engineVars
<1> QED
  BY <1>2, <1>3, OneRunRecords

LEMMA CreatedRecords == ASSUME RunInv, RecordsInv, NEW r \in Runs, Created(r) PROVE RecordsInv'
<1>1. /\ run \in [Runs -> RunRecord] /\ exec \in [Runs -> ExecRecord] /\ DOMAIN box = Runs
      /\ run[r] \in RunRecord /\ exec[r] \in ExecRecord /\ RecordInv(r)
  BY DEF RunInv, TypeOK, RecordsInv
<1>2. OthersStay(r)
  BY <1>1 DEF OthersStay, Created, AtExec, SetExec, apiVars, engineVars, Step
<1>3. RecordInv(r)'
  BY <1>1 DEF RecordInv, EndKnown, Unsent, RunRecord, ExecRecord, NoExec, Created, AtExec, SetExec, apiVars, engineVars, Step
<1> QED
  BY <1>2, <1>3, OneRunRecords

LEMMA CreateFailsRecords == ASSUME RunInv, RecordsInv, NEW r \in Runs, CreateFails(r) PROVE RecordsInv'
<1>1. /\ run \in [Runs -> RunRecord] /\ exec \in [Runs -> ExecRecord] /\ DOMAIN box = Runs
      /\ run[r] \in RunRecord /\ exec[r] \in ExecRecord /\ RecordInv(r)
  BY DEF RunInv, TypeOK, RecordsInv
<1>2. OthersStay(r)
  BY <1>1 DEF OthersStay, CreateFails, AtExec, SetExec, apiVars, engineVars, Finish
<1>3. RecordInv(r)'
  BY <1>1 DEF RecordInv, EndKnown, Unsent, RunRecord, ExecRecord, NoExec, CreateFails, AtExec, SetExec, apiVars, engineVars, Finish
<1> QED
  BY <1>2, <1>3, OneRunRecords

LEMMA StartRecords == ASSUME RunInv, RecordsInv, NEW r \in Runs, Start(r) PROVE RecordsInv'
<1>1. /\ run \in [Runs -> RunRecord] /\ exec \in [Runs -> ExecRecord] /\ DOMAIN box = Runs
      /\ run[r] \in RunRecord /\ exec[r] \in ExecRecord /\ RecordInv(r)
  BY DEF RunInv, TypeOK, RecordsInv
<1>2. OthersStay(r)
  BY <1>1 DEF OthersStay, Start, AtExec, SetExec, apiVars, engineVars, Step
<1>3. RecordInv(r)'
  BY <1>1 DEF RecordInv, EndKnown, Unsent, RunRecord, ExecRecord, NoExec, Start, AtExec, SetExec, apiVars, engineVars, Step
<1> QED
  BY <1>2, <1>3, OneRunRecords

LEMMA AttachEndsRecords == ASSUME RunInv, RecordsInv, NEW r \in Runs, AttachEnds(r) PROVE RecordsInv'
<1>1. /\ run \in [Runs -> RunRecord] /\ exec \in [Runs -> ExecRecord] /\ DOMAIN box = Runs
      /\ run[r] \in RunRecord /\ exec[r] \in ExecRecord /\ RecordInv(r)
  BY DEF RunInv, TypeOK, RecordsInv
<1>2. OthersStay(r)
  BY <1>1 DEF OthersStay, AttachEnds, AtExec, SetExec, apiVars, engineVars, Step
<1>3. RecordInv(r)'
  BY <1>1 DEF RecordInv, EndKnown, Unsent, RunRecord, ExecRecord, NoExec, AttachEnds, AtExec, SetExec, apiVars, engineVars, Step
<1> QED
  BY <1>2, <1>3, OneRunRecords

LEMMA TimedOutRecords == ASSUME RunInv, RecordsInv, NEW r \in Runs, TimedOut(r) PROVE RecordsInv'
<1>1. /\ run \in [Runs -> RunRecord] /\ exec \in [Runs -> ExecRecord] /\ DOMAIN box = Runs
      /\ run[r] \in RunRecord /\ exec[r] \in ExecRecord /\ RecordInv(r)
  BY DEF RunInv, TypeOK, RecordsInv
<1>2. OthersStay(r)
  BY <1>1 DEF OthersStay, TimedOut, AtExec, SetExec, apiVars, engineVars, Step
<1>3. RecordInv(r)'
  BY <1>1 DEF RecordInv, EndKnown, Unsent, RunRecord, ExecRecord, NoExec, TimedOut, AtExec, SetExec, apiVars, engineVars, Step
<1> QED
  BY <1>2, <1>3, OneRunRecords

LEMMA KillRecords == ASSUME RunInv, RecordsInv, NEW r \in Runs, Kill(r) PROVE RecordsInv'
<1>1. /\ run \in [Runs -> RunRecord] /\ exec \in [Runs -> ExecRecord] /\ DOMAIN box = Runs
      /\ run[r] \in RunRecord /\ exec[r] \in ExecRecord /\ RecordInv(r)
  BY DEF RunInv, TypeOK, RecordsInv
<1>2. OthersStay(r)
  BY <1>1 DEF OthersStay, Kill, AtExec, SetExec, apiVars, engineVars, Finish
<1>3. RecordInv(r)'
  BY <1>1 DEF RecordInv, EndKnown, Unsent, RunRecord, ExecRecord, NoExec, Kill, AtExec, SetExec, apiVars, engineVars, Finish
<1> QED
  BY <1>2, <1>3, OneRunRecords

LEMMA KillFailsRecords == ASSUME RunInv, RecordsInv, NEW r \in Runs, KillFails(r) PROVE RecordsInv'
<1>1. /\ run \in [Runs -> RunRecord] /\ exec \in [Runs -> ExecRecord] /\ DOMAIN box = Runs
      /\ run[r] \in RunRecord /\ exec[r] \in ExecRecord /\ RecordInv(r)
  BY DEF RunInv, TypeOK, RecordsInv
<1>2. OthersStay(r)
  BY <1>1 DEF OthersStay, KillFails, AtExec, SetExec, apiVars, engineVars, Finish, Step
<1>3. RecordInv(r)'
  BY <1>1 DEF RecordInv, EndKnown, Unsent, RunRecord, ExecRecord, NoExec, KillFails, AtExec, SetExec, apiVars, engineVars, Finish, Step
<1> QED
  BY <1>2, <1>3, OneRunRecords

LEMMA StoppedRecords == ASSUME RunInv, RecordsInv, NEW r \in Runs, Stopped(r) PROVE RecordsInv'
<1>1. /\ run \in [Runs -> RunRecord] /\ exec \in [Runs -> ExecRecord] /\ DOMAIN box = Runs
      /\ run[r] \in RunRecord /\ exec[r] \in ExecRecord /\ RecordInv(r)
  BY DEF RunInv, TypeOK, RecordsInv
<1>2. OthersStay(r)
  BY <1>1 DEF OthersStay, Stopped, AtExec, SetExec, apiVars, engineVars, Finish
<1>3. RecordInv(r)'
  BY <1>1 DEF RecordInv, EndKnown, Unsent, RunRecord, ExecRecord, NoExec, Stopped, AtExec, SetExec, apiVars, engineVars, Finish
<1> QED
  BY <1>2, <1>3, OneRunRecords

LEMMA InspectRecords == ASSUME RunInv, RecordsInv, NEW r \in Runs, Inspect(r) PROVE RecordsInv'
<1>1. /\ run \in [Runs -> RunRecord] /\ exec \in [Runs -> ExecRecord] /\ DOMAIN box = Runs
      /\ run[r] \in RunRecord /\ exec[r] \in ExecRecord /\ RecordInv(r)
  BY DEF RunInv, TypeOK, RecordsInv
<1>2. OthersStay(r)
  BY <1>1 DEF OthersStay, Inspect, AtExec, SetExec, apiVars, engineVars, Finish
<1>3. RecordInv(r)'
  BY <1>1 DEF RecordInv, EndKnown, Unsent, RunRecord, ExecRecord, NoExec, Inspect, AtExec, SetExec, apiVars, engineVars, Finish
<1> QED
  BY <1>2, <1>3, OneRunRecords

LEMMA RemoveRecords == ASSUME RunInv, RecordsInv, NEW r \in Runs, Remove(r) PROVE RecordsInv'
<1>1. /\ run \in [Runs -> RunRecord] /\ exec \in [Runs -> ExecRecord] /\ DOMAIN box = Runs
      /\ run[r] \in RunRecord /\ exec[r] \in ExecRecord /\ RecordInv(r)
  BY DEF RunInv, TypeOK, RecordsInv
<1>2. OthersStay(r)
  BY <1>1 DEF OthersStay, Remove, AtExec, SetExec, apiVars, engineVars, Step, RemovedBy
<1>3. RecordInv(r)'
  BY <1>1 DEF RecordInv, EndKnown, Unsent, RunRecord, ExecRecord, NoExec, Remove, AtExec, SetExec, apiVars, engineVars, Step, RemovedBy
<1> QED
  BY <1>2, <1>3, OneRunRecords

LEMMA ReturnRecords == ASSUME RunInv, RecordsInv, NEW r \in Runs, Return(r) PROVE RecordsInv'
<1>1. /\ run \in [Runs -> RunRecord] /\ exec \in [Runs -> ExecRecord] /\ DOMAIN box = Runs
      /\ run[r] \in RunRecord /\ exec[r] \in ExecRecord /\ RecordInv(r)
  BY DEF RunInv, TypeOK, RecordsInv
<1>2. OthersStay(r)
  BY <1>1 DEF OthersStay, Return, AtExec, SetExec, apiVars, engineVars, Reply
<1>3. RecordInv(r)'
  BY <1>1 DEF RecordInv, EndKnown, Unsent, RunRecord, ExecRecord, NoExec, Return, AtExec, SetExec, apiVars, engineVars, Reply
<1> QED
  BY <1>2, <1>3, OneRunRecords

(* The engine and the sandbox's process. *)
LEMMA EngineRecords ==
    ASSUME RunInv, RecordsInv, NEW r \in Runs, EngineCreates(r) \/ Exit(r)
    PROVE  RecordsInv'
<1>1. DOMAIN box = Runs /\ RecordInv(r)
  BY DEF RunInv, TypeOK, RecordsInv
<1>2. OthersStay(r)
  BY <1>1 DEF OthersStay, EngineCreates, Exit, apiVars, sandboxVars
<1>3. RecordInv(r)'
  BY <1>1 DEF RecordInv, EndKnown, Unsent, EngineCreates, Exit, apiVars, sandboxVars
<1> QED
  BY <1>2, <1>3, OneRunRecords

LEMMA BootRecords ==
    ASSUME RunInv, RecordsInv, SandboxDies \/ ReapList \/ ReapRemove \/ UNCHANGED vars
    PROVE  RecordsInv'
<1> SUFFICES ASSUME NEW r \in Runs PROVE RecordInv(r)'
  BY DEF RecordsInv
<1>1. RecordInv(r)
  BY DEF RecordsInv
<1>2. CASE SandboxDies
  BY <1>1, <1>2 DEF RecordInv, EndKnown, Unsent, SandboxDies, NoExec, apiVars, engineVars
<1>3. CASE ReapList \/ UNCHANGED vars
  BY <1>1, <1>3 DEF RecordInv, EndKnown, Unsent, ReapList, vars, apiVars, engineVars
<1>4. CASE ReapRemove
  BY <1>1, <1>4 DEF RecordInv, EndKnown, Unsent, ReapRemove, apiVars
<1> QED
  BY <1>2, <1>3, <1>4

(* execution.completed follows execution.requested, every run that returns *)
(* has recorded its end or failed to, and no program runs on after its end *)
(* was recorded: whatever fails, dies or disconnects, and however often.   *)
THEOREM RecordsAreTrue == Spec => []RecordsTrue
<1>1. Init => RecordsInv
  BY DEF Init, RecordsInv, RecordInv, EndKnown, Unsent, NoCall, NoExec
<1>2. ASSUME RunInv, RecordsInv, [Next]_vars PROVE RecordsInv'
  <2>1. ASSUME NEW r \in Runs,
               \/ Acquire(r) \/ Refuse(r) \/ AcquireFails(r)
               \/ RunStep(r) \/ RunDies(r) \/ LockExpires(r) \/ Deadline(r)
        PROVE  RecordsInv'
    BY <1>2, <2>1, AcquireRecords, RefuseRecords, AcquireFailsRecords, PutSnapshotRecords,
       RecordRequestedRecords, SendRecords, SendFailsRecords, CallReturnsRecords, CallBreaksRecords,
       RecordCompletedRecords, ReleaseRecords, RunDiesRecords, LockExpiresRecords, DeadlineRecords
       DEF RunStep
  <2>2. ASSUME NEW r \in Runs, ExecStep(r) PROVE RecordsInv'
    BY <1>2, <2>2, TakeSlotRecords, LoadSnapshotRecords, LoadFailsRecords, CreatedRecords,
       CreateFailsRecords, StartRecords, AttachEndsRecords, TimedOutRecords, KillRecords,
       KillFailsRecords, StoppedRecords, InspectRecords, RemoveRecords, ReturnRecords
       DEF ExecStep
  <2> QED
    BY <1>2, <2>1, <2>2, EngineRecords, BootRecords DEF Next
<1>3. RunInv /\ RecordsInv /\ [Next]_vars => RecordsInv'
  BY <1>2
<1>4. RecordsInv => RecordsTrue
  BY DEF RecordsInv, RecordInv, RecordsTrue, EndKnown, AtRun
<1> QED
  BY <1>1, <1>3, <1>4, RunFlowCorrect, PTL DEF Spec

=============================================================================
