-------------------------- MODULE TaskRunnerProofs --------------------------
(***************************************************************************)
(* Proofs about TaskRunner for every set of tasks, handlers, works and     *)
(* request lists, and any number of SQLite failures, stops and restarts.   *)
(* The process implements the repository's specification, so what          *)
(* TaskStateProofs shows of the tables holds around it; and the row of an  *)
(* attempt moves only in ways the goroutine that holds it knows of.        *)
(***************************************************************************)
EXTENDS TaskRunner, TaskStateProofs

HeldPCs == {"RunTask", "completeWork", "beginFinalizing", "persistControl", "FinishTask",
            "clearTask"}
Finalizing == {"persistControl", "FinishTask", "clearTask"}

\* What the goroutine works on and what it holds, by the call it is about to
\* make; a goroutine that has returned leaves both behind.
Places ==
  /\ rpc \in {"loop", "ClaimNext", "HasQueuedTasks", "down"} => ref = NoRef
  /\ rpc \in HeldPCs \cup {"handoff", "RequestedAction"} => ref # NoRef
  /\ rpc \in HeldPCs => held.ref = ref
  /\ rpc \notin HeldPCs \cup {"stopped"} => held = NotHeld
  /\ held # NotHeld => held.ref = ref /\ ref # NoRef
  /\ rpc \in Finalizing => held.finalizing
  /\ rpc \in HeldPCs \ Finalizing => ~held.finalizing
  /\ rpc = "persistControl" => held.action # None
  /\ held.action # None => held.cause # None
  /\ backoff => rpc \in {"ClaimNext", "RequestedAction", "persistControl", "FinishTask"}

\* The row of the attempt is running until FinishTask has ended it.
RowOfAttempt ==
  ref # NoRef =>
    \/ IsRunning(ref.task, ref.attempt)
    \/ /\ rpc = "clearTask"
       /\ tasks[ref.task].attempt = ref.attempt /\ tasks[ref.task].status \in Outcomes

\* Who is between the checks in memory and SQLite holds the lock of the task.
Locked ==
  /\ \A c \in Clients :
       /\ clients[c].pc \in {"lockTask", "persist"} =>
            clients[c].task \in TaskIDs /\ clients[c].op \in Ops
       /\ clients[c].pc = "persist" => locks[clients[c].task] = c
  /\ rpc \in {"RequestedAction", "persistControl"} => locks[ref.task] = "runner"

\* A handler that is about to write has signalled the attempt first, and no
\* resume is under way for an attempt that finalizes.
Signalled ==
  \A c \in Clients :
    clients[c].pc = "persist" /\ held.ref.task = clients[c].task =>
      IF clients[c].op = "resume" THEN ~held.finalizing ELSE held.action = clients[c].op

\* Success is only reported after the commit.
ErrorKept ==
  rpc \in {"beginFinalizing", "persistControl", "FinishTask"} /\ err = None =>
    tasks[ref.task].committed

ProcessInv ==
  /\ ProcessTypeOK /\ Places /\ RowOfAttempt /\ Locked /\ Signalled /\ ErrorKept
  /\ ActionReachesExecutor /\ SucceededIsCommitted

RunnerInv == IInv /\ ProcessInv

USE DEF NoWork, None, Idle, stateVars, runnerVars, processVars

LEMMA NothingHeld ==
  /\ NoRef \in Refs /\ NoRef.task = NoTask
  /\ NotHeld \in [ref: Refs, action: Actions \cup {None}, finalizing: BOOLEAN,
                  cause: Causes \cup {None}]
  /\ NotHeld.ref = NoRef /\ NotHeld.action = None /\ ~NotHeld.finalizing
  /\ \A r \in Refs : r # NoRef => r.task \in TaskIDs
  /\ NoTask \notin TaskIDs
BY RunnerAssumption DEF NoTask, NoRef, NotHeld, Refs, Attempts

LEMMA LockTaken ==
  ASSUME NEW f \in [TaskIDs -> Clients \cup {"free", "runner"}], NEW u \in TaskIDs, NEW v,
         f[u] \in {"free", "runner"}
  PROVE  /\ \A c \in Clients, t \in TaskIDs : f[t] = c => [f EXCEPT ![u] = v][t] = c
         /\ [f EXCEPT ![u] = v][u] = v
BY RunnerAssumption

LEMMA LocksReleased ==
  ASSUME NEW f \in [TaskIDs -> Clients \cup {"free", "runner"}], NEW o \in Clients \cup {"runner"}
  PROVE  LET g == [t \in TaskIDs |-> IF f[t] = o THEN "free" ELSE f[t]] IN
         /\ g \in [TaskIDs -> Clients \cup {"free", "runner"}]
         /\ \A t \in TaskIDs : f[t] # o => g[t] = f[t]
OBVIOUS

LEMMA RunnerIsNoClient == \A c \in Clients : c # "runner" /\ c # "free"
BY RunnerAssumption

LEMMA NobodyWrites ==
  ASSUME Locked, NEW t, locks[t] \in {"free", "runner"}
  PROVE  \A c \in Clients : clients[c].pc = "persist" => clients[c].task # t
BY RunnerAssumption DEF Locked

\* A step of the goroutine takes no lock from a handler.
LEMMA LocksOfHandlers ==
  ASSUME Locked, clients' = clients,
         \A c \in Clients, t \in TaskIDs : locks[t] = c => locks'[t] = c,
         rpc' \in {"RequestedAction", "persistControl"} => locks'[ref'.task] = "runner"
  PROVE  Locked'
BY DEF Locked

-----------------------------------------------------------------------------
(* Steps that leave the tables alone                                       *)

\* Steps that move the goroutine on to its next call, within what it holds.
Onward ==
  \/ rpc' = rpc
  \/ rpc = "loop" /\ rpc' \in {"ClaimNext", "stopped"}
  \/ rpc \in {"RunTask", "completeWork"} /\ rpc' = "completeWork"
  \/ rpc \in {"RunTask", "completeWork"} /\ rpc' = "beginFinalizing" /\ err' # None
  \/ rpc = "HasQueuedTasks" /\ rpc' \in {"loop", "ClaimNext"}

LEMMA OnwardStep ==
  ASSUME RunnerInv, Onward,
         UNCHANGED <<stateVars, ref, held, locks, clients>>,
         err' \in Causes \cup {"failure", None},
         err' = err \/ err' # None,
         backoff' => rpc' \in {"ClaimNext", "RequestedAction", "persistControl", "FinishTask"}
  PROVE  ProcessInv'
<1> USE DEF RunnerInv, ProcessInv
<1>1. ProcessTypeOK'
  BY NothingHeld DEF ProcessTypeOK, Onward, RunnerPCs
<1>2. Places'
  BY NothingHeld DEF Places, Onward, HeldPCs, Finalizing
<1>3. RowOfAttempt'
  BY DEF RowOfAttempt, Onward, IsRunning
<1>4. Locked' /\ Signalled'
  BY DEF Locked, Signalled, Onward
<1>5. ErrorKept'
  BY DEF ErrorKept, Onward
<1>6. ActionReachesExecutor' /\ SucceededIsCommitted'
  BY NothingHeld DEF ActionReachesExecutor, SucceededIsCommitted, IsRunning
<1>7. QED
  BY <1>1, <1>2, <1>3, <1>4, <1>5, <1>6

LEMMA OnwardSteps ==
  ASSUME RunnerInv,
         \/ BackoffTimer \/ LoopWake \/ LoopDone \/ RunTaskReturn \/ RunTaskDone
         \/ CheckQueued \/ RunnerFaults \/ CommitFault
  PROVE  ProcessInv' /\ UNCHANGED stateVars
<1> USE DEF Onward, Running
<1>1. err \in Causes \cup {"failure", None}
  BY DEF RunnerInv, ProcessInv, ProcessTypeOK
<1>0. backoff => rpc \in {"ClaimNext", "RequestedAction", "persistControl", "FinishTask"}
  BY DEF RunnerInv, ProcessInv, Places
<1>2. held.cause \in Causes \cup {None}
  BY DEF RunnerInv, ProcessInv, ProcessTypeOK
<1>2a. CASE BackoffTimer
  BY <1>0, <1>1, <1>2a, OnwardStep DEF BackoffTimer
<1>3. CASE LoopWake
  BY <1>0, <1>1, <1>3, OnwardStep DEF LoopWake
<1>3a. CASE LoopDone
  BY <1>0, <1>1, <1>3a, OnwardStep DEF LoopDone
<1>4. CASE RunTaskReturn
  BY <1>0, <1>1, <1>2, <1>4, OnwardStep DEF RunTaskReturn
<1>5. CASE RunTaskDone
  BY <1>0, <1>1, <1>5, OnwardStep DEF RunTaskDone
<1>5a. CASE CommitFault
  BY <1>0, <1>1, <1>5a, OnwardStep DEF CommitFault
<1>6. CASE CheckQueued
  BY <1>0, <1>1, <1>6, OnwardStep DEF CheckQueued
<1>7. CASE RunnerFaults
  BY <1>0, <1>1, <1>7, OnwardStep DEF RunnerFaults, RunnerFault
<1>8. QED
  BY <1>2a, <1>3, <1>3a, <1>4, <1>5, <1>5a, <1>6, <1>7

LEMMA BackoffCanceledStep ==
  ASSUME RunnerInv, BackoffCanceled
  PROVE  ProcessInv' /\ UNCHANGED stateVars
<1> USE DEF RunnerInv, ProcessInv
<1>1. ProcessTypeOK'
  BY NothingHeld DEF BackoffCanceled, ProcessTypeOK, RunnerPCs, Causes
<1>2. Places'
  BY NothingHeld DEF BackoffCanceled, Places, HeldPCs, Finalizing
<1>3. RowOfAttempt' /\ ErrorKept'
  BY DEF BackoffCanceled, RowOfAttempt, ErrorKept, Places, IsRunning
<1>4. Locked' /\ Signalled'
  <2>1. \A c \in Clients, t \in TaskIDs : locks[t] = c => locks'[t] = c
    <3>1. locks \in [TaskIDs -> Clients \cup {"free", "runner"}]
      BY DEF ProcessTypeOK
    <3>2. \A t \in TaskIDs : locks[t] # "runner" => locks'[t] = locks[t]
      BY <3>1, LocksReleased DEF BackoffCanceled
    <3>3. QED
      BY <3>2, RunnerIsNoClient
  <2>2. rpc' \notin {"RequestedAction", "persistControl"}
    BY DEF BackoffCanceled
  <2>3. Locked'
    BY <2>1, <2>2, LocksOfHandlers DEF BackoffCanceled
  <2>4. QED
    BY <2>3 DEF BackoffCanceled, Signalled
<1>5. ActionReachesExecutor' /\ SucceededIsCommitted'
  BY NothingHeld DEF BackoffCanceled, ActionReachesExecutor, SucceededIsCommitted, IsRunning
<1>6. QED
  BY <1>1, <1>2, <1>3, <1>4, <1>5 DEF BackoffCanceled

LEMMA HandoffLockStep ==
  ASSUME RunnerInv, HandoffLock
  PROVE  ProcessInv' /\ UNCHANGED stateVars
<1> USE DEF RunnerInv, ProcessInv
<1>0. ref.task \in TaskIDs
  BY NothingHeld DEF HandoffLock, Running, Places, ProcessTypeOK, Refs
<1>1. ProcessTypeOK'
  BY NothingHeld DEF HandoffLock, Running, ProcessTypeOK, RunnerPCs
<1>2. Places'
  BY NothingHeld DEF HandoffLock, Running, Places, HeldPCs, Finalizing
<1>3. RowOfAttempt' /\ ErrorKept'
  BY DEF HandoffLock, Running, RowOfAttempt, ErrorKept, IsRunning
<1>4. Locked' /\ Signalled'
  <2>1. locks \in [TaskIDs -> Clients \cup {"free", "runner"}] /\ locks[ref.task] = "free"
    BY DEF HandoffLock, Running, ProcessTypeOK
  <2>2. \A c \in Clients, t \in TaskIDs : locks[t] = c => locks'[t] = c
    BY <1>0, <2>1, LockTaken DEF HandoffLock
  <2>3. locks'[ref'.task] = "runner"
    BY <1>0, <2>1, LockTaken DEF HandoffLock
  <2>4. Locked'
    BY <2>2, <2>3, LocksOfHandlers DEF HandoffLock
  <2>5. QED
    BY <2>4 DEF HandoffLock, Running, Signalled
<1>5. ActionReachesExecutor' /\ SucceededIsCommitted'
  BY NothingHeld DEF HandoffLock, Running, ActionReachesExecutor, SucceededIsCommitted, IsRunning
<1>6. QED
  BY <1>1, <1>2, <1>3, <1>4, <1>5 DEF HandoffLock

\* The hand-off holds the lock of the task: no handler is about to write.
LEMMA ReadRequestedActionStep ==
  ASSUME RunnerInv, ReadRequestedAction
  PROVE  ProcessInv' /\ UNCHANGED stateVars
<1> USE DEF RunnerInv, ProcessInv
<1>0. /\ ref \in Refs /\ ref # NoRef /\ ref.task \in TaskIDs
      /\ tasks[ref.task].action \in Actions \cup {None}
  <2>1. ref \in Refs /\ ref # NoRef
    BY DEF ReadRequestedAction, Running, Places, ProcessTypeOK
  <2>2. ref.task \in TaskIDs
    BY <2>1 DEF ReadRequestedAction, Running, Refs
  <2>3. TypeOK
    BY DEF ReadRequestedAction, Running, IInv
  <2>4. tasks[ref.task] \in Row
    BY <2>2, <2>3, RowType DEF ReadRequestedAction, Running, IsRunning
  <2>5. QED
    BY <2>1, <2>2, <2>4 DEF ReadRequestedAction, Running, Row
<1>1. ProcessTypeOK'
  BY NothingHeld, <1>0 DEF ReadRequestedAction, Running, ProcessTypeOK, RunnerPCs, Causes
<1>2. Places'
  BY NothingHeld, <1>0 DEF ReadRequestedAction, Running, Places, HeldPCs, Finalizing, Actions
<1>3. RowOfAttempt' /\ ErrorKept'
  BY DEF ReadRequestedAction, Running, RowOfAttempt, ErrorKept, IsRunning
<1>4. Locked' /\ Signalled'
  <2>1. locks \in [TaskIDs -> Clients \cup {"free", "runner"}] /\ locks[ref.task] = "runner"
    BY DEF ReadRequestedAction, Running, ProcessTypeOK, Locked
  <2>2. \A c \in Clients, t \in TaskIDs : locks[t] = c => locks'[t] = c
    BY <1>0, <2>1, LockTaken DEF ReadRequestedAction
  <2>3. Locked'
    BY <2>2, LocksOfHandlers DEF ReadRequestedAction
  <2>4. \A c \in Clients : clients[c].pc = "persist" => clients[c].task # ref.task
    BY <2>1, NobodyWrites
  <2>5. QED
    BY <2>3, <2>4 DEF ReadRequestedAction, Running, Signalled
<1>5. ActionReachesExecutor' /\ SucceededIsCommitted'
  BY NothingHeld, <1>0 DEF ReadRequestedAction, Running, ActionReachesExecutor, SucceededIsCommitted, IsRunning
<1>6. QED
  BY <1>1, <1>2, <1>3, <1>4, <1>5 DEF ReadRequestedAction

LEMMA BeginFinalizingStep ==
  ASSUME RunnerInv, BeginFinalizing
  PROVE  ProcessInv' /\ UNCHANGED stateVars
<1> USE DEF RunnerInv, ProcessInv
<1>0. /\ ref # NoRef /\ ref.task \in TaskIDs /\ held.ref = ref
      /\ held' = [held EXCEPT !.finalizing = TRUE]
      /\ held' \in [ref: Refs, action: Actions \cup {None}, finalizing: BOOLEAN,
                    cause: Causes \cup {None}]
      /\ held'.ref = held.ref /\ held'.action = held.action /\ held'.cause = held.cause
      /\ held'.finalizing = TRUE
  BY NothingHeld DEF BeginFinalizing, Running, Places, ProcessTypeOK, Refs, HeldPCs
<1>1. ProcessTypeOK'
  BY NothingHeld, <1>0 DEF BeginFinalizing, Running, ProcessTypeOK, RunnerPCs
<1>2. Places'
  BY NothingHeld, <1>0 DEF BeginFinalizing, Running, Places, HeldPCs, Finalizing
<1>3. RowOfAttempt' /\ ErrorKept'
  BY DEF BeginFinalizing, Running, RowOfAttempt, ErrorKept, IsRunning
<1>4. Locked' /\ Signalled'
  <2>1. locks \in [TaskIDs -> Clients \cup {"free", "runner"}] /\ locks[ref.task] = "free"
    BY DEF BeginFinalizing, Running, ProcessTypeOK
  <2>a. \/ rpc' = "FinishTask" /\ locks' = locks
        \/ rpc' = "persistControl" /\ locks' = [locks EXCEPT ![ref.task] = "runner"]
    BY DEF BeginFinalizing, Running
  <2>2. \A c \in Clients, t \in TaskIDs : locks[t] = c => locks'[t] = c
    BY <1>0, <2>1, <2>a, LockTaken
  <2>3. rpc' = "persistControl" => locks'[ref.task] = "runner"
    BY <1>0, <2>1, <2>a
  <2>b. clients' = clients /\ ref' = ref
    BY DEF BeginFinalizing
  <2>4. Locked'
    BY <2>2, <2>3, <2>a, <2>b, LocksOfHandlers DEF BeginFinalizing
  <2>5. \A c \in Clients : clients[c].pc = "persist" => clients[c].task # ref.task
    BY <2>1, NobodyWrites
  <2>6. QED
    BY <1>0, <2>4, <2>5, <2>b DEF Signalled
<1>5. ActionReachesExecutor' /\ SucceededIsCommitted'
  <2>1. UNCHANGED tasks
    BY DEF BeginFinalizing, Running
  <2>2. QED
    BY <1>0, <2>1 DEF ActionReachesExecutor, SucceededIsCommitted, IsRunning
<1>6. QED
  BY <1>1, <1>2, <1>3, <1>4, <1>5 DEF BeginFinalizing

LEMMA ClearTaskStep ==
  ASSUME RunnerInv, ClearTask
  PROVE  ProcessInv' /\ UNCHANGED stateVars
<1> USE DEF RunnerInv, ProcessInv
<1>1. ProcessTypeOK'
  BY NothingHeld DEF ClearTask, Running, ProcessTypeOK, RunnerPCs, Refs
<1>2. Places'
  BY NothingHeld DEF ClearTask, Running, Places, HeldPCs, Finalizing
<1>3. RowOfAttempt' /\ ErrorKept'
  BY DEF ClearTask, Running, RowOfAttempt, ErrorKept
<1>4. Locked' /\ Signalled'
  <2>1. Locked'
    BY DEF ClearTask, Locked
  <2>2. \A c \in Clients : clients[c].pc = "persist" => clients[c].task # NotHeld.ref.task
    BY NothingHeld DEF Locked
  <2>3. QED
    BY <2>1, <2>2 DEF ClearTask, Signalled
<1>5. ActionReachesExecutor' /\ SucceededIsCommitted'
  BY NothingHeld DEF ClearTask, Running, ActionReachesExecutor, SucceededIsCommitted
<1>6. QED
  BY <1>1, <1>2, <1>3, <1>4, <1>5 DEF ClearTask

-----------------------------------------------------------------------------
(* Handlers                                                                 *)

LEMMA ClientEnqueueStep ==
  ASSUME RunnerInv, NEW c \in Clients, ClientEnqueue(c)
  PROVE  ProcessInv' /\ Next
<1> USE DEF RunnerInv, ProcessInv
<1>0. PICK reqs \in Batches : \E ids \in [FreshIndexes(reqs) -> TaskIDs] : Enqueue(reqs, ids)
  BY NothingHeld DEF ClientEnqueue
<1>1. PICK ids \in [FreshIndexes(reqs) -> TaskIDs] : Enqueue(reqs, ids)
  BY <1>0
<1>2. ASSUME NEW t \in TaskIDs
      PROVE  \/ tasks'[t] = tasks[t]
             \/ /\ tasks[t].status = "absent"
                /\ tasks'[t].status = "queued" /\ tasks'[t].action = None
  BY <1>1 DEF Enqueue
<1>3. ProcessTypeOK' /\ Places'
  BY NothingHeld DEF ClientEnqueue, ProcessTypeOK, Places, runnerVars, processVars
<1>4. ref # NoRef => ref.task \in TaskIDs /\ tasks'[ref.task] = tasks[ref.task]
  BY <1>2 DEF RowOfAttempt, IsRunning, Outcomes, Statuses, ProcessTypeOK, Refs
<1>5. RowOfAttempt' /\ ErrorKept'
  BY <1>4 DEF ClientEnqueue, RowOfAttempt, IsRunning, ErrorKept, Places, HeldPCs, runnerVars
<1>6. Locked' /\ Signalled'
  BY DEF ClientEnqueue, Locked, Signalled, ProcessTypeOK, runnerVars
<1>7. ActionReachesExecutor' /\ SucceededIsCommitted'
  BY NothingHeld, <1>2 DEF ClientEnqueue, ActionReachesExecutor, SucceededIsCommitted, IsRunning, runnerVars
<1>8. Next
  BY <1>1 DEF Next
<1>9. QED
  BY <1>3, <1>5, <1>6, <1>7, <1>8

\* A handler that waits for the lock, and one that notifies.
LEMMA ClientRequestStep ==
  ASSUME RunnerInv, NEW c \in Clients, NEW t \in TaskIDs, NEW op \in Ops, ClientRequest(c, t, op)
  PROVE  ProcessInv' /\ UNCHANGED stateVars
<1> USE DEF RunnerInv, ProcessInv
<1>0. clients' = [clients EXCEPT ![c] = [pc |-> "lockTask", op |-> op, task |-> t]]
  BY NothingHeld DEF ClientRequest
<1>1. ProcessTypeOK'
  BY NothingHeld DEF ClientRequest, ProcessTypeOK
<1>2. Places' /\ RowOfAttempt' /\ ErrorKept' /\ ActionReachesExecutor' /\ SucceededIsCommitted'
  BY NothingHeld DEF ClientRequest, Places, RowOfAttempt, ErrorKept, ActionReachesExecutor, SucceededIsCommitted, IsRunning
<1>3. Locked' /\ Signalled'
  BY DEF ClientRequest, Locked, Signalled, ProcessTypeOK
<1>4. QED
  BY <1>1, <1>2, <1>3 DEF ClientRequest

LEMMA ClientNotifyStep ==
  ASSUME RunnerInv, NEW c \in Clients, ClientNotify(c)
  PROVE  ProcessInv' /\ UNCHANGED stateVars
<1> USE DEF RunnerInv, ProcessInv
<1>1. ProcessTypeOK'
  BY NothingHeld DEF ClientNotify, ProcessTypeOK
<1>2. Places' /\ RowOfAttempt' /\ ErrorKept' /\ ActionReachesExecutor' /\ SucceededIsCommitted'
  BY NothingHeld DEF ClientNotify, Places, RowOfAttempt, ErrorKept, ActionReachesExecutor, SucceededIsCommitted, IsRunning
<1>3. Locked'
  <2>1. locks \in [TaskIDs -> Clients \cup {"free", "runner"}]
    BY DEF ProcessTypeOK
  <2>2. \A t \in TaskIDs : locks[t] # c => locks'[t] = locks[t]
    BY <2>1, LocksReleased DEF ClientNotify
  <2>3. \A d \in Clients : d # c => clients'[d] = clients[d]
    BY DEF ClientNotify, ProcessTypeOK
  <2>4. clients'[c].pc = "idle"
    BY DEF ClientNotify, ProcessTypeOK
  <2>5. rpc \in {"RequestedAction", "persistControl"} => ref.task \in TaskIDs
    BY NothingHeld DEF Places, ProcessTypeOK, HeldPCs
  <2>6. rpc' = rpc /\ ref' = ref
    BY DEF ClientNotify
  <2>7. QED
    BY <2>2, <2>3, <2>4, <2>5, <2>6, RunnerIsNoClient DEF Locked
<1>3a. Signalled'
  BY DEF ClientNotify, Signalled, ProcessTypeOK
<1>4. QED
  BY <1>1, <1>2, <1>3, <1>3a DEF ClientNotify

\* The look at the attempt in memory, and the signal.
LEMMA ClientLockStep ==
  ASSUME RunnerInv, NEW c \in Clients, ClientLock(c)
  PROVE  ProcessInv' /\ UNCHANGED stateVars
<1> DEFINE t == clients[c].task
           op == clients[c].op
<1> USE DEF RunnerInv, ProcessInv
<1>1. t \in TaskIDs /\ op \in Ops
  BY DEF ClientLock, Locked
<1>2. CASE /\ HeldConflict(t, op) /\ clients' = [clients EXCEPT ![c] = Idle]
           /\ UNCHANGED <<stateVars, rpc, backoff, ref, err, locks, held>>
  <2>1. ProcessTypeOK'
    BY NothingHeld, <1>2 DEF ProcessTypeOK
  <2>2. Places' /\ RowOfAttempt' /\ ErrorKept' /\ ActionReachesExecutor' /\ SucceededIsCommitted'
    BY NothingHeld, <1>2 DEF Places, RowOfAttempt, ErrorKept, ActionReachesExecutor, SucceededIsCommitted, IsRunning
  <2>3. Locked' /\ Signalled'
    BY <1>2 DEF Locked, Signalled, ProcessTypeOK
  <2>4. QED
    BY <1>2, <2>1, <2>2, <2>3
<1>3. CASE /\ ~HeldConflict(t, op) /\ locks[t] = "free"
           /\ locks' = [locks EXCEPT ![t] = c]
           /\ clients' = [clients EXCEPT ![c] = [@ EXCEPT !.pc = "persist"]]
           /\ held' = IF held.ref.task = t /\ op \in Actions
                      THEN [held EXCEPT !.action = op,
                                        !.cause = IF held.cause = None THEN op ELSE held.cause]
                      ELSE held
           /\ UNCHANGED <<stateVars, rpc, backoff, ref, err>>
  <2>0. clients[c] \in [pc: {"idle", "lockTask", "persist", "Notify"},
                        op: Ops \cup {None}, task: TaskIDs \cup {NoTask}]
    BY DEF ProcessTypeOK
  <2>1. /\ clients'[c].pc = "persist" /\ clients'[c].task = t /\ clients'[c].op = op
        /\ \A d \in Clients : d # c => clients'[d] = clients[d]
        /\ clients' \in [Clients -> [pc: {"idle", "lockTask", "persist", "Notify"},
                                     op: Ops \cup {None}, task: TaskIDs \cup {NoTask}]]
    BY <1>3, <2>0 DEF ProcessTypeOK
  <2>2. /\ held' \in [ref: Refs, action: Actions \cup {None}, finalizing: BOOLEAN,
                      cause: Causes \cup {None}]
        /\ held'.ref = held.ref /\ held'.finalizing = held.finalizing
        /\ held.ref.task = t /\ op \in Actions => held'.action = op /\ held'.cause # None
        /\ ~(held.ref.task = t /\ op \in Actions) => held' = held
    BY <1>3 DEF ProcessTypeOK, Causes, Actions
  <2>3. ProcessTypeOK'
    BY NothingHeld, <1>1, <1>3, <2>1, <2>2 DEF ProcessTypeOK
  <2>4. Places'
    <3>1. CASE held.ref.task = t /\ op \in Actions
      <4>1. held.ref.task # NoTask
        BY <1>1, <3>1, NothingHeld
      <4>2. held # NotHeld
        BY <4>1, NothingHeld
      <4>3. QED
        BY <1>3, <2>2, <3>1, <4>2 DEF Places, Actions
    <3>2. CASE ~(held.ref.task = t /\ op \in Actions)
      BY <1>3, <2>2, <3>2 DEF Places
    <3>3. QED
      BY <3>1, <3>2
  <2>5. RowOfAttempt' /\ ErrorKept' /\ SucceededIsCommitted'
    BY <1>3 DEF RowOfAttempt, ErrorKept, SucceededIsCommitted, IsRunning
  <2>a. locks \in [TaskIDs -> Clients \cup {"free", "runner"}]
    BY DEF ProcessTypeOK
  <2>b. locks'[t] = c /\ \A u \in TaskIDs : u # t => locks'[u] = locks[u]
    BY <1>1, <1>3, <2>a
  <2>c. rpc' \in {"RequestedAction", "persistControl"} => ref.task \in TaskIDs
    BY <1>3 DEF Places, ProcessTypeOK, Refs, HeldPCs
  <2>d. \A d \in Clients : clients[d].pc = "persist" => clients[d].task # t
    BY <1>3, NobodyWrites
  <2>6. Locked'
    BY <1>1, <1>3, <2>1, <2>b, <2>c, <2>d DEF Locked
  <2>7. Signalled'
    <3>1. op # "resume" => op \in Actions
      BY <1>1 DEF Ops
    <3>2. "resume" \notin Actions
      BY DEF Actions
    <3>3. ASSUME NEW d \in Clients, d # c, clients'[d].pc = "persist" PROVE clients'[d].task # t
      BY <2>1, <2>d, <3>3
    <3>4. QED
      BY <1>3, <2>1, <2>2, <3>1, <3>2, <3>3 DEF Signalled, HeldConflict
  <2>8. ActionReachesExecutor'
    BY NothingHeld, <1>3, <2>2 DEF ActionReachesExecutor, IsRunning, HeldConflict, Actions
  <2>9. QED
    BY <1>3, <2>3, <2>4, <2>5, <2>6, <2>7, <2>8
<1>4. QED
  BY <1>2, <1>3 DEF ClientLock

\* A control on its way to the table.
LEMMA ClientPersistStep ==
  ASSUME RunnerInv, NEW c \in Clients, ClientPersist(c)
  PROVE  ProcessInv' /\ [Next]_stateVars
<1> DEFINE t == clients[c].task
           op == clients[c].op
<1> USE DEF RunnerInv, ProcessInv
<1>1. /\ t \in TaskIDs /\ op \in Ops /\ locks[t] = c /\ clients[c].pc = "persist"
      /\ TypeOK /\ CommitFence
  BY DEF ClientPersist, Locked, IInv
<1>2. /\ UNCHANGED <<rpc, backoff, ref, err, held>>
      /\ \A d \in Clients : d # c => clients'[d] = clients[d]
      /\ clients'[c].pc \in {"idle", "Notify"}
      /\ clients' \in [Clients -> [pc: {"idle", "lockTask", "persist", "Notify"},
                                   op: Ops \cup {None}, task: TaskIDs \cup {NoTask}]]
      /\ locks' = locks \/ locks' = [locks EXCEPT ![t] = "free"]
  BY DEF ClientPersist, ProcessTypeOK
<1>3. ProcessTypeOK' /\ Places'
  BY <1>1, <1>2 DEF ProcessTypeOK, Places
<1>4. Locked' /\ Signalled'
  <2>1. locks \in [TaskIDs -> Clients \cup {"free", "runner"}]
    BY DEF ProcessTypeOK
  <2>2. \A u \in TaskIDs : locks[u] # c => locks'[u] = locks[u]
    BY <1>1, <1>2, <2>1
  <2>3. rpc \in {"RequestedAction", "persistControl"} => ref.task \in TaskIDs
    BY NothingHeld DEF Places, ProcessTypeOK, HeldPCs
  <2>4. Locked'
    BY <1>2, <2>2, <2>3, RunnerIsNoClient DEF Locked
  <2>5. QED
    BY <1>2, <2>4 DEF Signalled
<1>5. CASE UNCHANGED stateVars
  <2>1. RowOfAttempt' /\ ErrorKept' /\ ActionReachesExecutor' /\ SucceededIsCommitted'
    BY <1>2, <1>5 DEF RowOfAttempt, ErrorKept, ActionReachesExecutor, SucceededIsCommitted, IsRunning
  <2>2. QED
    BY <1>3, <1>4, <1>5, <2>1
<1>6. CASE op = "resume" /\ RequestResume(t)
  <2>1. /\ tasks[t].status \in {"paused", "interrupted", "failed"}
        /\ tasks'[t].status = "queued"
        /\ \A u \in TaskIDs : u # t => tasks'[u] = tasks[u]
    BY <1>1, <1>6, RowType DEF RequestResume, ResumeApplies, TypeOK, Row
  <2>2. ref # NoRef => ref.task \in TaskIDs
    BY NothingHeld DEF ProcessTypeOK
  <2>3. ref # NoRef => ref.task # t
    <3>1. SUFFICES ASSUME ref # NoRef, ref.task = t PROVE FALSE
      OBVIOUS
    <3>2. rpc = "clearTask"
      BY <2>1, <3>1 DEF RowOfAttempt, IsRunning
    <3>3. held.ref = ref /\ held.finalizing
      BY <3>2 DEF Places, HeldPCs, Finalizing
    <3>4. QED
      BY <1>1, <1>6, <3>1, <3>3 DEF Signalled
  <2>4. RowOfAttempt' /\ ErrorKept'
    BY <1>2, <2>1, <2>2, <2>3 DEF RowOfAttempt, ErrorKept, IsRunning, Places, HeldPCs
  <2>5. ActionReachesExecutor' /\ SucceededIsCommitted'
    BY <1>2, <2>1 DEF ActionReachesExecutor, SucceededIsCommitted, IsRunning
  <2>6. Next
    BY <1>1, <1>6 DEF Next
  <2>7. QED
    BY <1>3, <1>4, <2>4, <2>5, <2>6
<1>7. CASE op # "resume" /\ requestAction(t, op)
  <2>0. op \in Actions
    BY <1>1, <1>7 DEF Ops
  <2>1. /\ \A u \in TaskIDs : u # t => tasks'[u] = tasks[u]
        /\ tasks[t].status = "running" => tasks'[t] = [tasks[t] EXCEPT !.action = op]
        /\ tasks[t].status # "running" =>
             /\ tasks[t].status \notin {"absent", "succeeded", "canceled"}
             /\ tasks'[t].status \in {"paused", "canceled"}
             /\ tasks'[t].attempt = tasks[t].attempt
    <3>1. tasks \in [TaskIDs -> Row \cup {AbsentRow}]
      BY <1>1 DEF TypeOK
    <3>2. tasks[t].status \notin {"absent", "succeeded", "canceled"}
      BY <1>7 DEF requestAction, ControlApplies, ControlConflict
    <3>3. tasks[t] \in Row
      BY <1>1, <3>2, RowType
    <3>4. CASE tasks[t].status = "running"
      <4>1. tasks' = [tasks EXCEPT ![t] = [tasks[t] EXCEPT !.action = op]]
        BY <1>7, <3>4 DEF requestAction
      <4>2. QED
        BY <1>1, <3>1, <3>4, <4>1
    <3>5. CASE tasks[t].status # "running"
      <4> DEFINE r == [tasks[t] EXCEPT !.status = IF op = "pause" THEN "paused" ELSE "canceled",
                                       !.action = None]
      <4>1. tasks' = [tasks EXCEPT ![t] = r]
        BY <1>7, <3>5 DEF requestAction
      <4>2. r.status \in {"paused", "canceled"} /\ r.attempt = tasks[t].attempt
        BY <3>3 DEF Row
      <4> HIDE DEF r
      <4>3. QED
        BY <1>1, <3>1, <3>2, <3>5, <4>1, <4>2
    <3>6. QED
      BY <3>4, <3>5
  <2>2. tasks[t].status = "running" =>
           /\ tasks'[t].status = "running" /\ tasks'[t].attempt = tasks[t].attempt
           /\ tasks'[t].committed = tasks[t].committed /\ tasks'[t].action = op
    BY <1>1, <2>1, RowType DEF Row
  <2>3. ref # NoRef => ref.task \in TaskIDs
    BY NothingHeld DEF ProcessTypeOK
  <2>4. RowOfAttempt'
    BY <1>2, <2>1, <2>2, <2>3 DEF RowOfAttempt, IsRunning, Outcomes, Statuses
  <2>5. ErrorKept'
    BY <1>2, <2>1, <2>2, <2>3 DEF RowOfAttempt, ErrorKept, IsRunning, Places, HeldPCs
  <2>6. SucceededIsCommitted'
    BY <2>1, <2>2 DEF SucceededIsCommitted
  <2>7. ActionReachesExecutor'
    BY <1>1, <1>2, <1>7, <2>0, <2>1, <2>2
       DEF ActionReachesExecutor, IsRunning, Signalled, Places, Actions
  <2>8. Next
    BY <1>1, <1>7, <2>0 DEF Next
  <2>9. QED
    BY <1>3, <1>4, <2>4, <2>5, <2>6, <2>7, <2>8
<1>8. QED
  BY <1>5, <1>6, <1>7 DEF ClientPersist

-----------------------------------------------------------------------------
(* The goroutine's transactions                                             *)

\* The row of a task that is not absent, and what one new row leaves alone.
LEMMA OneRow ==
  ASSUME TypeOK, NEW t \in TaskIDs, tasks[t].status = "running"
  PROVE  /\ tasks[t] \in Row
         /\ \A r : tasks' = [tasks EXCEPT ![t] = r] =>
              tasks'[t] = r /\ \A u \in TaskIDs : u # t => tasks'[u] = tasks[u]
BY RowType DEF TypeOK

LEMMA RunnerClaimStep ==
  ASSUME RunnerInv, RunnerClaim
  PROVE  ProcessInv' /\ [Next]_stateVars
<1> USE DEF RunnerInv, ProcessInv
<1>1. /\ rpc = "ClaimNext" /\ ~backoff /\ held = NotHeld /\ TypeOK
      /\ UNCHANGED <<backoff, err, held, locks, clients>>
  BY DEF RunnerClaim, Running, Places, HeldPCs, IInv
<1>2. CASE UNCHANGED <<stateVars, ref>> /\ rpc' = "loop"
  <2>1. ProcessTypeOK' /\ Places'
    BY NothingHeld, <1>1, <1>2 DEF ProcessTypeOK, Places, HeldPCs, Finalizing, RunnerPCs
  <2>2. RowOfAttempt' /\ Locked' /\ Signalled' /\ ErrorKept'
    BY <1>1, <1>2 DEF RowOfAttempt, Locked, Signalled, ErrorKept, Places, IsRunning
  <2>3. ActionReachesExecutor' /\ SucceededIsCommitted'
    BY <1>1, <1>2 DEF ActionReachesExecutor, SucceededIsCommitted, IsRunning
  <2>4. QED
    BY <1>2, <2>1, <2>2, <2>3
<1>3. ASSUME NEW t \in TaskIDs, ClaimNext(t), rpc' = "handoff",
             ref' = [task |-> t, attempt |-> tasks[t].attempt + 1]
      PROVE  ProcessInv' /\ Next
  <2>1. tasks[t] \in Row /\ tasks[t].attempt + 1 \in Attempts
    <3>1. tasks[t] \in Row /\ tasks[t].attempt < MaxAttempts
      BY <1>1, <1>3, RowType DEF ClaimNext, TypeOK
    <3>2. QED
      BY <3>1, ConstantsAssumption DEF Row, Attempts
  <2>2. /\ tasks'[t].status = "running" /\ tasks'[t].attempt = ref'.attempt
        /\ \A u \in TaskIDs : u # t => tasks'[u] = tasks[u]
    BY <1>1, <1>3, <2>1 DEF ClaimNext, TypeOK, Row
  <2>3. ref' \in Refs /\ ref' # NoRef /\ ref'.task = t
    BY <1>3, <2>1, NothingHeld DEF Refs
  <2>4. ProcessTypeOK' /\ Places'
    BY <1>1, <1>3, <2>3 DEF ProcessTypeOK, Places, HeldPCs, Finalizing, RunnerPCs
  <2>5. RowOfAttempt' /\ Locked' /\ Signalled' /\ ErrorKept'
    BY <1>1, <1>3, <2>2, <2>3 DEF RowOfAttempt, Locked, Signalled, ErrorKept, IsRunning
  <2>6. ActionReachesExecutor' /\ SucceededIsCommitted'
    BY NothingHeld, <1>1, <2>2 DEF ActionReachesExecutor, SucceededIsCommitted, IsRunning
  <2>7. Next
    BY <1>3 DEF Next
  <2>8. QED
    BY <2>4, <2>5, <2>6, <2>7
<1>4. QED
  BY <1>2, <1>3 DEF RunnerClaim

\* While the attempt runs, a transaction on its row that keeps the status, the
\* attempt and the recorded action keeps the invariant.
LEMMA AttemptStays ==
  ASSUME RunnerInv, ref # NoRef, tasks[ref.task].status = "running",
         NEW r, tasks' = [tasks EXCEPT ![ref.task] = r],
         r.status = "running", r.attempt = tasks[ref.task].attempt,
         r.action = tasks[ref.task].action,
         UNCHANGED <<ref, held, locks, clients, backoff>>,
         rpc' \in {"RunTask", "beginFinalizing"}, rpc \in {"RunTask", "completeWork"},
         err' \in Causes \cup {"failure", None},
         rpc' = "beginFinalizing" /\ err' = None => r.committed
  PROVE  ProcessInv'
<1> USE DEF RunnerInv, ProcessInv
<1>1. ref.task \in TaskIDs /\ TypeOK
  BY NothingHeld DEF ProcessTypeOK, IInv
<1>2. tasks'[ref.task] = r /\ \A u \in TaskIDs : u # ref.task => tasks'[u] = tasks[u]
  BY <1>1, OneRow
<1>3. ProcessTypeOK' /\ Places'
  BY DEF ProcessTypeOK, Places, HeldPCs, Finalizing, RunnerPCs
<1>4. RowOfAttempt' /\ Locked' /\ Signalled' /\ ErrorKept'
  BY <1>1, <1>2 DEF RowOfAttempt, Locked, Signalled, ErrorKept, IsRunning
<1>5. ActionReachesExecutor'
  BY <1>1, <1>2 DEF ActionReachesExecutor, IsRunning
<1>6. SucceededIsCommitted'
  BY <1>1, <1>2 DEF SucceededIsCommitted
<1>7. QED
  BY <1>3, <1>4, <1>5, <1>6

LEMMA ExecutorStep ==
  ASSUME RunnerInv, RunTaskSetWorkID \/ CommitWork
  PROVE  ProcessInv' /\ [Next]_stateVars
<1> USE DEF RunnerInv, ProcessInv
<1>1. /\ rpc \in {"RunTask", "completeWork"} /\ ref # NoRef /\ ref \in Refs /\ ~backoff
      /\ UNCHANGED <<backoff, ref, held, locks, clients>>
      /\ err \in Causes \cup {"failure", None} /\ held.cause \in Causes \cup {None}
  BY DEF RunTaskSetWorkID, CommitWork, Running, Places, HeldPCs, ProcessTypeOK
<1>2. ref.task \in TaskIDs /\ ref.attempt \in Attempts /\ TypeOK
  BY <1>1, NothingHeld DEF Refs, IInv
<1>3. IsRunning(ref.task, ref.attempt) /\ tasks[ref.task] \in Row
  BY <1>1, <1>2, RowType DEF RowOfAttempt, IsRunning
<1>4. CASE RunTaskSetWorkID
  <2>1. ASSUME NEW w \in WorkIDs, SetWorkID(ref.task, ref.attempt, w), UNCHANGED <<rpc, err>>
        PROVE  ProcessInv' /\ Next
    <3> DEFINE r == [tasks[ref.task] EXCEPT !.req = [tasks[ref.task].req EXCEPT !.work = w]]
    <3>1. tasks' = [tasks EXCEPT ![ref.task] = r]
      BY <2>1 DEF SetWorkID
    <3>2. /\ r.status = "running" /\ r.attempt = tasks[ref.task].attempt
          /\ r.action = tasks[ref.task].action
      BY <1>3 DEF IsRunning, Row
    <3>3. rpc = "RunTask"
      BY <1>4 DEF RunTaskSetWorkID, Running
    <3> HIDE DEF r
    <3>4. ProcessInv'
      BY <1>1, <1>3, <2>1, <3>1, <3>2, <3>3, AttemptStays DEF IsRunning
    <3>5. Next
      BY <1>2, <2>1 DEF Next, AttemptStep
    <3>6. QED
      BY <3>4, <3>5
  <2>2. CASE rpc' = "beginFinalizing" /\ err' = "failure" /\ UNCHANGED stateVars
    BY <1>1, <2>2, OnwardStep DEF Onward
  <2>3. QED
    BY <1>4, <2>1, <2>2 DEF RunTaskSetWorkID
<1>5. CASE CommitWork
  <2>1. CASE CompleteWorkForTask(ref.task, ref.attempt) /\ err' = None
    <3> DEFINE r == [tasks[ref.task] EXCEPT !.committed = TRUE]
    <3>1. tasks' = [tasks EXCEPT ![ref.task] = r]
      BY <2>1 DEF CompleteWorkForTask
    <3>2. /\ r.status = "running" /\ r.attempt = tasks[ref.task].attempt
          /\ r.action = tasks[ref.task].action /\ r.committed
      BY <1>3 DEF IsRunning, Row
    <3>3. rpc' = "beginFinalizing"
      BY <1>5 DEF CommitWork
    <3> HIDE DEF r
    <3>4. ProcessInv'
      BY <1>1, <1>3, <2>1, <3>1, <3>2, <3>3, AttemptStays DEF IsRunning
    <3>5. Next
      BY <1>2, <2>1 DEF Next, AttemptStep
    <3>6. QED
      BY <3>4, <3>5
  <2>2. CASE rpc' = "beginFinalizing" /\ UNCHANGED stateVars
             /\ err' \in {"failure", held.cause} \ {None}
    BY <1>1, <2>2, OnwardStep DEF Onward
  <2>3. \/ CompleteWorkForTask(ref.task, ref.attempt) /\ err' = None
        \/ rpc' = "beginFinalizing" /\ UNCHANGED stateVars
             /\ err' \in {"failure", held.cause} \ {None}
    BY <1>5 DEF CommitWork
  <2>4. QED
    BY <2>1, <2>2, <2>3
<1>6. QED
  BY <1>4, <1>5

\* A conflict leaves the row as it is; a recorded action ends in FinishTask.
LEMMA PersistControlStep ==
  ASSUME RunnerInv, PersistControl
  PROVE  ProcessInv' /\ [Next]_stateVars
<1> USE DEF RunnerInv, ProcessInv
<1> DEFINE t == ref.task
           a == held.action
<1>1. /\ rpc = "persistControl" /\ rpc' = "FinishTask" /\ ~backoff /\ TypeOK
      /\ locks' = [locks EXCEPT ![t] = "free"]
      /\ UNCHANGED <<backoff, ref, held, clients>>
  BY DEF PersistControl, Running, IInv
<1>2. /\ ref \in Refs /\ ref # NoRef /\ t \in TaskIDs /\ held.ref = ref /\ held.finalizing
      /\ a \in Actions /\ held.cause # None /\ locks[t] = "runner"
      /\ locks \in [TaskIDs -> Clients \cup {"free", "runner"}]
  BY <1>1, NothingHeld DEF Places, HeldPCs, Finalizing, ProcessTypeOK, Locked
<1>3. IsRunning(t, ref.attempt) /\ tasks[t] \in Row
  BY <1>1, <1>2, RowType DEF RowOfAttempt, IsRunning
<1>4. \/ requestAction(t, a) /\ err' = a
      \/ err' \in {a, "failure"} /\ UNCHANGED stateVars
  BY DEF PersistControl
<1>5. ProcessTypeOK'
  BY <1>1, <1>2, <1>4 DEF ProcessTypeOK, RunnerPCs, Causes
<1>6. Places'
  BY <1>1, <1>2 DEF Places, HeldPCs, Finalizing
<1>7. Locked' /\ Signalled'
  <2>1. \A c \in Clients, u \in TaskIDs : locks[u] = c => locks'[u] = c
    BY <1>1, <1>2, RunnerIsNoClient
  <2>2. Locked'
    BY <1>1, <2>1, LocksOfHandlers
  <2>3. QED
    BY <1>1, <2>2 DEF Signalled
<1>8. err' # None /\ ErrorKept'
  BY <1>2, <1>4 DEF ErrorKept, Actions
<1>9. CASE UNCHANGED stateVars
  <2>1. RowOfAttempt' /\ ActionReachesExecutor' /\ SucceededIsCommitted'
    BY <1>1, <1>3, <1>9 DEF RowOfAttempt, ActionReachesExecutor, SucceededIsCommitted, IsRunning
  <2>2. QED
    BY <1>5, <1>6, <1>7, <1>8, <1>9, <2>1
<1>10. CASE requestAction(t, a)
  <2> DEFINE r == [tasks[t] EXCEPT !.action = a]
  <2>1. tasks' = [tasks EXCEPT ![t] = r]
    BY <1>3, <1>10 DEF requestAction, IsRunning
  <2>2. r.status = "running" /\ r.attempt = ref.attempt /\ r.action = a
    BY <1>3 DEF Row, IsRunning
  <2> HIDE DEF r
  <2>3. tasks'[t] = r /\ \A u \in TaskIDs : u # t => tasks'[u] = tasks[u]
    BY <1>1, <1>2, <1>3, <2>1, OneRow DEF IsRunning
  <2>4. RowOfAttempt'
    BY <1>1, <2>2, <2>3 DEF RowOfAttempt, IsRunning
  <2>5. ActionReachesExecutor'
    BY <1>1, <1>2, <2>2, <2>3 DEF ActionReachesExecutor, IsRunning
  <2>6. SucceededIsCommitted'
    BY <2>2, <2>3 DEF SucceededIsCommitted
  <2>7. Next
    BY <1>2, <1>10 DEF Next
  <2>8. QED
    BY <1>5, <1>6, <1>7, <1>8, <2>4, <2>5, <2>6, <2>7
<1>11. QED
  BY <1>4, <1>9, <1>10

\* The end of the attempt: success only when the error is nil, and then the
\* work is committed.
LEMMA FinishTaskStep ==
  ASSUME RunnerInv, FinishTask
  PROVE  ProcessInv' /\ [Next]_stateVars
<1> USE DEF RunnerInv, ProcessInv
<1> DEFINE t == ref.task
           r == [tasks[t] EXCEPT !.status = TerminalStatus(tasks[t], OutcomeOf(err)),
                                 !.action = None]
<1>1. /\ rpc = "FinishTask" /\ rpc' = "clearTask" /\ ~backoff /\ TypeOK
      /\ Finalize(t, ref.attempt, OutcomeOf(err))
      /\ UNCHANGED <<backoff, ref, err, held, locks, clients>>
  BY DEF FinishTask, Running, IInv
<1>2. /\ ref \in Refs /\ ref # NoRef /\ t \in TaskIDs /\ ref.attempt \in Attempts
      /\ err \in Causes \cup {"failure", None}
      /\ held.ref = ref /\ held.finalizing /\ ~(held.ref = NoRef)
  BY <1>1, NothingHeld DEF Places, HeldPCs, Finalizing, ProcessTypeOK, Refs
<1>3. IsRunning(t, ref.attempt) /\ tasks[t] \in Row
  BY <1>1, <1>2, RowType DEF RowOfAttempt, IsRunning
<1>4. OutcomeOf(err) \in Outcomes /\ (OutcomeOf(err) = "succeeded" => err = None)
  BY <1>2 DEF OutcomeOf, Outcomes, Statuses, Causes, Actions
<1>5. TerminalStatus(tasks[t], OutcomeOf(err)) \in Outcomes
  BY <1>3, <1>4, TerminalFacts
<1>6. TerminalStatus(tasks[t], OutcomeOf(err)) = "succeeded" => tasks[t].committed
  <2>1. err = None => tasks[t].committed
    BY <1>1 DEF ErrorKept
  <2>2. tasks[t].action \in {"pause", "cancel", None}
    BY <1>3 DEF Row, Actions
  <2>3. QED
    BY <1>4, <2>1, <2>2 DEF TerminalStatus
<1>7. /\ r.status \in Outcomes /\ r.attempt = ref.attempt /\ r.action = None
      /\ r.status = "succeeded" => r.committed
  BY <1>3, <1>5, <1>6 DEF Row, IsRunning
<1>8. tasks' = [tasks EXCEPT ![t] = r]
  BY <1>1 DEF Finalize
<1> HIDE DEF r
<1>9. tasks'[t] = r /\ \A u \in TaskIDs : u # t => tasks'[u] = tasks[u]
  BY <1>1, <1>2, <1>3, <1>8, OneRow DEF IsRunning
<1>10. ProcessTypeOK' /\ Places'
  BY <1>1, <1>2 DEF ProcessTypeOK, Places, HeldPCs, Finalizing, RunnerPCs
<1>11. RowOfAttempt' /\ Locked' /\ Signalled' /\ ErrorKept'
  BY <1>1, <1>7, <1>9 DEF RowOfAttempt, Locked, Signalled, ErrorKept
<1>12. ActionReachesExecutor'
  BY <1>1, <1>7, <1>9 DEF ActionReachesExecutor, IsRunning, Outcomes
<1>13. SucceededIsCommitted'
  BY <1>7, <1>9 DEF SucceededIsCommitted
<1>14. Next
  BY <1>1, <1>2, <1>4 DEF Next, AttemptStep
<1>15. QED
  BY <1>10, <1>11, <1>12, <1>13, <1>14

-----------------------------------------------------------------------------
(* The process                                                              *)

\* A stop cancels the context of the attempt and nothing else.
LEMMA StopStep ==
  ASSUME RunnerInv, Drain \/ Stop
  PROVE  ProcessInv' /\ UNCHANGED stateVars
<1> USE DEF RunnerInv, ProcessInv
<1>1. /\ UNCHANGED <<stateVars, rpc, backoff, ref, err, locks, clients>>
      /\ held' # held => held.ref # NoRef /\ held' = [held EXCEPT !.cause = "shutdown"]
  BY DEF Drain, Stop
<1>2. held \in [ref: Refs, action: Actions \cup {None}, finalizing: BOOLEAN,
                cause: Causes \cup {None}]
  BY DEF ProcessTypeOK
<1>3. /\ held' \in [ref: Refs, action: Actions \cup {None}, finalizing: BOOLEAN,
                    cause: Causes \cup {None}]
      /\ held'.ref = held.ref /\ held'.action = held.action
      /\ held'.finalizing = held.finalizing
      /\ held.cause # None => held'.cause # None
      /\ held = NotHeld => held' = NotHeld
      /\ held' # NotHeld => held # NotHeld
  BY <1>1, <1>2, NothingHeld DEF Causes
<1>4. ProcessTypeOK' /\ Places'
  BY <1>1, <1>3 DEF ProcessTypeOK, Places
<1>5. RowOfAttempt' /\ Locked' /\ Signalled' /\ ErrorKept'
  BY <1>1, <1>3 DEF RowOfAttempt, Locked, Signalled, ErrorKept, IsRunning
<1>6. ActionReachesExecutor' /\ SucceededIsCommitted'
  BY <1>1, <1>3 DEF ActionReachesExecutor, SucceededIsCommitted, IsRunning
<1>7. QED
  BY <1>1, <1>4, <1>5, <1>6

\* A process that is down holds nothing, and recovery reports success only of
\* committed rows.
LEMMA DownStep ==
  ASSUME RunnerInv, Down \/ Restart
  PROVE  ProcessInv' /\ [Next]_stateVars
<1> USE DEF RunnerInv, ProcessInv
<1>1. /\ rpc' \in {"loop", "down"} /\ ~backoff' /\ ref' = NoRef /\ held' = NotHeld
      /\ err' \in {err, None}
  BY DEF Down, Restart, Places, HeldPCs
<1>2. /\ locks' \in [TaskIDs -> Clients \cup {"free", "runner"}]
      /\ \/ UNCHANGED <<locks, clients>>
         \/ clients' = [c \in Clients |-> [pc |-> "idle", op |-> None, task |-> NoTask]]
  BY DEF Down, Restart, ProcessTypeOK
<1>3. ProcessTypeOK'
  BY <1>1, <1>2, NothingHeld DEF ProcessTypeOK, RunnerPCs
<1>4. Places' /\ RowOfAttempt' /\ ErrorKept'
  BY <1>1, NothingHeld DEF Places, RowOfAttempt, ErrorKept, HeldPCs, Finalizing
<1>5. Locked'
  BY <1>1, <1>2 DEF Locked
<1>6. Signalled'
  <2>1. \A c \in Clients : clients'[c].pc = "persist" => clients'[c].task # NotHeld.ref.task
    BY <1>5, NothingHeld DEF Locked
  <2>2. QED
    BY <1>1, <2>1 DEF Signalled
<1>7. ActionReachesExecutor'
  BY <1>1, NothingHeld DEF ActionReachesExecutor
<1>8. CASE Down
  BY <1>3, <1>4, <1>5, <1>6, <1>7, <1>8 DEF Down, SucceededIsCommitted
<1>9. CASE Restart
  <2>1. \A t \in TaskIDs :
          \/ tasks'[t] = tasks[t]
          \/ /\ tasks[t].status = "running"
             /\ tasks'[t] = [tasks[t] EXCEPT !.status = RecoveredStatus(tasks[t]), !.action = None]
    BY <1>9 DEF Restart, RecoverOnStartup
  <2>2. SucceededIsCommitted'
    <3>1. SUFFICES ASSUME NEW t \in TaskIDs, tasks'[t].status = "succeeded"
                   PROVE  tasks'[t].committed
      BY DEF SucceededIsCommitted
    <3>2. CASE tasks'[t] = tasks[t]
      BY <3>1, <3>2 DEF SucceededIsCommitted
    <3>3. CASE /\ tasks[t].status = "running"
               /\ tasks'[t] = [tasks[t] EXCEPT !.status = RecoveredStatus(tasks[t]), !.action = None]
      <4>1. tasks[t] \in Row
        BY <3>3, RowType DEF IInv
      <4>2. RecoveredStatus(tasks[t]) = "succeeded" /\ tasks'[t].committed = tasks[t].committed
        BY <3>1, <3>3, <4>1 DEF Row
      <4>3. tasks[t].committed
        BY <4>2 DEF RecoveredStatus
      <4>4. QED
        BY <4>2, <4>3
    <3>4. QED
      BY <2>1, <3>2, <3>3
  <2>3. Next
    BY <1>9 DEF Restart, Next
  <2>4. QED
    BY <1>3, <1>4, <1>5, <1>6, <1>7, <2>2, <2>3
<1>10. QED
  BY <1>8, <1>9

-----------------------------------------------------------------------------
(* The invariant and the theorems                                           *)

LEMMA RunnerInit_Inv == RunnerInit => RunnerInv
BY InitStep, NothingHeld DEF RunnerInit, RunnerInv, ProcessInv, ProcessTypeOK, Places, RowOfAttempt,
   Locked, Signalled, ErrorKept, ActionReachesExecutor, SucceededIsCommitted, Init, AbsentRow,
   RunnerPCs, Refs, HeldPCs, Finalizing, IsRunning, None, Causes, Ops

\* Every step keeps the invariant and is a transaction of the repository or
\* leaves the tables alone.
LEMMA RunnerStepInv ==
  ASSUME RunnerInv, [RunnerNext]_vars
  PROVE  RunnerInv' /\ [Next]_stateVars
<1>1. CASE UNCHANGED vars
  <2>1. UNCHANGED <<stateVars, rpc, backoff, ref, err, held, locks, clients>>
    BY <1>1 DEF vars
  <2>2. IInv'
    BY <2>1, NextStep DEF RunnerInv
  <2>3. ProcessInv'
    BY <2>1 DEF RunnerInv, ProcessInv, ProcessTypeOK, Places, RowOfAttempt, Locked, Signalled,
                ErrorKept, ActionReachesExecutor, SucceededIsCommitted, IsRunning
  <2>4. QED
    BY <2>1, <2>2, <2>3 DEF RunnerInv
<1>2. CASE RunnerNext
  <2>1. ProcessInv' /\ [Next]_stateVars
    <3>1. CASE \E c \in Clients : ClientEnqueue(c) \/ ClientStep(c)
      BY <3>1, ClientEnqueueStep, ClientLockStep, ClientPersistStep, ClientNotifyStep
         DEF ClientStep
    <3>2. CASE \E c \in Clients, t \in TaskIDs, op \in Ops : ClientRequest(c, t, op)
      BY <3>2, ClientRequestStep
    <3>3. CASE RunnerStep
      BY <3>3, OnwardSteps, BackoffCanceledStep, RunnerClaimStep, HandoffLockStep,
         ReadRequestedActionStep, ExecutorStep, BeginFinalizingStep, PersistControlStep,
         FinishTaskStep, ClearTaskStep
         DEF RunnerStep
    <3>4. CASE RunTaskSetWorkID \/ RunnerFaults \/ CommitFault
      BY <3>4, ExecutorStep, OnwardSteps
    <3>5. CASE Drain \/ Stop
      BY <3>5, StopStep
    <3>6. CASE Exit \/ Crash \/ Restart
      BY <3>6, DownStep DEF Exit, Crash
    <3>7. QED
      BY <1>2, <3>1, <3>2, <3>3, <3>4, <3>5, <3>6 DEF RunnerNext
  <2>2. IInv'
    BY <2>1, NextStep DEF RunnerInv
  <2>3. QED
    BY <2>1, <2>2 DEF RunnerInv
<1>3. QED
  BY <1>1, <1>2

\* The invariant holds of the running process, through failures of SQLite,
\* stops, crashes and restarts.
THEOREM RunnerSafe == RunnerSafety => []RunnerInv
<1>1. RunnerInv /\ [RunnerNext]_vars => RunnerInv'
  BY RunnerStepInv
<1>2. QED
  BY RunnerInit_Inv, <1>1, PTL DEF RunnerSafety

\* The process implements the repository's specification: whatever the
\* goroutine and the handlers do, the tables change by whole transactions, with
\* the references and outcomes the repository is specified for.
THEOREM RunnerImplements == RunnerSafety => ImplementsTaskState
<1>1. RunnerInit => Init
  BY DEF RunnerInit
<1>2. RunnerInv /\ [RunnerNext]_vars => [Next]_stateVars
  BY RunnerStepInv
<1>3. QED
  BY <1>1, <1>2, RunnerSafe, PTL DEF RunnerSafety, ImplementsTaskState, Spec

\* No task is reported as succeeded without its work committed: the error of a
\* failed commit is not lost between the executor and FinishTask.
THEOREM SuccessIsCommitted == RunnerSafety => []SucceededIsCommitted
<1>1. RunnerInv => SucceededIsCommitted
  BY DEF RunnerInv, ProcessInv
<1>2. QED
  BY <1>1, RunnerSafe, PTL

\* A pause or a cancel recorded for the attempt in hand has cancelled its
\* context, in whatever order the handler and the hand-off took the lock.
THEOREM ActionAlwaysReachesExecutor == RunnerSafety => []ActionReachesExecutor
<1>1. RunnerInv => ActionReachesExecutor
  BY DEF RunnerInv, ProcessInv
<1>2. QED
  BY <1>1, RunnerSafe, PTL

\* No resume queues a task again while the goroutine still holds its attempt.
THEOREM HeldAttemptStaysCurrent == RunnerSafety => []HeldAttemptIsCurrent
<1>1. RunnerInv => HeldAttemptIsCurrent
  BY NothingHeld DEF RunnerInv, ProcessInv, Places, RowOfAttempt, HeldAttemptIsCurrent, IsRunning,
     Outcomes
<1>2. QED
  BY <1>1, RunnerSafe, PTL
=============================================================================
