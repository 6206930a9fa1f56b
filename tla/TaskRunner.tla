------------------------------ MODULE TaskRunner ------------------------------
(***************************************************************************)
(* The novel-fetcher process around the task repository: the runner        *)
(* goroutine (internal/worker), the wake channel (internal/taskqueue), the *)
(* HTTP handlers that enqueue and control tasks (internal/server), and the *)
(* shutdown and restart of the process (cmd/novel-fetcher).                *)
(*                                                                         *)
(* The executor is abstract: between claim and finalization it may bind    *)
(* the task to a work, commit the completed work, fail, or notice that its *)
(* context was cancelled.  LibraryFetch models what it does to the         *)
(* library.  A SQLite call may fail, at most MaxFaults times; the process  *)
(* may stop, by signal or by crash, at most MaxStops times.                *)
(***************************************************************************)
EXTENDS TaskState

CONSTANTS
  Clients,       \* HTTP requests that are handled at the same time
  MaxFaults,     \* bound: transient SQLite failures
  MaxStops,      \* bound: crashes and shutdowns
  WorkInterval   \* NOVEL_FETCHER_WORK_INTERVAL_MILLIS; zero skips the pause

ASSUME RunnerAssumption ==
  /\ MaxFaults \in Nat /\ MaxStops \in Nat /\ WorkInterval \in Nat
  /\ "runner" \notin Clients /\ "free" \notin Clients
  /\ "no task" \notin TaskIDs

VARIABLES
  rpc,       \* where the runner goroutine is, by the call it is about to make
  backoff,   \* it waits: waitForRetry, or waitForNextWork
  ref,       \* the TaskRef the goroutine works on
  err,       \* the error RunTask and beginFinalizing produced
  held,      \* taskRef, taskAction, taskFinalizing, and the cause of taskCtx
  locks,     \* lockTask: who holds the lock of a task
  wake,      \* the wake channel has its one element
  clients,   \* the HTTP handlers
  phase,     \* "serving", "draining" (http Shutdown), "shutdown" (Stop)
  faults,    \* SQLite failures so far
  stops      \* crashes and shutdowns so far

runnerVars  == <<rpc, backoff, ref, err, held>>
processVars == <<phase, faults, stops>>
vars == <<stateVars, runnerVars, locks, wake, clients, processVars>>

NoTask    == "no task"
NoRef     == [task |-> NoTask, attempt |-> 0]
NotHeld   == [ref |-> NoRef, action |-> None, finalizing |-> FALSE, cause |-> None]
Idle      == [pc |-> "idle", op |-> None, task |-> NoTask]
Ops       == Actions \cup {"resume"}
Causes    == Actions \cup {"shutdown"}
RunnerPCs == {"loop", "ClaimNext", "handoff", "RequestedAction", "RunTask", "completeWork",
              "beginFinalizing", "persistControl", "FinishTask", "clearTask",
              "HasQueuedTasks", "stopped", "down"}

RunnerInit ==
  /\ Init
  /\ rpc = "loop" /\ backoff = FALSE /\ ref = NoRef /\ err = None /\ held = NotHeld
  /\ locks = [t \in TaskIDs |-> "free"]
  /\ wake = TRUE
  /\ clients = [c \in Clients |-> Idle]
  /\ phase = "serving" /\ faults = 0 /\ stops = 0

-----------------------------------------------------------------------------
(* HTTP handlers                                                           *)

\* handleDownloadNovels, handleUpdateNovels, handleResumeNovels: the
\* transaction, then the notification.
ClientEnqueue(c) ==
  /\ phase = "serving" /\ rpc # "down" /\ clients[c] = Idle
  /\ \E reqs \in Batches : \E ids \in [FreshIndexes(reqs) -> TaskIDs] : Enqueue(reqs, ids)
  /\ clients' = [clients EXCEPT ![c] = [pc |-> "Notify", op |-> None, task |-> NoTask]]
  /\ UNCHANGED <<runnerVars, locks, wake, processVars>>

\* handleTaskControl waits in lockTask.
ClientRequest(c, t, op) ==
  /\ phase = "serving" /\ rpc # "down" /\ clients[c] = Idle
  /\ tasks[t].status # "absent"
  /\ clients' = [clients EXCEPT ![c] = [pc |-> "lockTask", op |-> op, task |-> t]]
  /\ UNCHANGED <<stateVars, runnerVars, locks, wake, processVars>>

\* Mutant: no check of taskFinalizing for a resume.
HeldConflictResumes(t, op) ==
  /\ held.ref.task = t /\ op # "resume"
  /\ held.action \notin {None, op} \/ (held.finalizing /\ held.action = None)

\* The checks under the runner's mutex that answer 409 at once.
HeldConflict(t, op) ==
  /\ held.ref.task = t
  /\ IF op = "resume" THEN held.finalizing
     ELSE \/ held.action \notin {None, op}
          \/ held.finalizing /\ held.action = None

\* requestControl and RequestResume up to the SQLite call.  The signal comes
\* before the write; only the first signal cancels the context.
ClientLock(c) ==
  LET t == clients[c].task
      op == clients[c].op IN
  /\ clients[c].pc = "lockTask"
  /\ locks[t] = "free"
  /\ \/ /\ HeldConflict(t, op)
        /\ clients' = [clients EXCEPT ![c] = Idle]
        /\ UNCHANGED <<locks, held>>
     \/ /\ ~HeldConflict(t, op)
        /\ locks' = [locks EXCEPT ![t] = c]
        /\ clients' = [clients EXCEPT ![c] = [@ EXCEPT !.pc = "persist"]]
        /\ held' = IF held.ref.task = t /\ op \in Actions
                   THEN [held EXCEPT !.action = op,
                                     !.cause = IF held.cause = None THEN op ELSE held.cause]
                   ELSE held
  /\ UNCHANGED <<stateVars, rpc, backoff, ref, err, wake, processVars>>

Applies(t, op) == IF op = "resume" THEN ResumeApplies(t) ELSE ControlApplies(t, op)

\* A resume beyond the bounds of the instance is answered as an error.
Answered(t, op) == ~Applies(t, op) \/ (op = "resume" /\ ~ResumeInBounds(t))

\* The transaction.  A change is followed by a notification, under the lock;
\* an error or "no change" releases the lock at once.
ClientPersist(c) ==
  LET t == clients[c].task
      op == clients[c].op IN
  /\ clients[c].pc = "persist"
  /\ \/ /\ IF op = "resume" THEN RequestResume(t) ELSE requestAction(t, op)
        /\ clients' = [clients EXCEPT ![c] = [@ EXCEPT !.pc = "Notify"]]
        /\ UNCHANGED <<locks, faults>>
     \/ /\ Answered(t, op)
        /\ locks' = [locks EXCEPT ![t] = "free"]
        /\ clients' = [clients EXCEPT ![c] = Idle]
        /\ UNCHANGED <<stateVars, faults>>
     \/ /\ faults < MaxFaults
        /\ faults' = faults + 1
        /\ locks' = [locks EXCEPT ![t] = "free"]
        /\ clients' = [clients EXCEPT ![c] = Idle]
        /\ UNCHANGED stateVars
  /\ UNCHANGED <<runnerVars, wake, phase, stops>>

ClientNotify(c) ==
  /\ clients[c].pc = "Notify"
  /\ wake' = TRUE
  /\ locks' = [t \in TaskIDs |-> IF locks[t] = c THEN "free" ELSE locks[t]]
  /\ clients' = [clients EXCEPT ![c] = Idle]
  /\ UNCHANGED <<stateVars, runnerVars, processVars>>

-----------------------------------------------------------------------------
(* The runner goroutine                                                    *)

Running(pc) == rpc = pc /\ ~backoff

\* A SQLite call of the runner fails: it logs and waits.
RunnerFault(pc, then) ==
  /\ Running(pc)
  /\ faults < MaxFaults
  /\ faults' = faults + 1
  /\ backoff' = TRUE
  /\ rpc' = then
  /\ UNCHANGED <<stateVars, ref, err, held, locks, wake, clients, phase, stops>>

\* waitForDuration: the timer, or the end of the run context.  In
\* beginFinalizing the end of the context becomes the result; elsewhere the
\* goroutine returns.
BackoffTimer ==
  /\ backoff
  /\ backoff' = FALSE
  /\ UNCHANGED <<stateVars, rpc, ref, err, held, locks, wake, clients, processVars>>

BackoffCanceled ==
  /\ backoff /\ phase = "shutdown"
  /\ backoff' = FALSE
  /\ IF rpc = "persistControl"
     THEN rpc' = "FinishTask" /\ err' = "shutdown"
     ELSE rpc' = "stopped" /\ UNCHANGED err
  /\ locks' = [t \in TaskIDs |-> IF locks[t] = "runner" THEN "free" ELSE locks[t]]
  /\ UNCHANGED <<stateVars, ref, held, wake, clients, processVars>>

\* loop: both cases of the select may be ready.
LoopWake ==
  /\ Running("loop") /\ wake
  /\ wake' = FALSE
  /\ rpc' = "ClaimNext"
  /\ UNCHANGED <<stateVars, backoff, ref, err, held, locks, clients, processVars>>

LoopDone ==
  /\ Running("loop") /\ phase = "shutdown"
  /\ rpc' = "stopped"
  /\ UNCHANGED <<stateVars, backoff, ref, err, held, locks, wake, clients, processVars>>

RunnerClaim ==
  /\ Running("ClaimNext")
  /\ \/ \E t \in TaskIDs :
          /\ ClaimNext(t)
          /\ ref' = [task |-> t, attempt |-> tasks[t].attempt + 1]
          /\ rpc' = "handoff"
     \/ /\ \A t \in TaskIDs : seq[t] = 0
        /\ rpc' = "loop"
        /\ UNCHANGED <<stateVars, ref>>
  /\ UNCHANGED <<backoff, err, held, locks, wake, clients, processVars>>

\* Mutant: the hand-off does not take the task lock.
HandoffUnlocked ==
  /\ Running("handoff")
  /\ rpc' = "RequestedAction"
  /\ UNCHANGED <<stateVars, backoff, ref, err, held, locks, wake, clients, processVars>>

HandoffLock ==
  /\ Running("handoff")
  /\ locks[ref.task] = "free"
  /\ locks' = [locks EXCEPT ![ref.task] = "runner"]
  /\ rpc' = "RequestedAction"
  /\ UNCHANGED <<stateVars, backoff, ref, err, held, wake, clients, processVars>>

\* The hand-off: an action that reached SQLite between claim and hand-off
\* cancels the new context at once.
ReadRequestedAction ==
  /\ Running("RequestedAction")
  /\ IsRunning(ref.task, ref.attempt)
  /\ held' = [ref |-> ref, action |-> tasks[ref.task].action, finalizing |-> FALSE,
              cause |-> IF phase = "shutdown" THEN "shutdown" ELSE tasks[ref.task].action]
  /\ locks' = [locks EXCEPT ![ref.task] = "free"]
  /\ rpc' = "RunTask"
  /\ UNCHANGED <<stateVars, backoff, ref, err, wake, clients, processVars>>

\* RunTask.  SetTaskWorkID binds a download to its work, or ends the attempt.
RunTaskSetWorkID ==
  /\ Running("RunTask")
  /\ tasks[ref.task].req.kind = "download"
  /\ \E w \in WorkIDs :
       \/ SetWorkID(ref.task, ref.attempt, w) /\ UNCHANGED <<rpc, err>>
       \/ /\ ~SetWorkIDAllowed(ref.task, ref.attempt, w)
          /\ rpc' = "beginFinalizing" /\ err' = "failure"
          /\ UNCHANGED stateVars
  /\ UNCHANGED <<backoff, ref, held, locks, wake, clients, processVars>>

\* The executor returns an error, or the cause of its cancelled context.
RunTaskReturn ==
  /\ Running("RunTask")
  /\ err' \in {"failure", held.cause} \ {None}
  /\ rpc' = "beginFinalizing"
  /\ UNCHANGED <<stateVars, backoff, ref, held, locks, wake, clients, processVars>>

\* completeWork looks at the context first and commits afterwards.
RunTaskDone ==
  /\ Running("RunTask") /\ held.cause = None
  /\ rpc' = "completeWork"
  /\ UNCHANGED <<stateVars, backoff, ref, err, held, locks, wake, clients, processVars>>

CommitWork ==
  /\ Running("completeWork")
  /\ \/ CompleteWorkForTask(ref.task, ref.attempt) /\ err' = None
     \/ /\ ~CommitAllowed(ref.task, ref.attempt)
        /\ err' = "failure"
        /\ UNCHANGED stateVars
     \/ /\ held.cause # None
        /\ err' = held.cause
        /\ UNCHANGED stateVars
  /\ rpc' = "beginFinalizing"
  /\ UNCHANGED <<backoff, ref, held, locks, wake, clients, processVars>>

\* Mutant: the error of the commit is dropped.
CommitFaultIgnored ==
  /\ Running("completeWork")
  /\ faults < MaxFaults
  /\ faults' = faults + 1
  /\ err' = None
  /\ rpc' = "beginFinalizing"
  /\ UNCHANGED <<stateVars, backoff, ref, held, locks, wake, clients, phase, stops>>

CommitFault ==
  /\ Running("completeWork")
  /\ faults < MaxFaults
  /\ faults' = faults + 1
  /\ err' = "failure"
  /\ rpc' = "beginFinalizing"
  /\ UNCHANGED <<stateVars, backoff, ref, held, locks, wake, clients, phase, stops>>

\* From here on only the action already signalled may still be recorded.
BeginFinalizing ==
  /\ Running("beginFinalizing")
  /\ locks[ref.task] = "free"
  /\ held' = [held EXCEPT !.finalizing = TRUE]
  /\ IF held.action = None
     THEN rpc' = "FinishTask" /\ UNCHANGED locks
     ELSE rpc' = "persistControl" /\ locks' = [locks EXCEPT ![ref.task] = "runner"]
  /\ UNCHANGED <<stateVars, backoff, ref, err, wake, clients, processVars>>

\* A conflict is not retried: SQLite has already decided.
PersistControl ==
  LET t == ref.task IN
  /\ Running("persistControl")
  /\ \/ requestAction(t, held.action) /\ err' = held.action /\ wake' = TRUE
     \/ ControlUnchanged(t, held.action) /\ err' = held.action /\ UNCHANGED <<stateVars, wake>>
     \/ ControlConflict(t, held.action) /\ err' = "failure" /\ UNCHANGED <<stateVars, wake>>
  /\ locks' = [locks EXCEPT ![t] = "free"]
  /\ rpc' = "FinishTask"
  /\ UNCHANGED <<backoff, ref, held, clients, processVars>>

\* setOutcomeFromError
OutcomeOf(e) ==
  CASE e = "pause"    -> "paused"
    [] e = "cancel"   -> "canceled"
    [] e = "shutdown" -> "interrupted"
    [] e = "failure"  -> "failed"
    [] e = None       -> "succeeded"

\* Mutant: the outcome in memory is stored without a look at the row.
FinishTaskBlind ==
  /\ Running("FinishTask")
  /\ tasks' = [tasks EXCEPT ![ref.task] =
       [@ EXCEPT !.status = OutcomeOf(err), !.action = None]]
  /\ rpc' = "clearTask"
  /\ UNCHANGED <<seq, lastSeq, backoff, ref, err, held, locks, wake, clients, processVars>>

FinishTask ==
  /\ Running("FinishTask")
  /\ Finalize(ref.task, ref.attempt, OutcomeOf(err))
  /\ rpc' = "clearTask"
  /\ UNCHANGED <<backoff, ref, err, held, locks, wake, clients, processVars>>

ClearTask ==
  /\ Running("clearTask")
  /\ held' = NotHeld
  /\ ref' = NoRef /\ err' = None
  /\ rpc' = "HasQueuedTasks"
  /\ UNCHANGED <<stateVars, backoff, locks, wake, clients, processVars>>

CheckQueued ==
  /\ Running("HasQueuedTasks")
  /\ IF \E t \in TaskIDs : tasks[t].status = "queued"
     THEN rpc' = "ClaimNext" /\ backoff' = (WorkInterval > 0)
     ELSE rpc' = "loop" /\ UNCHANGED backoff
  /\ UNCHANGED <<stateVars, ref, err, held, locks, wake, clients, processVars>>

\* Mutant: a failed finalization is not retried.
RunnerFaultsGiveUp ==
  \/ \E pc \in {"ClaimNext", "RequestedAction", "persistControl"} : RunnerFault(pc, pc)
  \/ RunnerFault("FinishTask", "clearTask")
  \/ RunnerFault("HasQueuedTasks", "ClaimNext")

RunnerFaults ==
  \/ \E pc \in {"ClaimNext", "RequestedAction", "persistControl", "FinishTask"} :
       RunnerFault(pc, pc)
  \/ RunnerFault("HasQueuedTasks", "ClaimNext")

-----------------------------------------------------------------------------
(* The process                                                             *)

\* SIGTERM: the HTTP server stops accepting and waits for its handlers.
Drain ==
  /\ phase = "serving" /\ rpc # "down" /\ stops < MaxStops
  /\ stops' = stops + 1
  /\ phase' = "draining"
  /\ UNCHANGED <<stateVars, runnerVars, locks, wake, clients, faults>>

\* Stop cancels the run context, and with it the context of the attempt.
Stop ==
  /\ phase = "draining" /\ rpc # "down" /\ \A c \in Clients : clients[c] = Idle
  /\ phase' = "shutdown"
  /\ held' = IF held.ref # NoRef /\ held.cause = None
             THEN [held EXCEPT !.cause = "shutdown"] ELSE held
  /\ UNCHANGED <<stateVars, rpc, backoff, ref, err, locks, wake, clients, faults, stops>>

Down ==
  /\ rpc' = "down" /\ backoff' = FALSE /\ ref' = NoRef /\ err' = None /\ held' = NotHeld
  /\ locks' = [t \in TaskIDs |-> "free"]
  /\ clients' = [c \in Clients |-> Idle]
  /\ wake' = FALSE
  /\ UNCHANGED <<stateVars, phase, faults>>

Exit == rpc = "stopped" /\ Down /\ UNCHANGED stops

\* A crash, or a shutdown whose time limit passed.
Crash == rpc # "down" /\ stops < MaxStops /\ Down /\ stops' = stops + 1

\* Mutant: Start does not notify.
RestartSilent ==
  /\ rpc = "down"
  /\ RecoverOnStartup
  /\ rpc' = "loop" /\ wake' = FALSE /\ phase' = "serving"
  /\ UNCHANGED <<backoff, ref, err, held, locks, clients, faults, stops>>

\* NewWithError recovers before Start notifies the new runner.
Restart ==
  /\ rpc = "down"
  /\ RecoverOnStartup
  /\ rpc' = "loop" /\ wake' = TRUE /\ phase' = "serving"
  /\ UNCHANGED <<backoff, ref, err, held, locks, clients, faults, stops>>

-----------------------------------------------------------------------------
ClientStep(c) == ClientLock(c) \/ ClientPersist(c) \/ ClientNotify(c)

RunnerStep ==
  \/ BackoffTimer \/ BackoffCanceled \/ LoopWake \/ LoopDone \/ RunnerClaim
  \/ HandoffLock \/ ReadRequestedAction
  \/ RunTaskReturn \/ RunTaskDone \/ CommitWork \/ BeginFinalizing
  \/ PersistControl \/ FinishTask \/ ClearTask \/ CheckQueued

RunnerNext ==
  \/ \E c \in Clients : ClientEnqueue(c) \/ ClientStep(c)
  \/ \E c \in Clients, t \in TaskIDs, op \in Ops : ClientRequest(c, t, op)
  \/ RunnerStep \/ RunTaskSetWorkID \/ RunnerFaults \/ CommitFault
  \/ Drain \/ Stop \/ Exit \/ Crash \/ Restart

RunnerSafety == RunnerInit /\ [][RunnerNext]_vars

\* The goroutines are scheduled, sync.Mutex serves a waiter in the end (its
\* starvation mode), requests to remote sites time out, and the process is
\* restarted by its supervisor.
RunnerSpec ==
  /\ RunnerSafety
  /\ WF_vars(RunnerStep)
  /\ SF_vars(HandoffLock) /\ SF_vars(BeginFinalizing)
  /\ \A c \in Clients : WF_vars(ClientPersist(c) \/ ClientNotify(c)) /\ SF_vars(ClientLock(c))
  /\ WF_vars(Stop) /\ WF_vars(Exit) /\ WF_vars(Restart)

-----------------------------------------------------------------------------
(* Properties                                                              *)

Refs == [task: TaskIDs, attempt: Attempts] \cup {NoRef}

\* Types of the process state.
ProcessTypeOK ==
  /\ rpc \in RunnerPCs /\ ref \in Refs
  /\ err \in Causes \cup {"failure", None}
  /\ held \in [ref: Refs, action: Actions \cup {None}, finalizing: BOOLEAN,
               cause: Causes \cup {None}]
  /\ locks \in [TaskIDs -> Clients \cup {"free", "runner"}]
  /\ clients \in [Clients -> [pc: {"idle", "lockTask", "persist", "Notify"},
                              op: Ops \cup {None}, task: TaskIDs \cup {NoTask}]]

\* The process only changes the tables by the repository's transactions, so
\* all that is proved of them holds of the running system.
ImplementsTaskState == Spec

\* A task is reported as succeeded only after its work was committed with the
\* fence, never because the executor's error was lost on the way through
\* beginFinalizing and setOutcomeFromError.
SucceededIsCommitted ==
  \A t \in TaskIDs : tasks[t].status = "succeeded" => tasks[t].committed

\* Once the executor has started, an action in SQLite has cancelled its
\* context: no accepted pause or cancel is only on disk, not even one that
\* arrived between ClaimNext and the hand-off.
ActionReachesExecutor ==
  \A t \in TaskIDs :
    held.ref.task = t /\ IsRunning(t, held.ref.attempt) /\ tasks[t].action # None =>
      held.action = tasks[t].action /\ held.cause # None

\* While the runner holds an attempt its row stays at that attempt: a resume
\* cannot queue the task again under the goroutine that is about to let go.
HeldAttemptIsCurrent ==
  held.ref # NoRef =>
    /\ tasks[held.ref.task].attempt = held.ref.attempt
    /\ tasks[held.ref.task].status # "queued"

\* No wake-up is lost: a queued task does not stay queued for ever, whatever
\* the handlers, failures, shutdowns and crashes interleave with it.
QueuedIsServed == \A t \in TaskIDs : tasks[t].status = "queued" ~> tasks[t].status # "queued"

\* An accepted pause or cancel ends the attempt.
ControlTakesEffect ==
  \A t \in TaskIDs :
    tasks[t].status = "running" /\ tasks[t].action # None ~> tasks[t].status # "running"
=============================================================================
