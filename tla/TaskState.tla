------------------------------ MODULE TaskState ------------------------------
(***************************************************************************)
(* The durable task repository of novel-fetcher                            *)
(* (services/novel-fetcher/internal/taskstate): the tables fetch_tasks and *)
(* fetch_task_queue and the transactions on them.  SQLite has one writer   *)
(* connection, so every transaction is one action.  A transaction that     *)
(* returns an error is rolled back and is no step here; the predicates     *)
(* that decide between success, no change and conflict have names of their *)
(* own, because the runner (TaskRunner) branches on them.                  *)
(*                                                                         *)
(* The callers are arbitrary here: any task reference, of any attempt, and *)
(* any outcome may arrive at any time.  What the repository promises, it   *)
(* promises to every caller.                                               *)
(***************************************************************************)
EXTENDS Naturals, Sequences, FiniteSets

CONSTANTS
  TaskIDs,      \* identifiers of the rows of fetch_tasks
  Targets,      \* what a user may type: [site, work, form] records
  WorkIDs,      \* primary keys of works
  Batches,      \* the request lists that may arrive in one Enqueue
  MaxAttempts,  \* bound: a task is claimed at most this often
  MaxSeq        \* bound: last value of the queue's AUTOINCREMENT key

NoWork   == 0
NoTarget == "no target"
None     == "none"     \* requested_action = ''

\* validateRequest: the three request shapes that are accepted, each option
\* set being the options the kind may carry.
Requests ==
       [kind: {"download"}, target: Targets, work: WorkIDs \cup {NoWork},
        opts: SUBSET {"force"}]
  \cup [kind: {"update"}, target: {NoTarget}, work: WorkIDs,
        opts: SUBSET {"force_redownload", "skip_unchanged"}]
  \cup [kind: {"resume"}, target: {NoTarget}, work: WorkIDs, opts: {{}}]

ASSUME ConstantsAssumption ==
  /\ NoWork \notin WorkIDs
  /\ Batches \subseteq Seq(Requests)
  /\ MaxAttempts \in Nat \ {0}
  /\ MaxSeq \in Nat

Statuses == {"queued", "running", "paused", "interrupted", "failed",
             "canceled", "succeeded"}
Reserved == {"queued", "running", "paused", "interrupted"}
Actions  == {"pause", "cancel"}
Outcomes == Statuses \ {"queued", "running"}
Attempts == 0 .. MaxAttempts

VARIABLES
  tasks,    \* fetch_tasks, one record per identifier; status "absent": no row
  seq,      \* fetch_task_queue: the seq of a task's row, 0 when it has none
  lastSeq   \* sqlite_sequence of fetch_task_queue

stateVars == <<tasks, seq, lastSeq>>

NoRequest == [kind |-> "none"]
AbsentRow == [status |-> "absent", action |-> None, req |-> NoRequest,
              attempt |-> 0, committed |-> FALSE]
Row == [status: Statuses, action: Actions \cup {None}, req: Requests,
        attempt: Attempts, committed: BOOLEAN]

-----------------------------------------------------------------------------
(* Identity of a request (request.go)                                      *)

\* A site target loses its spelling: an N code, a work URL and an episode URL
\* of one work are one identity.  Any other URL keeps its path.
CanonicalTarget(t) ==
  IF t.site = "other" THEN <<"url", t.work, t.form>>
                      ELSE <<"site", t.site, t.work>>

\* validateRequest's result, stored as dedupe_key.
DedupeKey(r) ==
  IF r.kind = "download" THEN CanonicalTarget(r.target) ELSE <<"work", r.work>>

\* request_fingerprint: a hash of exactly these four fields.
Fingerprint(r) == <<r.kind, DedupeKey(r), r.work, r.opts>>

IsReserved(t) == tasks[t].status \in Reserved
IsRunning(t, n) == tasks[t].status = "running" /\ tasks[t].attempt = n

\* The other reserved tasks that hold the resources of request r.
KeyHolders(r) == {t \in TaskIDs : IsReserved(t) /\ DedupeKey(tasks[t].req) = DedupeKey(r)}
WorkHolders(w) == {t \in TaskIDs : IsReserved(t) /\ w # NoWork /\ tasks[t].req.work = w}

Init ==
  /\ tasks = [t \in TaskIDs |-> AbsentRow]
  /\ seq = [t \in TaskIDs |-> 0]
  /\ lastSeq = 0

-----------------------------------------------------------------------------
(* Enqueue: one transaction for a whole list of requests                   *)

\* The requests of the list that need a row of their own: nobody holds their
\* key, neither a stored task nor an earlier request of the list.
FreshIndexes(reqs) ==
  {k \in DOMAIN reqs :
     /\ KeyHolders(reqs[k]) = {}
     /\ \A j \in DOMAIN reqs : j < k => DedupeKey(reqs[j]) # DedupeKey(reqs[k])}

\* ErrTaskAlreadyActive: a held key with another fingerprint, or a fresh
\* request for a work that a task holds.
EnqueueConflict(reqs) ==
  LET fresh == FreshIndexes(reqs) IN
  \E k \in DOMAIN reqs :
    \/ \E t \in KeyHolders(reqs[k]) : Fingerprint(tasks[t].req) # Fingerprint(reqs[k])
    \/ \E j \in DOMAIN reqs :
         /\ j < k
         /\ DedupeKey(reqs[j]) = DedupeKey(reqs[k])
         /\ Fingerprint(reqs[j]) # Fingerprint(reqs[k])
    \/ /\ k \in fresh
       /\ reqs[k].work # NoWork
       /\ \/ WorkHolders(reqs[k].work) # {}
          \/ \E j \in fresh : j < k /\ reqs[j].work = reqs[k].work

\* ids names the new row of each fresh request.  The rows enter the queue in
\* the order of the list; only the order of seq values matters.
Enqueue(reqs, ids) ==
  /\ lastSeq + Len(reqs) <= MaxSeq
  /\ \A k \in DOMAIN ids : tasks[ids[k]].status = "absent"
  /\ \A j, k \in DOMAIN ids : ids[j] = ids[k] => j = k
  /\ DOMAIN ids = FreshIndexes(reqs)
  /\ ~EnqueueConflict(reqs)
  /\ tasks' = [t \in TaskIDs |->
       IF \E k \in DOMAIN ids : ids[k] = t
       THEN [status |-> "queued", action |-> None,
             req |-> reqs[CHOOSE k \in DOMAIN ids : ids[k] = t],
             attempt |-> 0, committed |-> FALSE]
       ELSE tasks[t]]
  /\ seq' = [t \in TaskIDs |->
       IF \E k \in DOMAIN ids : ids[k] = t
       THEN lastSeq + (CHOOSE k \in DOMAIN ids : ids[k] = t)
       ELSE seq[t]]
  /\ lastSeq' = lastSeq + Len(reqs)

-----------------------------------------------------------------------------
(* The attempt                                                             *)

IsQueueHead(t) == seq[t] # 0 /\ \A u \in TaskIDs : seq[u] # 0 => seq[t] <= seq[u]

\* The oldest queue row; the unique index on running rows makes the claim fail
\* while another task runs.
ClaimNext(t) ==
  /\ IsQueueHead(t)
  /\ tasks[t].status = "queued"
  /\ \A u \in TaskIDs : tasks[u].status # "running"
  /\ tasks' = [tasks EXCEPT ![t] =
       [@ EXCEPT !.status = "running", !.action = None, !.attempt = tasks[t].attempt + 1,
                 !.committed = FALSE]]
  /\ seq' = [seq EXCEPT ![t] = 0]
  /\ UNCHANGED lastSeq

\* A work belongs to at most one reserved task; a task never changes its work.
SetWorkIDAllowed(t, n, w) ==
  /\ IsRunning(t, n)
  /\ tasks[t].req.work \in {NoWork, w}
  /\ tasks[t].req.work = NoWork => WorkHolders(w) \ {t} = {}

SetWorkID(t, n, w) ==
  /\ SetWorkIDAllowed(t, n, w)
  /\ tasks' = [tasks EXCEPT ![t] = [@ EXCEPT !.req = [tasks[t].req EXCEPT !.work = w]]]
  /\ UNCHANGED <<seq, lastSeq>>

\* The commit fence of CompleteWorkForTask: the update matches only while no
\* action is recorded.
CommitAllowed(t, n) == IsRunning(t, n) /\ tasks[t].action = None

CompleteWorkForTask(t, n) ==
  /\ CommitAllowed(t, n)
  /\ tasks' = [tasks EXCEPT ![t] = [@ EXCEPT !.committed = TRUE]]
  /\ UNCHANGED <<seq, lastSeq>>

\* Mutant: the recorded action is stored as the status.
TerminalRaw(row, outcome) ==
  IF row.committed THEN "succeeded" ELSE IF row.action # None THEN row.action ELSE outcome

\* A committed result wins over everything, a recorded action over the
\* outcome the caller brings.
TerminalStatus(row, outcome) ==
  IF row.committed THEN "succeeded"
  ELSE CASE row.action = "pause"  -> "paused"
         [] row.action = "cancel" -> "canceled"
         [] row.action = None     -> outcome

Finalize(t, n, outcome) ==
  /\ IsRunning(t, n)
  /\ tasks' = [tasks EXCEPT ![t] =
       [@ EXCEPT !.status = TerminalStatus(tasks[t], outcome), !.action = None]]
  /\ UNCHANGED <<seq, lastSeq>>

-----------------------------------------------------------------------------
(* Controls                                                                *)

ControlConflict(t, a) ==
  \/ tasks[t].status \in {"succeeded", "canceled"}
  \/ tasks[t].status \in {"failed", "interrupted"} /\ a = "pause"
  \/ /\ tasks[t].status = "running"
     /\ tasks[t].committed \/ tasks[t].action \notin {None, a}

ControlUnchanged(t, a) ==
  /\ ~ControlConflict(t, a)
  /\ \/ tasks[t].status = "paused" /\ a = "pause"
     \/ tasks[t].status = "running" /\ tasks[t].action = a

ControlApplies(t, a) ==
  tasks[t].status # "absent" /\ ~ControlConflict(t, a) /\ ~ControlUnchanged(t, a)

\* Mutant: the queue row of a cancelled task stays.
requestActionKeepsRow(t, a) ==
  /\ ControlApplies(t, a)
  /\ tasks' = [tasks EXCEPT ![t] =
       IF tasks[t].status = "running" THEN [@ EXCEPT !.action = a]
       ELSE [@ EXCEPT !.status = IF a = "pause" THEN "paused" ELSE "canceled"]]
  /\ seq' = [seq EXCEPT ![t] = IF a = "pause" THEN 0 ELSE @]
  /\ UNCHANGED lastSeq

\* RequestPause and RequestCancel: a running task only gets the action
\* recorded, any other task goes to its final status at once and leaves the
\* queue.
requestAction(t, a) ==
  /\ ControlApplies(t, a)
  /\ \/ /\ tasks[t].status = "running"
        /\ tasks' = [tasks EXCEPT ![t] = [@ EXCEPT !.action = a]]
        /\ UNCHANGED seq
     \/ /\ tasks[t].status # "running"
        /\ tasks' = [tasks EXCEPT ![t] =
             [@ EXCEPT !.status = IF a = "pause" THEN "paused" ELSE "canceled",
                       !.action = None]]
        /\ seq' = [seq EXCEPT ![t] = 0]
  /\ UNCHANGED lastSeq

\* Mutant: a resume does not look for another task on the same work.
ResumeConflictKeyOnly(t) ==
  \/ tasks[t].status \in {"canceled", "succeeded"}
  \/ /\ tasks[t].status \notin {"queued", "running"}
     /\ KeyHolders(tasks[t].req) \ {t} # {}

ResumeConflict(t) ==
  \/ tasks[t].status \in {"canceled", "succeeded"}
  \/ /\ tasks[t].status \notin {"queued", "running"}
     /\ \/ KeyHolders(tasks[t].req) \ {t} # {}
        \/ WorkHolders(tasks[t].req.work) \ {t} # {}

ResumeApplies(t) ==
  tasks[t].status \in {"paused", "interrupted", "failed"} /\ ~ResumeConflict(t)

\* The bounds of the instance, not of the code.
ResumeInBounds(t) == tasks[t].attempt < MaxAttempts /\ lastSeq < MaxSeq

\* Back to the tail of the queue, under the same identifier.
RequestResume(t) ==
  /\ ResumeApplies(t)
  /\ ResumeInBounds(t)
  /\ tasks' = [tasks EXCEPT ![t] =
       [@ EXCEPT !.status = "queued", !.action = None, !.committed = FALSE]]
  /\ seq' = [seq EXCEPT ![t] = lastSeq + 1]
  /\ lastSeq' = lastSeq + 1

-----------------------------------------------------------------------------
(* Startup                                                                 *)

\* What RecoverOnStartup demands of the tables; otherwise the process refuses
\* to start.
RecoverAccepts ==
  /\ \A t \in TaskIDs : tasks[t].status = "queued" <=> seq[t] # 0
  /\ \A t, u \in TaskIDs :
       tasks[t].status = "running" /\ tasks[u].status = "running" => t = u

\* Mutant: recovery trusts only the recorded action.
RecoveredStatusUncommitted(row) ==
  IF row.action = "cancel" THEN "canceled" ELSE "interrupted"

RecoveredStatus(row) ==
  IF row.committed THEN "succeeded"
  ELSE IF row.action = "cancel" THEN "canceled" ELSE "interrupted"

RecoverOnStartup ==
  /\ RecoverAccepts
  /\ tasks' = [t \in TaskIDs |->
       IF tasks[t].status = "running"
       THEN [tasks[t] EXCEPT !.status = RecoveredStatus(tasks[t]), !.action = None]
       ELSE tasks[t]]
  /\ UNCHANGED <<seq, lastSeq>>

-----------------------------------------------------------------------------
AttemptStep(t, n) ==
  \/ \E w \in WorkIDs : SetWorkID(t, n, w)
  \/ CompleteWorkForTask(t, n)
  \/ \E o \in Outcomes : Finalize(t, n, o)

Next ==
  \/ \E reqs \in Batches : \E ids \in [FreshIndexes(reqs) -> TaskIDs] : Enqueue(reqs, ids)
  \/ \E t \in TaskIDs : ClaimNext(t)
  \/ \E t \in TaskIDs, n \in Attempts : AttemptStep(t, n)
  \/ \E t \in TaskIDs, a \in Actions : requestAction(t, a)
  \/ \E t \in TaskIDs : RequestResume(t)
  \/ RecoverOnStartup

Spec == Init /\ [][Next]_stateVars

-----------------------------------------------------------------------------
(* Properties                                                              *)

\* The columns keep their types and a queued task may still be claimed.
TypeOK ==
  /\ tasks \in [TaskIDs -> Row \cup {AbsentRow}]
  /\ seq \in [TaskIDs -> Nat]
  /\ lastSeq \in Nat
  /\ \A t \in TaskIDs : tasks[t].status = "queued" => tasks[t].attempt < MaxAttempts

\* No two reserved tasks hold one dedupe key or one work, whatever was
\* enqueued, resumed, or bound to a work while running: the unique indexes
\* fetch_tasks_reserved_dedupe_idx and _work_idx never have to fire.
ReservedOnce ==
  \A t, u \in TaskIDs :
    IsReserved(t) /\ IsReserved(u) /\ t # u =>
      /\ DedupeKey(tasks[t].req) # DedupeKey(tasks[u].req)
      /\ tasks[t].req.work # NoWork => tasks[t].req.work # tasks[u].req.work

\* No sequence of transactions leaves tables that RecoverOnStartup rejects, so
\* the process always starts again; and the queue order is total.
StartupAccepts ==
  /\ RecoverAccepts
  /\ \A t \in TaskIDs : seq[t] <= lastSeq
  /\ \A t, u \in TaskIDs : seq[t] # 0 /\ seq[t] = seq[u] => t = u

\* A control and the completion of the work exclude each other: no row is both
\* committed and marked with an action, and only a running row has an action.
CommitFence ==
  \A t \in TaskIDs :
    tasks[t].action # None => tasks[t].status = "running" /\ ~tasks[t].committed

\* Whichever of control and completion was recorded first decides how the
\* attempt ends, by Finalize or by recovery after a crash: a committed task
\* only becomes succeeded, a cancelled one canceled, a paused one paused (or
\* interrupted when the process died).
FirstCommitWins ==
  [][\A t \in TaskIDs :
       tasks[t].status = "running" /\ tasks'[t].status # "running" =>
         /\ tasks[t].committed => tasks'[t].status = "succeeded"
         /\ tasks[t].action = "cancel" => tasks'[t].status = "canceled"
         /\ tasks[t].action = "pause" => tasks'[t].status \in {"paused", "interrupted"}]_stateVars
=============================================================================
