--------------------------- MODULE TaskStateProofs ---------------------------
(***************************************************************************)
(* Proofs about TaskState for every set of tasks, targets, works, request  *)
(* lists and bounds.  The inductive invariant is the conjunction of the    *)
(* four state properties: ReservedOnce needs the types of the rows,        *)
(* StartupAccepts needs that queue rows and statuses move together, and    *)
(* FirstCommitWins needs CommitFence.                                      *)
(***************************************************************************)
EXTENDS TaskState, TLAPS

IInv == TypeOK /\ ReservedOnce /\ StartupAccepts /\ CommitFence

USE ConstantsAssumption DEF NoWork, None

LEMMA RowType ==
  ASSUME TypeOK, NEW t \in TaskIDs
  PROVE  /\ tasks[t].status \in Statuses \cup {"absent"}
         /\ tasks[t].status # "absent" => tasks[t] \in Row
         /\ tasks[t].status = "absent" => tasks[t] = AbsentRow
BY DEF TypeOK, Row, AbsentRow, Statuses

\* Every transaction but Enqueue and RecoverOnStartup rewrites one row.
LEMMA RowUpdateType ==
  ASSUME TypeOK, NEW t \in TaskIDs, NEW r \in Row,
         r.status = "queued" => r.attempt < MaxAttempts,
         tasks' = [tasks EXCEPT ![t] = r],
         seq' \in [TaskIDs -> Nat], lastSeq' \in Nat
  PROVE  TypeOK'
BY DEF TypeOK

LEMMA InitStep == Init => IInv
BY DEF Init, IInv, TypeOK, ReservedOnce, StartupAccepts, CommitFence,
       RecoverAccepts, IsReserved, Reserved, AbsentRow

LEMMA ClaimNextStep ==
  ASSUME IInv, NEW t \in TaskIDs, ClaimNext(t)
  PROVE  IInv'
<1> USE DEF IInv
<1> DEFINE r == [tasks[t] EXCEPT !.status = "running", !.action = None,
                   !.attempt = tasks[t].attempt + 1, !.committed = FALSE]
<1>1. tasks[t] \in Row /\ tasks[t].attempt < MaxAttempts
  BY RowType DEF ClaimNext, TypeOK
<1>2. TypeOK'
  <2>1. tasks[t].attempt + 1 \in Attempts
    BY <1>1 DEF Row, Attempts
  <2>2. "running" \in Statuses
    BY DEF Statuses
  <2>3. r \in Row /\ r.status = "running"
    BY <1>1, <2>1, <2>2 DEF Row
  <2>4. tasks' = [tasks EXCEPT ![t] = r]
    BY DEF ClaimNext
  <2>5. seq' \in [TaskIDs -> Nat] /\ lastSeq' \in Nat
    BY DEF ClaimNext, TypeOK
  <2> HIDE DEF r
  <2>6. QED
    BY <2>3, <2>4, <2>5, RowUpdateType
<1>3. ReservedOnce'
  BY <1>1 DEF ClaimNext, TypeOK, ReservedOnce, IsReserved, Reserved, Row
<1>4. StartupAccepts'
  BY <1>1 DEF ClaimNext, TypeOK, StartupAccepts, RecoverAccepts, Row
<1>5. CommitFence'
  BY <1>1 DEF ClaimNext, TypeOK, CommitFence, Row
<1>6. QED
  BY <1>2, <1>3, <1>4, <1>5

LEMMA SetWorkIDStep ==
  ASSUME IInv, NEW t \in TaskIDs, NEW n \in Attempts, NEW w \in WorkIDs, SetWorkID(t, n, w)
  PROVE  IInv'
<1> USE DEF IInv
<1> DEFINE q == [tasks[t].req EXCEPT !.work = w]
           r == [tasks[t] EXCEPT !.req = q]
<1>1. tasks[t] \in Row /\ tasks[t].status = "running" /\ tasks[t].req \in Requests
  BY RowType DEF SetWorkID, SetWorkIDAllowed, IsRunning, Row
<1>2. q \in Requests /\ q.work = w /\ DedupeKey(q) = DedupeKey(tasks[t].req)
  <2>1. CASE tasks[t].req.kind = "download"
    BY <1>1, <2>1 DEF Requests, DedupeKey
  <2>2. CASE tasks[t].req.kind # "download"
    <3>1. tasks[t].req.work = w
      BY <1>1, <2>2 DEF Requests, SetWorkID, SetWorkIDAllowed
    <3>2. QED
      BY <1>1, <2>2, <3>1 DEF Requests, DedupeKey
  <2>3. QED
    BY <2>1, <2>2
<1> HIDE DEF q
<1>3. r \in Row /\ r.status = "running" /\ r.req = q
  BY <1>1, <1>2 DEF Row
<1>4. tasks' = [tasks EXCEPT ![t] = r]
  BY DEF SetWorkID, q
<1>5. TypeOK'
  <2>1. seq' \in [TaskIDs -> Nat] /\ lastSeq' \in Nat
    BY DEF SetWorkID, TypeOK
  <2> HIDE DEF r
  <2>2. QED
    BY <1>3, <1>4, <2>1, RowUpdateType
<1>6. ReservedOnce'
  <2> SUFFICES ASSUME NEW u \in TaskIDs, u # t, IsReserved(u)
               PROVE  /\ DedupeKey(q) # DedupeKey(tasks[u].req)
                      /\ w # tasks[u].req.work
    <3>1. tasks'[t] = r /\ \A u \in TaskIDs : u # t => tasks'[u] = tasks[u]
      BY <1>4 DEF TypeOK
    <3> HIDE DEF r
    <3>2. QED
      BY <1>2, <1>3, <3>1 DEF ReservedOnce, IsReserved
  <2>1. IsReserved(t)
    BY <1>1 DEF IsReserved, Reserved
  <2>2. tasks[t].req.work \in {NoWork, w} /\ (tasks[t].req.work = NoWork => WorkHolders(w) \ {t} = {})
    BY DEF SetWorkID, SetWorkIDAllowed
  <2>3. w # tasks[u].req.work
    BY <2>1, <2>2 DEF WorkHolders, ReservedOnce
  <2>4. QED
    BY <1>2, <2>1, <2>3 DEF ReservedOnce
<1>7. StartupAccepts' /\ CommitFence'
  <2>1. r.action = tasks[t].action /\ r.committed = tasks[t].committed
    BY <1>1 DEF Row
  <2>2. seq' = seq /\ lastSeq' = lastSeq
    BY DEF SetWorkID
  <2> HIDE DEF r
  <2>3. QED
    BY <1>1, <1>3, <1>4, <2>1, <2>2 DEF TypeOK, StartupAccepts, RecoverAccepts, CommitFence
<1>8. QED
  BY <1>5, <1>6, <1>7

LEMMA CompleteWorkStep ==
  ASSUME IInv, NEW t \in TaskIDs, NEW n \in Attempts, CompleteWorkForTask(t, n)
  PROVE  IInv'
<1> USE DEF IInv
<1> DEFINE r == [tasks[t] EXCEPT !.committed = TRUE]
<1>1. tasks[t] \in Row /\ tasks[t].status = "running" /\ tasks[t].action = None
  BY RowType DEF CompleteWorkForTask, CommitAllowed, IsRunning
<1>2. r \in Row /\ r.status = "running" /\ r.req = tasks[t].req /\ r.action = None
  BY <1>1 DEF Row
<1>3. /\ tasks' = [tasks EXCEPT ![t] = r]
      /\ seq' = seq /\ lastSeq' = lastSeq
  BY DEF CompleteWorkForTask
<1> HIDE DEF r
<1>4. TypeOK'
  BY <1>2, <1>3, RowUpdateType DEF TypeOK
<1>5. ReservedOnce'
  BY <1>1, <1>2, <1>3 DEF TypeOK, ReservedOnce, IsReserved, Reserved
<1>6. StartupAccepts' /\ CommitFence'
  BY <1>1, <1>2, <1>3 DEF TypeOK, StartupAccepts, RecoverAccepts, CommitFence
<1>7. QED
  BY <1>4, <1>5, <1>6

\* How a running row ends, in Finalize and in recovery.
LEMMA TerminalFacts ==
  ASSUME NEW row \in Row, NEW o \in Outcomes
  PROVE  /\ TerminalStatus(row, o) \in Outcomes
         /\ RecoveredStatus(row) \in Outcomes
         /\ row.committed => TerminalStatus(row, o) = "succeeded" /\ RecoveredStatus(row) = "succeeded"
         /\ ~row.committed /\ row.action = "cancel" =>
              TerminalStatus(row, o) = "canceled" /\ RecoveredStatus(row) = "canceled"
         /\ ~row.committed /\ row.action = "pause" =>
              TerminalStatus(row, o) = "paused" /\ RecoveredStatus(row) = "interrupted"
<1>1. row.action \in {"pause", "cancel", None}
  BY DEF Row, Actions
<1>2. /\ {"succeeded", "canceled", "paused", "interrupted"} \subseteq Outcomes
      /\ None # "pause" /\ None # "cancel"
  BY DEF Outcomes, Statuses
<1>3. CASE row.committed
  BY <1>2, <1>3 DEF TerminalStatus, RecoveredStatus
<1>4. CASE ~row.committed /\ row.action = "pause"
  BY <1>2, <1>4 DEF TerminalStatus, RecoveredStatus
<1>5. CASE ~row.committed /\ row.action = "cancel"
  BY <1>2, <1>5 DEF TerminalStatus, RecoveredStatus
<1>6. CASE ~row.committed /\ row.action = None
  BY <1>2, <1>6 DEF TerminalStatus, RecoveredStatus
<1>7. QED
  BY <1>1, <1>3, <1>4, <1>5, <1>6

LEMMA FinalizeStep ==
  ASSUME IInv, NEW t \in TaskIDs, NEW n \in Attempts, NEW o \in Outcomes, Finalize(t, n, o)
  PROVE  IInv'
<1> USE DEF IInv
<1> DEFINE s == TerminalStatus(tasks[t], o)
           r == [tasks[t] EXCEPT !.status = s, !.action = None]
<1>1. tasks[t] \in Row /\ tasks[t].status = "running"
  BY RowType DEF Finalize, IsRunning
<1>2. s \in Outcomes
  BY <1>1, TerminalFacts
<1>3. s \in Statuses /\ s # "queued" /\ s # "running"
  BY <1>2 DEF Outcomes
<1> HIDE DEF s
<1>4. r \in Row /\ r.status = s /\ r.req = tasks[t].req /\ r.action = None
  BY <1>1, <1>3 DEF Row
<1>5. /\ tasks' = [tasks EXCEPT ![t] = r]
      /\ seq' = seq /\ lastSeq' = lastSeq
  BY DEF Finalize, s
<1> HIDE DEF r
<1>6. TypeOK'
  BY <1>3, <1>4, <1>5, RowUpdateType DEF TypeOK
<1>7. ReservedOnce'
  BY <1>1, <1>3, <1>4, <1>5 DEF TypeOK, ReservedOnce, IsReserved, Reserved
<1>8. StartupAccepts' /\ CommitFence'
  BY <1>1, <1>3, <1>4, <1>5 DEF TypeOK, StartupAccepts, RecoverAccepts, CommitFence
<1>9. QED
  BY <1>6, <1>7, <1>8

LEMMA RequestActionStep ==
  ASSUME IInv, NEW t \in TaskIDs, NEW a \in Actions, requestAction(t, a)
  PROVE  IInv'
<1> USE DEF IInv
<1>1. tasks[t] \in Row /\ tasks[t].status \in Statuses
  BY RowType DEF requestAction, ControlApplies
<1>2. CASE tasks[t].status = "running"
  <2> DEFINE r == [tasks[t] EXCEPT !.action = a]
  <2>1. r \in Row /\ r.status = "running" /\ r.req = tasks[t].req
        /\ r.action = a /\ r.committed = tasks[t].committed
    BY <1>1, <1>2 DEF Row
  <2>2. /\ tasks' = [tasks EXCEPT ![t] = r]
        /\ seq' = seq /\ lastSeq' = lastSeq
        /\ ~tasks[t].committed
    BY <1>2 DEF requestAction, ControlApplies, ControlConflict
  <2> HIDE DEF r
  <2>3. TypeOK'
    BY <2>1, <2>2, RowUpdateType DEF TypeOK
  <2>4. ReservedOnce'
    BY <1>2, <2>1, <2>2 DEF TypeOK, ReservedOnce, IsReserved, Reserved
  <2>5. StartupAccepts' /\ CommitFence'
    BY <1>2, <2>1, <2>2 DEF TypeOK, StartupAccepts, RecoverAccepts, CommitFence
  <2>6. QED
    BY <2>3, <2>4, <2>5
<1>3. CASE tasks[t].status # "running"
  <2> DEFINE s == IF a = "pause" THEN "paused" ELSE "canceled"
             r == [tasks[t] EXCEPT !.status = s, !.action = None]
  <2>1. s \in Statuses /\ s # "queued" /\ s # "running"
    BY DEF Statuses
  <2>2. s \in Reserved => IsReserved(t)
    BY <1>1, <1>3 DEF requestAction, ControlApplies, ControlConflict, ControlUnchanged,
                 IsReserved, Reserved, Statuses, Actions
  <2> HIDE DEF s
  <2>3. r \in Row /\ r.status = s /\ r.req = tasks[t].req /\ r.action = None
    BY <1>1, <2>1 DEF Row
  <2>4. /\ tasks' = [tasks EXCEPT ![t] = r]
        /\ seq' = [seq EXCEPT ![t] = 0] /\ lastSeq' = lastSeq
    BY <1>3 DEF requestAction, s
  <2> HIDE DEF r
  <2>5. TypeOK'
    <3>1. seq' \in [TaskIDs -> Nat]
      BY <2>4 DEF TypeOK
    <3>2. QED
      BY <2>1, <2>3, <2>4, <3>1, RowUpdateType DEF TypeOK
  <2>6. ReservedOnce'
    BY <2>2, <2>3, <2>4 DEF TypeOK, ReservedOnce, IsReserved
  <2>7. StartupAccepts' /\ CommitFence'
    BY <1>3, <2>1, <2>3, <2>4 DEF TypeOK, StartupAccepts, RecoverAccepts, CommitFence
  <2>8. QED
    BY <2>5, <2>6, <2>7
<1>4. QED
  BY <1>2, <1>3

LEMMA RequestResumeStep ==
  ASSUME IInv, NEW t \in TaskIDs, RequestResume(t)
  PROVE  IInv'
<1> USE DEF IInv
<1> DEFINE r == [tasks[t] EXCEPT !.status = "queued", !.action = None, !.committed = FALSE]
<1>1. tasks[t] \in Row /\ tasks[t].status \in {"paused", "interrupted", "failed"}
  BY RowType DEF RequestResume, ResumeApplies
<1>2. r \in Row /\ r.status = "queued" /\ r.req = tasks[t].req /\ r.action = None
      /\ r.attempt = tasks[t].attempt
  <2>1. "queued" \in Statuses
    BY DEF Statuses
  <2>2. QED
    BY <1>1, <2>1 DEF Row
<1>3. /\ tasks' = [tasks EXCEPT ![t] = r]
      /\ seq' = [seq EXCEPT ![t] = lastSeq + 1] /\ lastSeq' = lastSeq + 1
      /\ tasks[t].attempt < MaxAttempts
  BY DEF RequestResume, ResumeInBounds
<1>4. /\ KeyHolders(tasks[t].req) \subseteq {t}
      /\ WorkHolders(tasks[t].req.work) \subseteq {t}
  BY <1>1 DEF RequestResume, ResumeApplies, ResumeConflict
<1> HIDE DEF r
<1>5. TypeOK'
  <2>1. seq' \in [TaskIDs -> Nat] /\ lastSeq' \in Nat
    BY <1>3 DEF TypeOK
  <2>2. QED
    BY <1>2, <1>3, <2>1, RowUpdateType
<1>6. ReservedOnce'
  <2>1. \A u \in TaskIDs : u # t /\ IsReserved(u) =>
          /\ DedupeKey(tasks[u].req) # DedupeKey(tasks[t].req)
          /\ tasks[t].req.work # NoWork => tasks[u].req.work # tasks[t].req.work
    BY <1>4 DEF KeyHolders, WorkHolders
  <2>2. tasks'[t] = r /\ \A u \in TaskIDs : u # t => tasks'[u] = tasks[u]
    BY <1>3 DEF TypeOK
  <2>3. QED
    BY <1>2, <2>1, <2>2 DEF ReservedOnce, IsReserved
<1>7. StartupAccepts'
  BY <1>1, <1>2, <1>3 DEF TypeOK, StartupAccepts, RecoverAccepts
<1>8. CommitFence'
  BY <1>2, <1>3 DEF TypeOK, CommitFence
<1>9. QED
  BY <1>5, <1>6, <1>7, <1>8

LEMMA RecoverStep ==
  ASSUME IInv, RecoverOnStartup
  PROVE  IInv'
<1> USE DEF IInv
<1> DEFINE r(t) == [tasks[t] EXCEPT !.status = RecoveredStatus(tasks[t]), !.action = None]
<1>1. ASSUME NEW t \in TaskIDs, tasks[t].status = "running"
      PROVE  /\ r(t) \in Row /\ r(t).status \in Outcomes
             /\ r(t).req = tasks[t].req /\ r(t).action = None
  <2>1. tasks[t] \in Row
    BY <1>1, RowType
  <2>2. RecoveredStatus(tasks[t]) \in Outcomes
    BY <2>1, TerminalFacts DEF Outcomes, Statuses
  <2>3. RecoveredStatus(tasks[t]) \in Statuses
    BY <2>2 DEF Outcomes
  <2>4. QED
    BY <2>1, <2>2, <2>3 DEF Row
<1>2. \A t \in TaskIDs : tasks'[t] = IF tasks[t].status = "running" THEN r(t) ELSE tasks[t]
  BY DEF RecoverOnStartup
<1>3. tasks' = [t \in TaskIDs |-> tasks'[t]] /\ seq' = seq /\ lastSeq' = lastSeq
  BY DEF RecoverOnStartup
<1> HIDE DEF r
<1>4. TypeOK'
  BY <1>1, <1>2, <1>3 DEF TypeOK, Outcomes
<1>5. ReservedOnce'
  BY <1>1, <1>2 DEF ReservedOnce, IsReserved, Reserved, Outcomes
<1>6. StartupAccepts' /\ CommitFence'
  BY <1>1, <1>2, <1>3 DEF StartupAccepts, RecoverAccepts, CommitFence, Outcomes
<1>7. QED
  BY <1>4, <1>5, <1>6

LEMMA EnqueueStep ==
  ASSUME IInv, NEW reqs \in Seq(Requests), NEW ids \in [FreshIndexes(reqs) -> TaskIDs],
         Enqueue(reqs, ids)
  PROVE  IInv'
<1> USE DEF IInv
<1> DEFINE New == {t \in TaskIDs : \E k \in DOMAIN ids : ids[k] = t}
           at(t) == CHOOSE k \in DOMAIN ids : ids[k] = t
           r(t) == [status |-> "queued", action |-> None, req |-> reqs[at(t)],
                    attempt |-> 0, committed |-> FALSE]
<1>1. reqs \in Seq(Requests) /\ DOMAIN ids \subseteq DOMAIN reqs /\ DOMAIN reqs = 1 .. Len(reqs)
      /\ Len(reqs) \in Nat
  BY DEF FreshIndexes
<1>2. ASSUME NEW t \in New
      PROVE  /\ at(t) \in FreshIndexes(reqs) /\ ids[at(t)] = t
             /\ at(t) \in 1 .. Len(reqs) /\ tasks[t].status = "absent"
             /\ reqs[at(t)] \in Requests
  <2>1. at(t) \in DOMAIN ids /\ ids[at(t)] = t
    BY <1>2
  <2>2. QED
    BY <1>1, <2>1 DEF Enqueue
<1>3. \A t, u \in New : at(t) = at(u) => t = u
  BY <1>2
<1>4. /\ \A t \in TaskIDs : tasks'[t] = IF t \in New THEN r(t) ELSE tasks[t]
      /\ \A t \in TaskIDs : seq'[t] = IF t \in New THEN lastSeq + at(t) ELSE seq[t]
      /\ tasks' = [t \in TaskIDs |-> tasks'[t]] /\ seq' = [t \in TaskIDs |-> seq'[t]]
      /\ lastSeq' = lastSeq + Len(reqs)
  BY DEF Enqueue
<1>5. \A t \in New : /\ r(t) \in Row /\ r(t).status = "queued" /\ r(t).attempt = 0
                     /\ r(t).req = reqs[at(t)] /\ r(t).action = None
  <2>1. "queued" \in Statuses /\ 0 \in Attempts
    BY DEF Statuses, Attempts
  <2>2. QED
    BY <1>2, <2>1 DEF Row
<1> HIDE DEF r, at, New
<1>6. New \subseteq TaskIDs
  BY DEF New
<1>7. TypeOK'
  <2>1. tasks' \in [TaskIDs -> Row \cup {AbsentRow}]
    BY <1>4, <1>5 DEF TypeOK
  <2>2. seq' \in [TaskIDs -> Nat] /\ lastSeq' \in Nat
    BY <1>1, <1>2, <1>4 DEF TypeOK
  <2>3. (\A t \in TaskIDs : tasks[t].status = "queued" => tasks[t].attempt < MaxAttempts)'
    BY <1>4, <1>5 DEF TypeOK
  <2>4. QED
    BY <2>1, <2>2, <2>3 DEF TypeOK
<1>8. ReservedOnce'
  <2> SUFFICES ASSUME NEW t \in TaskIDs, NEW u \in TaskIDs, t # u,
                      IsReserved(t)', IsReserved(u)'
               PROVE  /\ DedupeKey(tasks'[t].req) # DedupeKey(tasks'[u].req)
                      /\ tasks'[t].req.work # NoWork => tasks'[t].req.work # tasks'[u].req.work
    BY DEF ReservedOnce
  \* A fresh request against a stored task, and two fresh requests in list order.
  <2>1. ASSUME NEW x \in New, NEW y \in TaskIDs \ New, IsReserved(y)
        PROVE  /\ DedupeKey(reqs[at(x)]) # DedupeKey(tasks[y].req)
               /\ reqs[at(x)].work # NoWork => reqs[at(x)].work # tasks[y].req.work
    <3>1. KeyHolders(reqs[at(x)]) = {}
      BY <1>2 DEF FreshIndexes
    <3>2. reqs[at(x)].work # NoWork => WorkHolders(reqs[at(x)].work) = {}
      BY <1>1, <1>2 DEF Enqueue, EnqueueConflict
    <3>3. QED
      BY <2>1, <3>1, <3>2 DEF KeyHolders, WorkHolders
  <2>2. ASSUME NEW x \in New, NEW y \in New, at(x) < at(y)
        PROVE  /\ DedupeKey(reqs[at(x)]) # DedupeKey(reqs[at(y)])
               /\ reqs[at(y)].work # NoWork => reqs[at(x)].work # reqs[at(y)].work
    <3>1. DedupeKey(reqs[at(x)]) # DedupeKey(reqs[at(y)])
      BY <1>1, <1>2, <2>2 DEF FreshIndexes
    <3>2. reqs[at(y)].work # NoWork => reqs[at(x)].work # reqs[at(y)].work
      BY <1>1, <1>2, <2>2 DEF Enqueue, EnqueueConflict
    <3>3. QED
      BY <3>1, <3>2
  <2>3. CASE t \in New /\ u \in New
    <3>1. at(t) < at(u) \/ at(u) < at(t)
      BY <1>2, <1>3, <2>3
    <3>2. QED
      BY <1>4, <1>5, <2>2, <2>3, <3>1
  <2>4. CASE t \notin New /\ u \notin New
    BY <1>4, <2>4 DEF ReservedOnce, IsReserved
  <2>5. CASE t \in New /\ u \notin New
    BY <1>4, <1>5, <2>1, <2>5 DEF IsReserved
  <2>6. CASE t \notin New /\ u \in New
    BY <1>4, <1>5, <2>1, <2>6 DEF IsReserved
  <2>7. QED
    BY <2>3, <2>4, <2>5, <2>6
<1>9. StartupAccepts'
  <2>1. \A t \in TaskIDs : seq[t] \in Nat /\ lastSeq \in Nat
    BY DEF TypeOK
  <2>2. \A t \in New : at(t) \in 1 .. Len(reqs)
    BY <1>2
  <2>3. RecoverAccepts'
    <3>1. (\A t \in TaskIDs : tasks[t].status = "queued" <=> seq[t] # 0)'
      BY <1>1, <1>4, <1>5, <2>1, <2>2 DEF StartupAccepts, RecoverAccepts
    <3>2. \A t \in TaskIDs : tasks'[t].status = "running" => tasks[t].status = "running"
      BY <1>4, <1>5
    <3>3. QED
      BY <3>1, <3>2 DEF StartupAccepts, RecoverAccepts
  <2>4. (\A t \in TaskIDs : seq[t] <= lastSeq)'
    BY <1>1, <1>4, <2>1, <2>2 DEF StartupAccepts
  <2>5. (\A t, u \in TaskIDs : seq[t] # 0 /\ seq[t] = seq[u] => t = u)'
    BY <1>1, <1>3, <1>4, <2>1, <2>2 DEF StartupAccepts
  <2>6. QED
    BY <2>3, <2>4, <2>5 DEF StartupAccepts
<1>10. CommitFence'
  BY <1>4, <1>5 DEF CommitFence
<1>11. QED
  BY <1>7, <1>8, <1>9, <1>10

LEMMA NextStep == IInv /\ [Next]_stateVars => IInv'
<1> SUFFICES ASSUME IInv, [Next]_stateVars
             PROVE  IInv'
  OBVIOUS
<1>1. CASE UNCHANGED stateVars
  BY <1>1 DEF stateVars, IInv, TypeOK, ReservedOnce, StartupAccepts, RecoverAccepts,
              CommitFence, IsReserved
<1>2. CASE Next
  BY <1>2, EnqueueStep, ClaimNextStep, SetWorkIDStep, CompleteWorkStep, FinalizeStep,
     RequestActionStep, RequestResumeStep, RecoverStep DEF Next, AttemptStep
<1>3. QED
  BY <1>1, <1>2

\* The rows, queue rows and reservations stay consistent under every sequence
\* of the repository's transactions (sqlite.go), for every instance.
THEOREM TaskStateSafe ==
  Spec => [](TypeOK /\ ReservedOnce /\ StartupAccepts /\ CommitFence)
BY InitStep, NextStep, PTL DEF Spec, IInv

\* The rows, the queue and the sessions keep their types, for any number of
\* attempts, crashes and restarts (tasks.go).
THEOREM TypesStay == Spec => []TypeOK
BY TaskStateSafe, PTL

\* The three lines RecoverOnStartup checks are never violated: no process of
\* this code base leaves a library that the next one refuses to open.
THEOREM StartupAlwaysAccepts == Spec => []StartupAccepts
BY TaskStateSafe, PTL

\* Two reserved tasks never share a key or a work.
THEOREM NoDoubleReservation == Spec => []ReservedOnce
BY TaskStateSafe, PTL

\* Whichever of control and completion reached SQLite first decides the
\* terminal status of the attempt.
THEOREM FirstCommitWinsAlways == Spec => FirstCommitWins
<1> DEFINE P == \A t \in TaskIDs :
       tasks[t].status = "running" /\ tasks'[t].status # "running" =>
         /\ tasks[t].committed => tasks'[t].status = "succeeded"
         /\ tasks[t].action = "cancel" => tasks'[t].status = "canceled"
         /\ tasks[t].action = "pause" => tasks'[t].status \in {"paused", "interrupted"}
<1>1. IInv /\ [Next]_stateVars => [P]_stateVars
  <2> SUFFICES ASSUME IInv, Next, NEW t \in TaskIDs,
                      tasks[t].status = "running", tasks'[t].status # "running"
               PROVE  /\ tasks[t].committed => tasks'[t].status = "succeeded"
                      /\ tasks[t].action = "cancel" => tasks'[t].status = "canceled"
                      /\ tasks[t].action = "pause" => tasks'[t].status \in {"paused", "interrupted"}
    OBVIOUS
  <2> USE DEF IInv
  <2>1. tasks[t] \in Row /\ (tasks[t].action # None => ~tasks[t].committed)
    BY RowType DEF CommitFence
  <2>2. ASSUME NEW n \in Attempts, NEW o \in Outcomes, NEW u \in TaskIDs, Finalize(u, n, o)
        PROVE  t = u /\ tasks'[t].status = TerminalStatus(tasks[t], o)
    BY <2>1, <2>2 DEF Finalize, TypeOK, Row
  <2>3. ASSUME RecoverOnStartup
        PROVE  tasks'[t].status = RecoveredStatus(tasks[t])
    BY <2>1, <2>3 DEF RecoverOnStartup, Row
  <2>4. ASSUME NEW u \in TaskIDs, NEW a \in Actions, requestAction(u, a) PROVE FALSE
    <3>1. CASE tasks[u].status = "running"
      BY <2>1, <2>4, <3>1 DEF requestAction, TypeOK, Row
    <3>2. CASE tasks[u].status # "running"
      BY <2>1, <2>4, <3>2 DEF requestAction, TypeOK, Row
    <3>3. QED
      BY <3>1, <3>2
  <2>5. ASSUME NEW u \in TaskIDs,
               \/ ClaimNext(u)
               \/ RequestResume(u)
               \/ \E n \in Attempts, w \in WorkIDs : SetWorkID(u, n, w)
               \/ \E n \in Attempts : CompleteWorkForTask(u, n)
        PROVE  FALSE
    BY <2>1, <2>5 DEF ClaimNext, RequestResume, ResumeApplies, SetWorkID, CompleteWorkForTask,
                 TypeOK, Row
  <2>6. ASSUME NEW reqs \in Batches, NEW ids \in [FreshIndexes(reqs) -> TaskIDs], Enqueue(reqs, ids)
        PROVE  FALSE
    BY <2>6 DEF Enqueue
  <2>7. \E o \in Outcomes : tasks'[t].status \in {TerminalStatus(tasks[t], o), RecoveredStatus(tasks[t])}
    BY <2>2, <2>3, <2>4, <2>5, <2>6 DEF Next, AttemptStep, Outcomes, Statuses
  <2>8. QED
    BY <2>1, <2>7, TerminalFacts
<1>2. QED
  BY <1>1, InitStep, NextStep, PTL DEF Spec, FirstCommitWins
=============================================================================
