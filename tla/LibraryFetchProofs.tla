-------------------------- MODULE LibraryFetchProofs --------------------------
(***************************************************************************)
(* Proofs about LibraryFetch for any episodes, tasks, works and bounds.    *)
(* The task tables keep the invariant of TaskState, although the handlers  *)
(* rewrite the requests; a completed work is readable; a failed save loses *)
(* nothing; and a task that must not skip ends with current bodies.  All   *)
(* rest on what an attempt knows of the work between the storing of its    *)
(* table of contents and the commit (StoringSound, SaveSound).             *)
(***************************************************************************)
EXTENDS LibraryFetch, TaskStateProofs, WellFoundedInduction

Texts == [stamp: Nat, rev: Nat]
BodyRow == [body: {"none", "pending", "failed", "complete"}, stamp: Nat, hash: Texts]
WorkRow == [id: WorkIDs, status: {"partial", "failed", "paused", "canceled", "interrupted",
                                  "complete"}]
Tocs == UNION {[S -> Nat] : S \in SUBSET Episodes}

\* The pcs between the storing of the table of contents and the end.
Storing == {"SetTaskWorkID", "episode", "FetchEpisode", "save", "commit"}
Places == Storing \cup {"idle", "RunTask", "FetchToc", "ListEpisodes", "UpsertWorkToc", "finish"}
Run == [pc: Places, task: TaskIDs \cup {NoTask}, attempt: Nat, work: WorkIDs \cup {NoWork},
        toc: Tocs, skip: SUBSET Episodes, todo: SUBSET Episodes, doc: Texts, before: Texts,
        cause: Signals \cup {None}, err: Signals \cup {"failure", None}]

LibraryTypes ==
  /\ rev \in [Episodes -> Nat \ {0}] /\ listed \subseteq Episodes
  /\ work \in WorkRow \cup {NoWorkRow}
  /\ eps \in [Episodes -> BodyRow] /\ files \in [Episodes -> Texts]
  /\ run \in Run

\* No row of the work, no rows of its episodes.
RowsCascade == work.id = NoWork => \A e \in Episodes : eps[e].body = "none"

\* The executor's task is running, in the executor's attempt.
RunHolds == ~At("idle") => run.task \in TaskIDs /\ IsRunning(run.task, run.attempt)

\* What the attempt has done with an episode that it need not look at again.
Stored(e) == eps[e].body = "complete" /\ files[e] = eps[e].hash
Fresh(e) == files[e] # NoDoc /\ files[e].stamp = run.toc[e]
Handled(e) == Stored(e) /\ (~SkipComplete(Request) => Fresh(e))

\* The work is the one whose table of contents was stored, or was removed
\* since, and the episodes that are not left to do are stored.
StoringSound ==
  run.pc \in Storing =>
    /\ run.work \in WorkIDs
    /\ work.id \in {run.work, NoWork}
    /\ work.id = run.work => work.status = "partial"
    /\ run.todo \subseteq DOMAIN run.toc
    /\ \A e \in Episodes : eps[e].body # "none" => e \in DOMAIN run.toc
    /\ work.id = run.work /\ ~wiped => \A e \in DOMAIN run.toc \ run.todo : Handled(e)

\* A task that must not skip has nothing to skip.
SkipSound ==
  run.pc \in Storing \cup {"UpsertWorkToc"} => (SkipComplete(Request) \/ run.skip = {})

\* The episode on its way, and the file its save replaced.
SaveSound ==
  /\ run.pc \in {"FetchEpisode", "save", "commit"} => run.todo # {}
  /\ run.pc \in {"save", "commit"} => run.doc.stamp = run.toc[Current] /\ run.doc.rev # 0
  /\ InTx =>
       /\ work.id = run.work => files[Current] = run.doc \/ (wiped /\ Current \in torn)
       /\ eps[Current].body = "complete" /\ Current \notin torn =>
            run.before = eps[Current].hash

LibraryInv ==
  /\ LibraryTypes /\ RowsCascade /\ RunHolds /\ StoringSound /\ SkipSound /\ SaveSound
  /\ CompleteIsReadable /\ FailedSaveKeepsBody

LibraryIInv == IInv /\ LibraryInv

USE ConstantsAssumption, LibraryAssumption DEF NoWork, None

-----------------------------------------------------------------------------
(* Helpers                                                                 *)

LEMMA CurrentIsLeft ==
  ASSUME run \in Run, run.todo # {}
  PROVE  Current \in run.todo /\ Current \in Episodes
<1>1. run.todo \subseteq Nat /\ run.todo \subseteq Episodes
  BY DEF Run
<1> DEFINE Less == {ss \in Nat \X Nat : ss[1] < ss[2]}
<1>2. PICK x \in run.todo : \A y \in run.todo : ~ (<<y, x>> \in Less)
  <2>1. IsWellFoundedOn(Less, Nat)
    BY NatLessThanWellFounded DEF OpToRel
  <2> HIDE DEF Less
  <2>2. QED
    BY <1>1, <2>1, WFMin
<1>3. ASSUME NEW y \in run.todo PROVE x <= y
  <2>1. x \in Nat /\ y \in Nat
    BY <1>1
  <2>2. ~ (y < x)
    BY <1>2, <2>1
  <2>3. QED
    BY <2>1, <2>2
<1>4. QED
  BY <1>1, <1>3 DEF Current, Min

LEMMA IdleRunType == IdleRun \in Run
<1>1. <<>> \in [{} -> Nat]
  OBVIOUS
<1>2. <<>> \in Tocs
  BY <1>1 DEF Tocs
<1>3. NoDoc \in Texts
  BY DEF NoDoc, Texts
<1>4. QED
  BY <1>2, <1>3 DEF IdleRun, Run, Places

LEMMA TocOfEpisodes ==
  ASSUME run \in Run
  PROVE  DOMAIN run.toc \subseteq Episodes
BY DEF Run, Tocs

LEMMA RunRow ==
  ASSUME IInv, RunHolds, ~At("idle")
  PROVE  /\ run.task \in TaskIDs /\ tasks[run.task] \in Row
         /\ tasks[run.task].status = "running" /\ tasks[run.task].attempt = run.attempt
         /\ run.attempt \in Attempts
BY RowType DEF IInv, RunHolds, IsRunning, Row

\* A step that stores nothing and neither enters nor leaves a save.
Same(r, s) ==
  /\ r.pc = s.pc /\ r.work = s.work /\ r.toc = s.toc
  /\ r.skip = s.skip /\ r.todo = s.todo /\ r.doc = s.doc /\ r.before = s.before

LEMMA QuietStep ==
  ASSUME LibraryInv, LibraryTypes', RunHolds',
         UNCHANGED <<work, eps, files, wiped, torn>>,
         \/ Same(run', run) /\ (~At("idle") => (SkipComplete(Request)' <=> SkipComplete(Request)))
         \/ run'.pc \notin Storing \cup {"UpsertWorkToc"} /\ ~InTx
  PROVE  LibraryInv'
<1> USE DEF LibraryInv
<1>1. RowsCascade' /\ CompleteIsReadable'
  BY DEF RowsCascade, CompleteIsReadable
<1>2. CASE Same(run', run) /\ (~At("idle") => (SkipComplete(Request)' <=> SkipComplete(Request)))
  <2> USE <1>2 DEF Same
  <2>1. Current' = Current
    BY DEF Current
  <2>2. StoringSound'
    BY DEF StoringSound, Handled, Stored, Fresh, Storing, At
  <2>3. SkipSound'
    BY DEF SkipSound, Storing, At
  <2>4. SaveSound' /\ FailedSaveKeepsBody'
    BY <2>1 DEF SaveSound, FailedSaveKeepsBody, InTx
  <2>5. QED
    BY <1>1, <2>2, <2>3, <2>4
<1>3. CASE run'.pc \notin Storing \cup {"UpsertWorkToc"} /\ ~InTx
  BY <1>1, <1>3 DEF StoringSound, SkipSound, SaveSound, FailedSaveKeepsBody, Storing, InTx
<1>4. QED
  BY <1>2, <1>3

-----------------------------------------------------------------------------
(* The initial states, the site and the handlers                           *)

LEMMA LibraryInitStep == LibraryInit => LibraryIInv
<1> SUFFICES ASSUME LibraryInit PROVE LibraryIInv
  OBVIOUS
<1>1. IInv
  BY InitStep DEF LibraryInit
<1>2. NoDoc \in Texts /\ NoEpisode \in BodyRow
  BY DEF NoDoc, Texts, NoEpisode, BodyRow
<1>3. IdleRun \in Run
  BY IdleRunType
<1>4. LibraryTypes
  BY <1>2, <1>3 DEF LibraryInit, LibraryTypes
<1>5. RowsCascade /\ FailedSaveKeepsBody /\ CompleteIsReadable
  BY DEF LibraryInit, RowsCascade, FailedSaveKeepsBody, CompleteIsReadable, NoEpisode, NoWorkRow
<1>6. RunHolds /\ StoringSound /\ SkipSound /\ SaveSound
  BY DEF LibraryInit, IdleRun, RunHolds, StoringSound, SkipSound, SaveSound, Storing, At, InTx
<1>7. QED
  BY <1>1, <1>4, <1>5, <1>6 DEF LibraryIInv, LibraryInv

LEMMA SiteStep ==
  ASSUME LibraryIInv, NEW e \in Episodes, Revise(e) \/ Relist(e)
  PROVE  LibraryIInv'
<1> USE DEF LibraryIInv
<1>1. UNCHANGED <<stateVars, libraryVars, run, removing, wiped, torn>>
  BY DEF Revise, Relist
<1>2. IInv'
  BY <1>1, NextStep
<1>3. LibraryTypes'
  <2>1. rev' \in [Episodes -> Nat \ {0}]
    BY DEF LibraryInv, LibraryTypes, Revise, Relist
  <2>2. listed' \subseteq Episodes
    BY DEF LibraryInv, LibraryTypes, Revise, Relist
  <2>3. QED
    BY <1>1, <2>1, <2>2 DEF LibraryInv, LibraryTypes, libraryVars
<1>4. RunHolds' /\ (SkipComplete(Request)' <=> SkipComplete(Request))
  BY <1>1 DEF LibraryInv, RunHolds, IsRunning, stateVars, At, SkipComplete, Request
<1>5. LibraryInv'
  BY <1>1, <1>3, <1>4, QuietStep DEF Same, libraryVars
<1>6. QED
  BY <1>2, <1>5

\* A transaction on the task tables that leaves the row of the executor's
\* task running, with the same request.
LEMMA TasksStep ==
  ASSUME LibraryIInv, IInv', UNCHANGED <<siteVars, libraryVars, run, wiped, torn>>,
         ~At("idle") => /\ tasks'[run.task].status = "running"
                        /\ tasks'[run.task].attempt = tasks[run.task].attempt
                        /\ tasks'[run.task].req = tasks[run.task].req
  PROVE  LibraryIInv'
<1> USE DEF LibraryIInv
<1>1. LibraryTypes'
  BY DEF LibraryInv, LibraryTypes, libraryVars, siteVars
<1>2. RunHolds'
  BY DEF LibraryInv, RunHolds, IsRunning, At
<1>3. ~At("idle") => (SkipComplete(Request)' <=> SkipComplete(Request))
  BY DEF SkipComplete, Request
<1>4. LibraryInv'
  BY <1>1, <1>2, <1>3, QuietStep DEF Same, libraryVars
<1>5. QED
  BY <1>4

LEMMA HandleEnqueueStep ==
  ASSUME LibraryIInv, NEW b \in Batches, HandleEnqueue(b[1])
  PROVE  LibraryIInv'
<1> USE DEF LibraryIInv
<1> DEFINE bound == [b[1] EXCEPT !.work = work.id]
<1>1. b[1] \in Requests
  <2>1. b \in Seq(Requests) /\ Len(b) = 1
    OBVIOUS
  <2>2. QED
    BY <2>1
<1>2. work.id \in WorkIDs \cup {NoWork}
  BY DEF LibraryInv, LibraryTypes, WorkRow, NoWorkRow
<1>3. bound \in Requests
  BY <1>1, <1>2 DEF HandleEnqueue, Requests
<1>4. PICK ids \in [FreshIndexes(<<bound>>) -> TaskIDs] : Enqueue(<<bound>>, ids)
  BY DEF HandleEnqueue
<1>5. <<bound>> \in Seq(Requests)
  BY <1>3
<1>6. IInv'
  BY <1>4, <1>5, EnqueueStep
<1>7. ~At("idle") => tasks'[run.task] = tasks[run.task]
  BY <1>4, RunRow DEF LibraryInv, Enqueue
<1>8. QED
  BY <1>6, <1>7, RunRow, TasksStep DEF LibraryInv, HandleEnqueue

LEMMA HandleStep ==
  ASSUME LibraryIInv, NEW t \in TaskIDs, HandleResume(t) \/ \E a \in Actions : HandleControl(t, a)
  PROVE  LibraryIInv'
<1> USE DEF LibraryIInv
<1>1. UNCHANGED <<siteVars, libraryVars, run, wiped, torn>>
  BY DEF HandleResume, HandleControl
<1>2. CASE HandleResume(t)
  <2>1. RequestResume(t) /\ tasks[t].status # "running"
    BY <1>2 DEF HandleResume, RequestResume, ResumeApplies
  <2>2. IInv'
    BY <2>1, RequestResumeStep
  <2>3. ~At("idle") => tasks'[run.task] = tasks[run.task]
    BY <2>1, RunRow DEF LibraryInv, RequestResume, IInv, TypeOK
  <2>4. QED
    BY <1>1, <2>2, <2>3, RunRow, TasksStep DEF LibraryInv
<1>3. ASSUME NEW a \in Actions, HandleControl(t, a)
      PROVE  LibraryIInv'
  <2>1. requestAction(t, a) /\ tasks[t].status # "running"
    BY <1>3 DEF HandleControl
  <2>2. IInv'
    BY <2>1, RequestActionStep
  <2>3. ~At("idle") => tasks'[run.task] = tasks[run.task]
    BY <2>1, RunRow DEF LibraryInv, requestAction, IInv, TypeOK
  <2>4. QED
    BY <1>1, <2>2, <2>3, RunRow, TasksStep DEF LibraryInv
<1>4. QED
  BY <1>2, <1>3

LEMMA RemoveRowStep ==
  ASSUME LibraryIInv, NEW withFiles \in BOOLEAN, RemoveRow(withFiles)
  PROVE  LibraryIInv'
<1> USE DEF LibraryIInv, LibraryInv, RemoveRow
<1>1. IInv'
  BY NextStep
<1>2. NoEpisode \in BodyRow
  BY DEF NoDoc, Texts, NoEpisode, BodyRow
<1>3. LibraryTypes'
  BY <1>2 DEF LibraryTypes, siteVars
<1>4. work'.id = NoWork /\ work'.status = "none" /\ \A e \in Episodes : eps'[e].body = "none"
  BY DEF NoWorkRow, NoEpisode
<1>5. RowsCascade' /\ CompleteIsReadable' /\ FailedSaveKeepsBody'
  BY <1>4 DEF RowsCascade, CompleteIsReadable, FailedSaveKeepsBody
<1>6. RunHolds' /\ SkipSound'
  BY DEF RunHolds, SkipSound, At, IsRunning, stateVars, SkipComplete, Request
<1>7. StoringSound'
  BY <1>4 DEF StoringSound
<1>8. SaveSound'
  BY DEF SaveSound, InTx, Current
<1>9. QED
  BY <1>1, <1>3, <1>5, <1>6, <1>7, <1>8

LEMMA RemoveFilesStep ==
  ASSUME LibraryIInv, RemoveFiles
  PROVE  LibraryIInv'
<1> USE DEF LibraryIInv, LibraryInv, RemoveFiles
<1>1. IInv'
  BY NextStep
<1>2. LibraryTypes'
  <2>1. NoDoc \in Texts
    BY DEF NoDoc, Texts
  <2>2. QED
    BY <2>1 DEF LibraryTypes, siteVars
<1>3. RunHolds' /\ SkipSound'
  BY DEF RunHolds, SkipSound, At, IsRunning, stateVars, SkipComplete, Request
<1>4. CASE work.id # NoWork
  <2>1. wiped' /\ torn' = Episodes
    BY <1>4
  <2>2. RowsCascade' /\ CompleteIsReadable' /\ FailedSaveKeepsBody'
    BY <1>4, <2>1 DEF RowsCascade, CompleteIsReadable, FailedSaveKeepsBody
  <2>3. StoringSound'
    BY <2>1 DEF StoringSound
  <2>4. SaveSound'
    <3>1. InTx => Current \in Episodes
      BY CurrentIsLeft DEF SaveSound, LibraryTypes, InTx
    <3>2. QED
      BY <2>1, <3>1 DEF SaveSound, InTx, Current
  <2>5. QED
    BY <1>1, <1>2, <1>3, <2>2, <2>3, <2>4
<1>5. CASE work.id = NoWork
  <2>1. \A e \in Episodes : eps[e].body = "none"
    BY <1>5 DEF RowsCascade
  <2>2. work.status = "none"
    BY <1>5 DEF LibraryTypes, WorkRow, NoWorkRow
  <2>3. RowsCascade' /\ CompleteIsReadable' /\ FailedSaveKeepsBody'
    BY <2>1 DEF RowsCascade, CompleteIsReadable, FailedSaveKeepsBody
  <2>4. StoringSound'
    BY <1>5, <2>1 DEF StoringSound
  <2>5. SaveSound'
    <3>1. InTx => Current \in Episodes /\ run.work # NoWork
      BY CurrentIsLeft DEF SaveSound, LibraryTypes, InTx, StoringSound, Storing
    <3>2. QED
      BY <1>5, <2>1, <3>1 DEF SaveSound, InTx, Current
  <2>6. QED
    BY <1>1, <1>2, <1>3, <2>3, <2>4, <2>5
<1>6. QED
  BY <1>4, <1>5

-----------------------------------------------------------------------------
(* The attempt, up to the table of contents                                *)

LEMMA ClaimStep ==
  ASSUME LibraryIInv, NEW t \in TaskIDs, Claim(t)
  PROVE  LibraryIInv'
<1> USE DEF LibraryIInv
<1>1. ClaimNext(t) /\ At("idle")
      /\ run' = [IdleRun EXCEPT !.pc = "RunTask", !.task = t, !.attempt = tasks[t].attempt + 1]
      /\ UNCHANGED <<siteVars, libraryVars, wiped, torn>>
  BY DEF Claim
<1>2. IInv'
  BY <1>1, ClaimNextStep
<1>3. tasks[t] \in Row
  BY <1>1, RowType DEF IInv, ClaimNext
<1>4. run' \in Run
  <2>1. IdleRun \in Run
    BY IdleRunType
  <2>2. tasks[t].attempt + 1 \in Nat
    BY <1>3 DEF Row, Attempts
  <2>3. QED
    BY <1>1, <2>1, <2>2 DEF Run, Places
<1>5. LibraryTypes'
  BY <1>1, <1>4 DEF LibraryInv, LibraryTypes, libraryVars, siteVars
<1>6. run'.pc = "RunTask" /\ run'.task = t /\ run'.attempt = tasks[t].attempt + 1
  BY <1>1 DEF IdleRun
<1>7. RunHolds'
  BY <1>1, <1>3, <1>6 DEF RunHolds, IsRunning, ClaimNext, IInv, TypeOK, Row
<1>8. LibraryInv'
  BY <1>1, <1>5, <1>6, <1>7, QuietStep DEF libraryVars, Storing, At, InTx
<1>9. QED
  BY <1>2, <1>8

\* A step of the executor alone that does not store anything.
LEMMA LeaveStep ==
  ASSUME LibraryIInv, UNCHANGED <<stateVars, siteVars, work, eps, files, wiped, torn>>,
         run' \in Run, run'.task = run.task, run'.attempt = run.attempt,
         ~At("idle"), ~InTx, run'.pc \notin Storing \cup {"UpsertWorkToc"}
  PROVE  LibraryIInv'
<1> USE DEF LibraryIInv
<1>1. IInv'
  BY NextStep
<1>2. LibraryTypes'
  BY DEF LibraryInv, LibraryTypes, siteVars
<1>3. RunHolds'
  BY DEF LibraryInv, RunHolds, IsRunning, stateVars, At
<1>4. LibraryInv'
  BY <1>2, <1>3, QuietStep
<1>5. QED
  BY <1>1, <1>4

LEMMA ReturnType ==
  ASSUME run \in Run, NEW e \in Signals \cup {"failure", None}, Return(e)
  PROVE  /\ run' \in Run /\ run'.pc = "finish"
         /\ run'.task = run.task /\ run'.attempt = run.attempt
BY DEF Run, Return, Places

LEMMA FindWorkStep ==
  ASSUME LibraryIInv, FindWork
  PROVE  LibraryIInv'
<1>1. run \in Run
  BY DEF LibraryIInv, LibraryInv, LibraryTypes
<1>2. CASE Return("failure")
  BY <1>1, <1>2, ReturnType, LeaveStep DEF FindWork, At, InTx, Storing, libraryVars
<1>3. CASE run' = [run EXCEPT !.pc = "FetchToc"]
  <2>1. run' \in Run
    BY <1>1, <1>3 DEF Run, Places
  <2>2. run'.pc = "FetchToc" /\ run'.task = run.task /\ run'.attempt = run.attempt
    BY <1>1, <1>3 DEF Run
  <2>3. QED
    BY <2>1, <2>2, LeaveStep DEF FindWork, At, InTx, Storing, libraryVars
<1>4. QED
  BY <1>2, <1>3 DEF FindWork

LEMMA FetchTocStep ==
  ASSUME LibraryIInv, FetchToc
  PROVE  LibraryIInv'
<1> DEFINE seen == [e \in listed |-> Stamp(e)]
<1>1. run \in Run /\ listed \subseteq Episodes /\ rev \in [Episodes -> Nat \ {0}]
  BY DEF LibraryIInv, LibraryInv, LibraryTypes
<1>2. seen \in Tocs
  <2>1. seen \in [listed -> Nat]
    BY <1>1 DEF Stamp
  <2>2. QED
    BY <1>1, <2>1 DEF Tocs
<1>3. run' = [run EXCEPT !.pc = "ListEpisodes", !.toc = seen]
  BY DEF FetchToc
<1> HIDE DEF seen
<1>4. run' \in Run /\ run'.pc = "ListEpisodes" /\ run'.task = run.task
      /\ run'.attempt = run.attempt
  BY <1>1, <1>2, <1>3 DEF Run, Places
<1>5. QED
  BY <1>4, LeaveStep DEF FetchToc, At, InTx, Storing, libraryVars

LEMMA FailStep ==
  ASSUME LibraryIInv, Fail
  PROVE  LibraryIInv'
<1>1. run \in Run
  BY DEF LibraryIInv, LibraryInv, LibraryTypes
<1>2. QED
  BY <1>1, ReturnType, LeaveStep DEF Fail, At, InTx, Storing, libraryVars

LEMMA SignalStep ==
  ASSUME LibraryIInv, NEW s \in Signals, Signal(s)
  PROVE  LibraryIInv'
<1> USE DEF LibraryIInv
<1>1. IInv'
  BY NextStep DEF Signal
<1>2. run' = [run EXCEPT !.cause = s] /\ run \in Run
  BY DEF Signal, LibraryInv, LibraryTypes
<1>3. run' \in Run /\ Same(run', run) /\ run'.task = run.task /\ run'.attempt = run.attempt
  BY <1>2 DEF Run, Same
<1>4. LibraryTypes'
  BY <1>3 DEF Signal, LibraryInv, LibraryTypes, siteVars, libraryVars
<1>5. RunHolds' /\ (SkipComplete(Request)' <=> SkipComplete(Request))
  BY <1>3 DEF Signal, LibraryInv, RunHolds, IsRunning, stateVars, At, SkipComplete, Request, Same
<1>6. LibraryInv'
  BY <1>3, <1>4, <1>5, QuietStep DEF Signal, libraryVars
<1>7. QED
  BY <1>1, <1>6

LEMMA ListPreviousStep ==
  ASSUME LibraryIInv, ListPrevious
  PROVE  LibraryIInv'
<1> USE DEF LibraryIInv, LibraryInv
<1> DEFINE skips == {e \in Episodes :
                       /\ SkipComplete(Request)
                       /\ Request.kind = "download" \/ work.id = Request.work
                       /\ EpisodeCanBeSkipped(eps[e], run.toc, e)}
<1>1. IInv'
  BY NextStep DEF ListPrevious
<1>2. run \in Run /\ run' = [run EXCEPT !.pc = "UpsertWorkToc", !.skip = skips] /\ At("ListEpisodes")
  BY DEF ListPrevious, LibraryTypes
<1>3. skips \in SUBSET Episodes /\ (SkipComplete(Request) \/ skips = {})
  OBVIOUS
<1> HIDE DEF skips
<1>4. run' \in Run /\ run'.pc = "UpsertWorkToc" /\ run'.task = run.task
      /\ run'.attempt = run.attempt /\ run'.skip = skips
  BY <1>2, <1>3 DEF Run, Places
<1>5. LibraryTypes'
  BY <1>4 DEF ListPrevious, LibraryTypes, siteVars, libraryVars
<1>6. RunHolds' /\ (SkipComplete(Request)' <=> SkipComplete(Request))
  BY <1>2, <1>4 DEF ListPrevious, RunHolds, IsRunning, stateVars, At, SkipComplete, Request
<1>7. RowsCascade' /\ CompleteIsReadable'
  BY DEF ListPrevious, libraryVars, RowsCascade, CompleteIsReadable
<1>8. FailedSaveKeepsBody'
  BY <1>2, <1>4 DEF ListPrevious, libraryVars, FailedSaveKeepsBody, InTx, At
<1>9. StoringSound' /\ SaveSound'
  BY <1>4 DEF StoringSound, SaveSound, Storing, InTx
<1>10. SkipSound'
  BY <1>3, <1>4, <1>6 DEF SkipSound
<1>11. QED
  BY <1>1, <1>5, <1>6, <1>7, <1>8, <1>9, <1>10

LEMMA UpsertWorkTocStep ==
  ASSUME LibraryIInv, UpsertWorkToc
  PROVE  LibraryIInv'
<1> USE DEF LibraryIInv, LibraryInv
<1> DEFINE toc == run.toc
           id == IF work.id # NoWork THEN work.id ELSE lastWork + 1
           gone == {e \in Episodes : eps[e].body # "none" /\ e \notin DOMAIN toc}
           next == IF Request.kind = "download" THEN "SetTaskWorkID" ELSE "episode"
<1>1. IInv'
  BY NextStep DEF UpsertWorkToc
<1>2. /\ run \in Run /\ At("UpsertWorkToc") /\ id \in WorkIDs /\ wiped' = FALSE
      /\ work' = [id |-> id, status |-> "partial"]
      /\ run' = [run EXCEPT !.pc = next, !.work = id, !.todo = DOMAIN toc]
      /\ UNCHANGED <<stateVars, siteVars, torn>>
  BY DEF UpsertWorkToc, LibraryTypes
<1>3. eps' = [e \in Episodes |->
         IF e \notin DOMAIN toc THEN NoEpisode
         ELSE IF eps[e].body = "none" THEN [NoEpisode EXCEPT !.body = "pending", !.stamp = toc[e]]
         ELSE [eps[e] EXCEPT !.stamp = toc[e]]]
  BY DEF UpsertWorkToc
<1>4. PICK kept \in SUBSET gone :
        files' = [e \in Episodes |-> IF e \in gone \ kept THEN NoDoc ELSE files[e]]
  BY DEF UpsertWorkToc
<1>5. DOMAIN toc \subseteq Episodes /\ \A e \in DOMAIN toc : toc[e] \in Nat
  BY <1>2 DEF Run, Tocs
<1>6. \A e \in Episodes :
        /\ eps'[e].body # "none" => e \in DOMAIN toc
        /\ eps'[e].body = "complete" =>
             eps[e].body = "complete" /\ eps'[e].hash = eps[e].hash /\ files'[e] = files[e]
  BY <1>3, <1>4 DEF LibraryTypes, BodyRow, NoEpisode
<1>7. eps' \in [Episodes -> BodyRow] /\ files' \in [Episodes -> Texts]
  <2>1. NoDoc \in Texts /\ NoEpisode \in BodyRow
    BY DEF NoDoc, Texts, NoEpisode, BodyRow
  <2>2. QED
    BY <1>3, <1>4, <1>5, <2>1 DEF LibraryTypes, BodyRow
<1>8. next \in Storing /\ next \notin {"FetchEpisode", "save", "commit"}
  BY DEF Storing
<1> HIDE DEF id, toc, gone, next
<1>9. run' \in Run /\ run'.pc = next /\ run'.task = run.task /\ run'.attempt = run.attempt
      /\ run'.skip = run.skip /\ run'.work = id /\ run'.todo = DOMAIN toc
      /\ run'.toc = run.toc
  BY <1>2, <1>5, <1>8 DEF Run, Places
<1>10. LibraryTypes'
  BY <1>2, <1>7, <1>9 DEF LibraryTypes, WorkRow, siteVars
<1>11. RunHolds' /\ (SkipComplete(Request)' <=> SkipComplete(Request))
  BY <1>2, <1>9 DEF RunHolds, IsRunning, stateVars, At, SkipComplete, Request
<1>12. RowsCascade' /\ CompleteIsReadable'
  BY <1>2 DEF RowsCascade, CompleteIsReadable
<1>13. FailedSaveKeepsBody'
  BY <1>2, <1>6 DEF FailedSaveKeepsBody, InTx, At
<1>14. StoringSound'
  BY <1>2, <1>6, <1>9 DEF StoringSound, toc
<1>15. SkipSound'
  BY <1>2, <1>9, <1>11 DEF SkipSound, At
<1>16. SaveSound'
  BY <1>8, <1>9 DEF SaveSound, InTx
<1>17. QED
  BY <1>1, <1>10, <1>11, <1>12, <1>13, <1>14, <1>15, <1>16

LEMMA SetTaskWorkIDStep ==
  ASSUME LibraryIInv, SetTaskWorkID
  PROVE  LibraryIInv'
<1> USE DEF LibraryIInv, LibraryInv
<1>1. run \in Run /\ At("SetTaskWorkID") /\ UNCHANGED <<siteVars, libraryVars, wiped, torn>>
  BY DEF SetTaskWorkID, LibraryTypes
<1>2. CASE Return("failure") /\ UNCHANGED stateVars
  BY <1>1, <1>2, ReturnType, LeaveStep DEF At, InTx, Storing, libraryVars
<1>3. CASE SetWorkID(run.task, run.attempt, run.work) /\ run' = [run EXCEPT !.pc = "episode"]
  <2>1. run.work \in WorkIDs
    BY <1>1 DEF StoringSound, Storing, At
  <2>2. /\ run.task \in TaskIDs /\ run.attempt \in Attempts
        /\ tasks[run.task] \in Row /\ tasks[run.task].status = "running"
    BY <1>1, RunRow DEF At
  <2>3. IInv'
    BY <1>3, <2>1, <2>2, SetWorkIDStep
  <2>4. /\ run' \in Run /\ run'.pc = "episode" /\ run'.task = run.task
        /\ run'.attempt = run.attempt /\ run'.work = run.work /\ run'.toc = run.toc
        /\ run'.skip = run.skip /\ run'.todo = run.todo
    BY <1>1, <1>3 DEF Run, Places, Storing
  <2>5. /\ tasks'[run.task].status = "running"
        /\ tasks'[run.task].attempt = tasks[run.task].attempt
        /\ tasks'[run.task].req.kind = tasks[run.task].req.kind
        /\ tasks'[run.task].req.opts = tasks[run.task].req.opts
    BY <1>3, <2>2 DEF SetWorkID, IInv, TypeOK, Row, Requests
  <2>6. LibraryTypes' /\ RowsCascade' /\ CompleteIsReadable'
    BY <1>1, <2>4 DEF LibraryTypes, RowsCascade, CompleteIsReadable, siteVars, libraryVars
  <2>7. RunHolds' /\ (SkipComplete(Request)' <=> SkipComplete(Request))
    BY <1>1, <2>2, <2>4, <2>5 DEF RunHolds, IsRunning, At, SkipComplete, Request
  <2>8. FailedSaveKeepsBody' /\ SaveSound'
    BY <1>1, <2>4 DEF FailedSaveKeepsBody, SaveSound, InTx, At, libraryVars
  <2>9. StoringSound' /\ SkipSound'
    BY <1>1, <2>4, <2>7 DEF StoringSound, SkipSound, Handled, Stored, Fresh, Storing, At, libraryVars
  <2>10. QED
    BY <2>3, <2>6, <2>7, <2>8, <2>9
<1>4. QED
  BY <1>2, <1>3 DEF SetTaskWorkID

-----------------------------------------------------------------------------
(* One episode after the other                                             *)

\* What a step from one storing place to the next leaves as it was.
Kept ==
  /\ run' \in Run /\ run'.task = run.task /\ run'.attempt = run.attempt
  /\ run'.work = run.work /\ run'.toc = run.toc /\ run'.skip = run.skip
  /\ UNCHANGED <<stateVars, siteVars, work, wiped>>

LEMMA KeptStep ==
  ASSUME LibraryIInv, run.pc \in Storing, Kept
  PROVE  /\ IInv' /\ RunHolds' /\ SkipSound' /\ CompleteIsReadable'
         /\ (SkipComplete(Request)' <=> SkipComplete(Request))
<1> USE DEF LibraryIInv, LibraryInv, Kept
<1>1. IInv'
  BY NextStep
<1>2. RunHolds' /\ (SkipComplete(Request)' <=> SkipComplete(Request))
  BY DEF RunHolds, IsRunning, stateVars, At, SkipComplete, Request, Storing
<1>3. SkipSound'
  BY <1>2 DEF SkipSound
<1>4. work'.status # "complete"
  BY DEF StoringSound, LibraryTypes, WorkRow, NoWorkRow
<1>5. CompleteIsReadable'
  BY <1>4 DEF CompleteIsReadable
<1>6. QED
  BY <1>1, <1>2, <1>3, <1>5

LEMMA AdvanceFacts ==
  ASSUME run \in Run, Advance
  PROVE  /\ run' \in Run /\ run'.pc = "episode" /\ run'.todo = run.todo \ {Current}
         /\ run'.task = run.task /\ run'.attempt = run.attempt
         /\ run'.work = run.work /\ run'.toc = run.toc /\ run'.skip = run.skip
<1>1. NoDoc \in Texts
  BY DEF NoDoc, Texts
<1>2. QED
  BY <1>1 DEF Advance, Run, Places, Storing

LEMMA CheckEpisodeStep ==
  ASSUME LibraryIInv, CheckEpisode
  PROVE  LibraryIInv'
<1> USE DEF LibraryIInv, LibraryInv
<1>1. /\ run \in Run /\ At("episode") /\ run.todo # {} /\ run.pc \in Storing
      /\ UNCHANGED <<stateVars, siteVars, work, eps, files, wiped, torn>>
  BY DEF CheckEpisode, LibraryTypes, At, Storing
<1>2. Current \in run.todo /\ Current \in Episodes
  BY <1>1, CurrentIsLeft
<1>3. CASE /\ Advance
           /\ \/ CheckpointValid(Current)
              \/ Current \in run.skip /\ CanRecord(Current)
  <2>1. Kept /\ run'.pc = "episode" /\ run'.todo = run.todo \ {Current}
    BY <1>1, <1>3, AdvanceFacts DEF Kept
  <2>2. work.id = run.work => Handled(Current)
    <3> SUFFICES ASSUME work.id = run.work PROVE Handled(Current)
      OBVIOUS
    <3>1. CASE CheckpointValid(Current)
      BY <3>1 DEF CheckpointValid, StoredRow, FileIsStored, Handled, Stored, Fresh
    <3>2. CASE Current \in run.skip /\ CanRecord(Current)
      BY <1>1, <3>2 DEF CanRecord, StoredRow, FileIsStored, Handled, Stored, SkipSound
    <3>3. QED
      BY <1>3, <3>1, <3>2
  <2>3. LibraryTypes' /\ RowsCascade'
    BY <1>1, <2>1 DEF LibraryTypes, RowsCascade, Kept, siteVars
  <2>4. FailedSaveKeepsBody' /\ SaveSound'
    BY <1>1, <2>1 DEF FailedSaveKeepsBody, SaveSound, InTx, At
  <2>5. StoringSound'
    BY <1>1, <2>1, <2>2, KeptStep DEF StoringSound, Handled, Stored, Fresh, Kept
  <2>6. QED
    BY <1>1, <2>1, <2>3, <2>4, <2>5, KeptStep
<1>4. CASE run' = [run EXCEPT !.pc = "FetchEpisode"]
  <2>1. Kept /\ run'.pc = "FetchEpisode" /\ run'.todo = run.todo
    BY <1>1, <1>4 DEF Kept, Run, Places, Storing
  <2>2. LibraryTypes' /\ RowsCascade'
    BY <1>1, <2>1 DEF LibraryTypes, RowsCascade, Kept, siteVars
  <2>3. FailedSaveKeepsBody' /\ SaveSound'
    BY <1>1, <2>1 DEF FailedSaveKeepsBody, SaveSound, InTx, At
  <2>4. StoringSound'
    BY <1>1, <2>1, KeptStep DEF StoringSound, Handled, Stored, Fresh, Kept
  <2>5. QED
    BY <1>1, <2>1, <2>2, <2>3, <2>4, KeptStep
<1>5. QED
  BY <1>3, <1>4 DEF CheckEpisode

LEMMA FetchEpisodeStep ==
  ASSUME LibraryIInv, FetchEpisode
  PROVE  LibraryIInv'
<1> USE DEF LibraryIInv, LibraryInv
<1> DEFINE doc == [stamp |-> run.toc[Current], rev |-> rev[Current]]
<1>1. /\ run \in Run /\ At("FetchEpisode") /\ run.pc \in Storing
      /\ run' = [run EXCEPT !.pc = "save", !.doc = doc]
      /\ UNCHANGED <<stateVars, siteVars, work, eps, files, wiped, torn>>
  BY DEF FetchEpisode, LibraryTypes, At, Storing, libraryVars
<1>2. Current \in run.todo /\ Current \in Episodes /\ run.todo \subseteq DOMAIN run.toc
  BY <1>1, CurrentIsLeft DEF SaveSound, StoringSound, At
<1>3. doc \in Texts /\ doc.rev # 0 /\ doc.stamp = run.toc[Current]
  <2>1. run.toc[Current] \in Nat
    BY <1>1, <1>2 DEF Run, Tocs
  <2>2. rev[Current] \in Nat \ {0}
    BY <1>2 DEF LibraryTypes
  <2>3. QED
    BY <2>1, <2>2 DEF Texts
<1> HIDE DEF doc
<1>4. Kept /\ run'.pc = "save" /\ run'.todo = run.todo /\ run'.doc = doc
  BY <1>1, <1>3 DEF Kept, Run, Places, Storing
<1>5. LibraryTypes' /\ RowsCascade'
  BY <1>1, <1>4 DEF LibraryTypes, RowsCascade, Kept, siteVars
<1>6. FailedSaveKeepsBody'
  BY <1>1, <1>4 DEF FailedSaveKeepsBody, InTx, At
<1>7. SaveSound'
  BY <1>2, <1>3, <1>4 DEF SaveSound, InTx, Current, Kept
<1>8. StoringSound'
  BY <1>1, <1>4, KeptStep DEF StoringSound, Handled, Stored, Fresh, Kept
<1>9. QED
  BY <1>1, <1>4, <1>5, <1>6, <1>7, <1>8, KeptStep

LEMMA SaveWriteStep ==
  ASSUME LibraryIInv, SaveWrite
  PROVE  LibraryIInv'
<1> USE DEF LibraryIInv, LibraryInv
<1>1. /\ run \in Run /\ At("save") /\ run.pc \in Storing
      /\ files' = [files EXCEPT ![Current] = run.doc]
      /\ run' = [run EXCEPT !.pc = "commit", !.before = files[Current]]
      /\ UNCHANGED <<stateVars, siteVars, work, eps, wiped, torn>>
  BY DEF SaveWrite, LibraryTypes, At, Storing
<1>2. Current \in run.todo /\ Current \in Episodes
  BY <1>1, CurrentIsLeft DEF SaveSound, At
<1>3. files \in [Episodes -> Texts] /\ run.doc \in Texts
  BY <1>1 DEF LibraryTypes, Run
<1>4. /\ Kept /\ run'.pc = "commit" /\ run'.todo = run.todo /\ run'.doc = run.doc
      /\ run'.before = files[Current]
  BY <1>1, <1>2, <1>3 DEF Kept, Run, Places, Storing
<1>5. Current' = Current
  BY <1>4 DEF Current
<1>6. files' \in [Episodes -> Texts] /\ files'[Current] = run.doc
      /\ \A e \in Episodes \ {Current} : files'[e] = files[e]
  BY <1>1, <1>2, <1>3
<1>7. LibraryTypes' /\ RowsCascade'
  BY <1>1, <1>4, <1>6 DEF LibraryTypes, RowsCascade, Kept, siteVars
<1>8. FailedSaveKeepsBody'
  BY <1>1, <1>4, <1>5, <1>6 DEF FailedSaveKeepsBody, InTx, At
<1>9. SaveSound'
  <2>1. eps[Current].body = "complete" /\ Current \notin torn => files[Current] = eps[Current].hash
    BY <1>1, <1>2 DEF FailedSaveKeepsBody, InTx, At
  <2>2. QED
    BY <1>1, <1>2, <1>4, <1>5, <1>6, <2>1 DEF SaveSound, InTx, At, Kept
<1>10. StoringSound'
  <2>1. \A e \in DOMAIN run.toc \ run.todo : e \in Episodes \ {Current}
    BY <1>1, <1>2 DEF Run, Tocs
  <2>2. QED
    BY <1>1, <1>4, <1>6, <2>1, KeptStep DEF StoringSound, Handled, Stored, Fresh, Kept
<1>11. QED
  BY <1>1, <1>4, <1>7, <1>8, <1>9, <1>10, KeptStep

LEMMA SaveCommitStep ==
  ASSUME LibraryIInv, SaveCommit
  PROVE  LibraryIInv'
<1> USE DEF LibraryIInv, LibraryInv
<1> DEFINE row == [body |-> "complete", stamp |-> run.doc.stamp, hash |-> run.doc]
<1>1. /\ run \in Run /\ InTx /\ run.pc \in Storing /\ SaveAllowed /\ Advance
      /\ eps' = [eps EXCEPT ![Current] = row]
      /\ torn' = IF files[Current] = run.doc THEN torn \ {Current} ELSE torn
      /\ UNCHANGED <<stateVars, siteVars, work, files, wiped>>
  BY DEF SaveCommit, LibraryTypes, At, InTx, Storing
<1>2. Current \in run.todo /\ Current \in Episodes /\ Current \in DOMAIN run.toc
  BY <1>1, CurrentIsLeft DEF SaveSound, StoringSound, InTx
<1>3. row \in BodyRow /\ row.body = "complete" /\ row.hash = run.doc
  BY <1>1 DEF Run, BodyRow, Texts
<1> HIDE DEF row
<1>4. Kept /\ run'.pc = "episode" /\ run'.todo = run.todo \ {Current}
  BY <1>1, AdvanceFacts DEF Kept
<1>5. /\ eps' \in [Episodes -> BodyRow] /\ eps'[Current] = row
      /\ \A e \in Episodes \ {Current} : eps'[e] = eps[e]
  BY <1>1, <1>2, <1>3 DEF LibraryTypes
<1>6. files[Current] = run.doc \/ (wiped /\ Current \in torn)
  BY <1>1 DEF SaveSound, SaveAllowed
<1>7. LibraryTypes'
  BY <1>1, <1>4, <1>5 DEF LibraryTypes, Kept, siteVars
<1>8. RowsCascade'
  BY <1>1 DEF RowsCascade, SaveAllowed, StoringSound
<1>9. FailedSaveKeepsBody'
  BY <1>1, <1>3, <1>4, <1>5, <1>6 DEF FailedSaveKeepsBody, InTx
<1>10. SaveSound'
  BY <1>4 DEF SaveSound, InTx
<1>11. StoringSound'
  <2>1. run.doc # NoDoc /\ run.doc.stamp = run.toc[Current]
    BY <1>1 DEF SaveSound, InTx, NoDoc
  <2>2. PICK saved \in Episodes : saved = Current
    BY <1>2
  <2>3. ~wiped => Handled(saved)'
    BY <1>1, <1>3, <1>4, <1>5, <1>6, <2>1, <2>2 DEF Handled, Stored, Fresh, Kept
  <2>4. \A e \in DOMAIN run.toc \ run.todo : e \in Episodes \ {saved}
    <3>1. DOMAIN run.toc \subseteq Episodes
      BY <1>1, TocOfEpisodes
    <3>2. saved \in run.todo
      BY <1>2, <2>2
    <3>3. QED
      BY <3>1, <3>2
  <2>5. ASSUME work.id = run.work, ~wiped, NEW e \in DOMAIN run.toc \ run.todo
        PROVE  Handled(e)'
    BY <1>1, <1>4, <1>5, <2>2, <2>4, <2>5, KeptStep
    DEF StoringSound, Handled, Stored, Fresh, Kept
  <2>6. QED
    BY <1>1, <1>2, <1>4, <1>5, <2>2, <2>3, <2>5 DEF StoringSound, Kept
<1>12. QED
  BY <1>1, <1>4, <1>7, <1>8, <1>9, <1>10, <1>11, KeptStep

-----------------------------------------------------------------------------
(* The end of the attempt                                                  *)

LEMMA RolledBackFacts ==
  ASSUME LibraryInv, run.pc \in Storing
  PROVE  /\ RolledBack \in [Episodes -> Texts]
         /\ ~InTx => RolledBack = files
         /\ \A e \in Episodes : eps[e].body = "complete" /\ e \notin torn => RolledBack[e] = eps[e].hash
<1> USE DEF LibraryInv
<1>1. run \in Run /\ files \in [Episodes -> Texts] /\ run.before \in Texts
  BY DEF LibraryTypes, Run
<1>2. CASE InTx
  <2>1. Current \in Episodes
    BY <1>1, <1>2, CurrentIsLeft DEF SaveSound, InTx
  <2>2. RolledBack = [files EXCEPT ![Current] = run.before]
    BY <1>2 DEF RolledBack, InTx, At
  <2>3. QED
    BY <1>1, <1>2, <2>1, <2>2 DEF SaveSound, FailedSaveKeepsBody
<1>3. CASE ~InTx
  <2>1. RolledBack = files
    BY <1>3 DEF RolledBack, InTx, At
  <2>2. QED
    BY <1>1, <1>3, <2>1 DEF FailedSaveKeepsBody
<1>4. QED
  BY <1>2, <1>3

\* The attempt returns from a storing place; the work gets a status that is
\* not complete, a failed episode at most loses that it was pending.
LEMMA ReturnStep ==
  ASSUME LibraryIInv, run.pc \in Storing, NEW e \in Signals \cup {"failure"}, Return(e),
         NEW s \in {"failed", "paused", "canceled", "interrupted"}, work' = WorkStatus(s),
         files' = RolledBack, eps' \in {eps, EpisodeFailed},
         UNCHANGED <<stateVars, siteVars, wiped, torn>>
  PROVE  LibraryIInv'
<1> USE DEF LibraryIInv, LibraryInv
<1>1. IInv'
  BY NextStep
<1>2. run \in Run
  BY DEF LibraryTypes
<1>3. /\ run' \in Run /\ run'.pc = "finish" /\ run'.task = run.task
      /\ run'.attempt = run.attempt
  BY <1>2, ReturnType
<1>4. /\ eps' \in [Episodes -> BodyRow]
      /\ \A d \in Episodes : eps'[d].body \in {eps[d].body, "failed"}
                             /\ eps'[d].hash = eps[d].hash
      /\ work.id = NoWork => eps' = eps
  <2>1. eps \in [Episodes -> BodyRow]
    BY DEF LibraryTypes
  <2>2. CASE eps' = eps
    BY <2>1, <2>2
  <2>3. CASE eps' = [eps EXCEPT ![Current].body = "failed"] /\ work.id = run.work
    <3>1. run.work # NoWork
      BY DEF StoringSound
    <3>2. QED
      BY <2>1, <2>3, <3>1, ZenonT(60) DEF BodyRow
  <2>4. QED
    BY <2>2, <2>3 DEF EpisodeFailed
<1>5. work' \in WorkRow \cup {NoWorkRow} /\ work'.id = work.id /\ work'.status # "complete"
  <2>1. work \in WorkRow \cup {NoWorkRow} /\ work.status # "complete"
    BY DEF LibraryTypes, StoringSound, WorkRow, NoWorkRow
  <2>2. work.id = run.work => work \in WorkRow
    BY <2>1 DEF StoringSound, NoWorkRow
  <2>3. QED
    BY <2>1, <2>2 DEF WorkStatus, WorkRow
<1>6. LibraryTypes'
  BY <1>3, <1>4, <1>5, RolledBackFacts DEF LibraryTypes, siteVars
<1>7. RowsCascade' /\ CompleteIsReadable'
  BY <1>4, <1>5 DEF RowsCascade, CompleteIsReadable
<1>8. FailedSaveKeepsBody'
  BY <1>4, RolledBackFacts DEF FailedSaveKeepsBody
<1>9. RunHolds'
  BY <1>3 DEF RunHolds, IsRunning, stateVars, At, Storing
<1>10. StoringSound' /\ SkipSound' /\ SaveSound'
  BY <1>3 DEF StoringSound, SkipSound, SaveSound, Storing, InTx
<1>11. QED
  BY <1>1, <1>6, <1>7, <1>8, <1>9, <1>10

LEMMA FailEpisodeStep ==
  ASSUME LibraryIInv, FailEpisode
  PROVE  LibraryIInv'
BY ReturnStep DEF FailEpisode, Storing, libraryVars

LEMMA AbortStep ==
  ASSUME LibraryIInv, Abort
  PROVE  LibraryIInv'
<1>1. run \in Run /\ run.cause \in Signals
  BY DEF LibraryIInv, LibraryInv, LibraryTypes, Run, Abort
<1>2. CASE run.pc \in {"FetchToc", "UpsertWorkToc", "episode"} /\ UNCHANGED <<files, work>>
  BY <1>1, <1>2, ReturnType, LeaveStep DEF Abort, At, InTx, Storing
<1>3. CASE run.pc \in Storing /\ files' = RolledBack /\ work' = WorkStatus(ControlStatus)
  <2>1. ControlStatus \in {"failed", "paused", "canceled", "interrupted"}
    BY <1>1 DEF ControlStatus, Signals, Actions
  <2>2. QED
    BY <1>1, <1>3, <2>1, ReturnStep DEF Abort
<1>4. QED
  BY <1>2, <1>3 DEF Abort, Storing, At

LEMMA CompleteWorkStepOfLibrary ==
  ASSUME LibraryIInv, CompleteWork
  PROVE  LibraryIInv'
<1> USE DEF LibraryIInv, LibraryInv
<1>1. /\ run \in Run /\ At("episode") /\ run.todo = {} /\ run.pc \in Storing
      /\ CompleteWorkForTask(run.task, run.attempt) /\ work' = WorkStatus("complete")
      /\ UNCHANGED <<siteVars, eps, files, wiped, torn>>
  BY DEF CompleteWork, LibraryTypes, At, Storing
<1>2. /\ run.task \in TaskIDs /\ run.attempt \in Attempts
      /\ tasks[run.task] \in Row /\ tasks[run.task].status = "running"
  BY <1>1, RunRow DEF At
<1>3. IInv'
  BY <1>1, <1>2, CompleteWorkStep
<1>4. /\ run' \in Run /\ run'.pc = "finish" /\ run'.task = run.task
      /\ run'.attempt = run.attempt
  BY <1>1 DEF CompleteWork, Return, Run, Places
<1>5. work' \in WorkRow \cup {NoWorkRow} /\ work'.id = work.id
      /\ (work.id # run.work => work' = work)
  BY <1>1 DEF LibraryTypes, WorkStatus, WorkRow, StoringSound, NoWorkRow
<1>6. LibraryTypes'
  BY <1>1, <1>4, <1>5 DEF LibraryTypes, siteVars
<1>7. RunHolds'
  BY <1>1, <1>2, <1>4 DEF RunHolds, IsRunning, CompleteWorkForTask, CommitAllowed, At, IInv, TypeOK, Row
<1>8. RowsCascade'
  BY <1>1, <1>5 DEF RowsCascade
<1>9. CompleteIsReadable'
  <2>1. CASE work.id = run.work
    BY <1>1, <2>1 DEF CompleteIsReadable, StoringSound, Handled, Stored
  <2>2. CASE work.id # run.work
    BY <1>1, <1>5, <2>2 DEF CompleteIsReadable
  <2>3. QED
    BY <2>1, <2>2
<1>10. FailedSaveKeepsBody'
  BY <1>1, <1>4 DEF FailedSaveKeepsBody, InTx, At
<1>11. StoringSound' /\ SkipSound' /\ SaveSound'
  BY <1>4 DEF StoringSound, SkipSound, SaveSound, Storing, InTx
<1>12. QED
  BY <1>3, <1>6, <1>7, <1>8, <1>9, <1>10, <1>11

LEMMA FinishStep ==
  ASSUME LibraryIInv, Finish
  PROVE  LibraryIInv'
<1> USE DEF LibraryIInv, LibraryInv
<1>1. /\ run \in Run /\ At("finish") /\ Finalize(run.task, run.attempt, Outcome)
      /\ run' = IdleRun /\ UNCHANGED <<siteVars, libraryVars, wiped, torn>>
  BY DEF Finish, LibraryTypes
<1>2. run.task \in TaskIDs /\ run.attempt \in Attempts
  BY <1>1, RunRow DEF At
<1>3. Outcome \in Outcomes
  BY <1>1 DEF Run, Outcome, Outcomes, Statuses, Signals, Actions
<1>4. IInv'
  BY <1>1, <1>2, <1>3, FinalizeStep
<1>5. LibraryTypes' /\ run'.pc = "idle"
  BY <1>1, IdleRunType DEF LibraryTypes, siteVars, libraryVars, IdleRun
<1>6. RunHolds'
  BY <1>5 DEF RunHolds, At
<1>7. LibraryInv'
  BY <1>1, <1>5, <1>6, QuietStep DEF libraryVars, Storing, InTx, At
<1>8. QED
  BY <1>4, <1>7

LEMMA CrashStep ==
  ASSUME LibraryIInv, Crash
  PROVE  LibraryIInv'
<1> USE DEF LibraryIInv, LibraryInv
<1>1. /\ RecoverOnStartup /\ run' = IdleRun /\ UNCHANGED <<siteVars, libraryVars, wiped>>
      /\ torn' = IF InTx THEN torn \cup {Current} ELSE torn
  BY DEF Crash
<1>2. IInv'
  BY <1>1, RecoverStep
<1>3. LibraryTypes' /\ run'.pc = "idle"
  BY <1>1, IdleRunType DEF LibraryTypes, siteVars, libraryVars, IdleRun
<1>4. RowsCascade' /\ CompleteIsReadable'
  BY <1>1 DEF RowsCascade, CompleteIsReadable, libraryVars
<1>5. FailedSaveKeepsBody'
  BY <1>1, <1>3 DEF FailedSaveKeepsBody, libraryVars, InTx
<1>6. RunHolds' /\ StoringSound' /\ SkipSound' /\ SaveSound'
  BY <1>3 DEF RunHolds, StoringSound, SkipSound, SaveSound, Storing, InTx, At
<1>7. QED
  BY <1>2, <1>3, <1>4, <1>5, <1>6

-----------------------------------------------------------------------------
(* Theorems                                                                *)

LEMMA LibraryNextStep == LibraryIInv /\ [LibraryNext]_vars => LibraryIInv'
<1> SUFFICES ASSUME LibraryIInv, [LibraryNext]_vars PROVE LibraryIInv'
  OBVIOUS
<1>1. CASE UNCHANGED vars
  <2>1. UNCHANGED <<stateVars, siteVars, libraryVars, run, wiped, torn>>
    BY <1>1 DEF vars
  <2>2. IInv'
    BY <2>1, NextStep DEF LibraryIInv
  <2>3. QED
    BY <2>1, <2>2, TasksStep, RunRow DEF LibraryIInv, LibraryInv, stateVars
<1>2. CASE LibraryNext
  BY <1>2, SiteStep, HandleEnqueueStep, HandleStep, RemoveRowStep, RemoveFilesStep, ClaimStep,
     FindWorkStep, FetchTocStep, ListPreviousStep, UpsertWorkTocStep, SetTaskWorkIDStep,
     CheckEpisodeStep, FetchEpisodeStep, SaveWriteStep, SaveCommitStep, FailEpisodeStep,
     FailStep, AbortStep, CompleteWorkStepOfLibrary, FinishStep, SignalStep, CrashStep
  DEF LibraryNext
<1>3. QED
  BY <1>1, <1>2

\* A work that is shown as complete is readable, and a save that fails or is
\* cancelled loses no body (SaveEpisodeBodyForTask, CompleteWorkForTask), for
\* any work, any requests and any number of crashes and removals.
THEOREM LibrarySafe == LibrarySpec => [](CompleteIsReadable /\ FailedSaveKeepsBody)
BY LibraryInitStep, LibraryNextStep, PTL DEF LibrarySpec, LibraryIInv, LibraryInv

\* A save that fails or is cancelled loses no body, whichever attempt it was of
\* and whatever was removed in between (SaveEpisodeBodyForTask).
THEOREM FailedSaveLosesNothing == LibrarySpec => []FailedSaveKeepsBody
BY LibrarySafe, PTL

\* The application service never breaks the tables of the repository: rows,
\* queue and reservations stay as TaskState promises them, although the
\* handlers bind the requests to the work they find.
THEOREM LibraryKeepsTables ==
  LibrarySpec => [](TypeOK /\ ReservedOnce /\ StartupAccepts /\ CommitFence)
BY LibraryInitStep, LibraryNextStep, PTL DEF LibrarySpec, LibraryIInv, IInv

\* A task that must not skip ends with the bodies of the table of contents it
\* read, checkpoints of earlier attempts included.
THEOREM ForcedIsCurrentAlways == LibrarySpec => ForcedIsCurrent
<1> DEFINE P == CompleteWork /\ ~SkipComplete(Request) /\ work.id = run.work /\ ~wiped =>
                  \A e \in DOMAIN run.toc : files[e] # NoDoc /\ files[e].stamp = run.toc[e]
<1>1. LibraryIInv => P
  BY DEF LibraryIInv, LibraryInv, CompleteWork, StoringSound, Storing, At, Handled, Fresh
<1>2. QED
  BY <1>1, LibraryInitStep, LibraryNextStep, PTL DEF LibrarySpec, ForcedIsCurrent
=============================================================================
