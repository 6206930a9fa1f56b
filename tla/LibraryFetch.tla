----------------------------- MODULE LibraryFetch -----------------------------
(***************************************************************************)
(* What an attempt does to the library: the application service            *)
(* (internal/application) on the store (internal/storage), for one work of *)
(* a site that changes meanwhile, with the handlers that enqueue tasks for *)
(* it and remove it.                                                       *)
(*                                                                         *)
(* The task tables are those of TaskState.  The runner is reduced to claim *)
(* and finalization (TaskRunner has its interleavings): a pause, a cancel  *)
(* or a shutdown is a signal to the executor's context, which wins over    *)
(* the executor's own result unless the work was committed.                *)
(*                                                                         *)
(* The writer pool has one connection.  A save holds it in a transaction   *)
(* while it writes files, so no other transaction runs meanwhile.          *)
(*                                                                         *)
(* A body document is its source timestamp and the revision of its text;   *)
(* content_hash is the document itself.  Raw HTML, assets and titles are   *)
(* left out, and so are files of a newer schema version.                   *)
(***************************************************************************)
EXTENDS TaskState, FiniteSetsExt

CONSTANTS
  Episodes,     \* episode ids, numbers in the order of the table of contents
  Undated,      \* those whose site states no timestamp
  MaxRev,       \* bound: revisions of an episode
  MaxRelists,   \* bound: episodes that enter or leave the table of contents
  MaxRemovals,  \* bound: removals of the work
  MaxStops,     \* bound: crashes
  MaxSignals    \* bound: pauses, cancels and shutdowns

ASSUME LibraryAssumption ==
  /\ Episodes \subseteq Nat /\ Undated \subseteq Episodes
  /\ WorkIDs = 1 .. Cardinality(WorkIDs)
  /\ MaxRev \in Nat /\ MaxRelists \in Nat /\ MaxRemovals \in Nat
  /\ MaxStops \in Nat /\ MaxSignals \in Nat
  /\ \A b \in Batches : Len(b) = 1     \* bound: one request per call

VARIABLES
  rev,          \* the site: current revision of each episode
  listed,       \* the site: episodes in its table of contents
  work,         \* the row of works for the site work; id NoWork: none
  lastWork,     \* sqlite_sequence of works
  eps,          \* its rows of episodes; body "none": no row
  files,        \* the body files in the directory of the work
  checkpoints,  \* fetch_task_episode_checkpoints
  run,          \* the executor's goroutine
  removing,     \* a RemoveWork is between its two steps
  wiped,        \* RemoveAll hit a directory in use since the last UpsertWorkToc
  torn,         \* episodes whose file a crash or a late RemoveAll has hit
  count         \* how often each bounded event has happened

siteVars    == <<rev, listed>>
libraryVars == <<work, lastWork, eps, files, checkpoints>>
vars == <<stateVars, siteVars, libraryVars, run, removing, wiped, torn, count>>

NoDoc      == [stamp |-> 0, rev |-> 0]
NoEpisode  == [body |-> "none", stamp |-> 0, hash |-> NoDoc]
NoWorkRow  == [id |-> NoWork, status |-> "none"]
NoTask     == "no task"
IdleRun    == [pc |-> "idle", task |-> NoTask, attempt |-> 0, work |-> NoWork,
               toc |-> <<>>, skip |-> {}, todo |-> {}, doc |-> NoDoc, before |-> NoDoc,
               cause |-> None, err |-> None]
Signals    == Actions \cup {"shutdown"}

\* The timestamp a table of contents shows.
Stamp(e) == IF e \in Undated THEN 0 ELSE rev[e]

Request == tasks[run.task].req
InTx == run.pc = "commit"
At(pc) == run.pc = pc

LibraryInit ==
  /\ Init
  /\ rev = [e \in Episodes |-> 1]
  /\ listed \in SUBSET Episodes \ {{}}
  /\ work = NoWorkRow /\ lastWork = 0
  /\ eps = [e \in Episodes |-> NoEpisode]
  /\ files = [e \in Episodes |-> NoDoc]
  /\ checkpoints = {}
  /\ run = IdleRun
  /\ removing = FALSE /\ wiped = FALSE /\ torn = {}
  /\ count = [k \in {"relist", "removal", "stop", "signal"} |-> 0]

Counted(k, max) == count[k] < max /\ count' = [count EXCEPT ![k] = @ + 1]

-----------------------------------------------------------------------------
(* The site                                                                *)

Revise(e) ==
  /\ e \in listed /\ rev[e] < MaxRev
  /\ rev' = [rev EXCEPT ![e] = @ + 1]
  /\ UNCHANGED <<stateVars, listed, libraryVars, run, removing, wiped, torn, count>>

\* An episode appears in the table of contents or leaves it.
Relist(e) ==
  /\ listed' = IF e \in listed THEN listed \ {e} ELSE listed \cup {e}
  /\ listed' # {}
  /\ Counted("relist", MaxRelists)
  /\ UNCHANGED <<stateVars, rev, libraryVars, run, removing, wiped, torn>>

-----------------------------------------------------------------------------
(* HTTP handlers                                                           *)

\* handleDownloadNovels looks for the row of the work and stores its id with
\* the request; handleUpdateNovels and handleResumeNovels demand a row.
HandleEnqueue(req) ==
  LET bound == [req EXCEPT !.work = work.id] IN
  /\ ~InTx
  /\ req.kind # "download" => work.id # NoWork
  /\ \E ids \in [FreshIndexes(<<bound>>) -> TaskIDs] : Enqueue(<<bound>>, ids)
  /\ UNCHANGED <<siteVars, libraryVars, run, removing, wiped, torn, count>>

HandleResume(t) ==
  /\ ~InTx
  /\ RequestResume(t)
  /\ UNCHANGED <<siteVars, libraryVars, run, removing, wiped, torn, count>>

\* handleTaskControl for a task that is not running.
HandleControl(t, a) ==
  /\ ~InTx
  /\ tasks[t].status # "running"
  /\ requestAction(t, a)
  /\ UNCHANGED <<siteVars, libraryVars, run, removing, wiped, torn, count>>

\* RemoveWork: DELETE cascades to the rows of the episodes, checkpoints stay.
RemoveRow(withFiles) ==
  /\ ~InTx /\ ~removing
  /\ work.id # NoWork
  /\ work' = NoWorkRow
  /\ eps' = [e \in Episodes |-> NoEpisode]
  /\ removing' = withFiles
  /\ Counted("removal", MaxRemovals)
  /\ UNCHANGED <<stateVars, siteVars, lastWork, files, checkpoints, run, wiped, torn>>

\* RemoveAll on the directory, which is named after the site's id of the work.
RemoveFiles ==
  /\ removing
  /\ files' = [e \in Episodes |-> NoDoc]
  /\ removing' = FALSE
  /\ wiped' = (wiped \/ work.id # NoWork)
  /\ torn' = IF work.id # NoWork THEN Episodes ELSE torn
  /\ UNCHANGED <<stateVars, siteVars, work, lastWork, eps, checkpoints, run, count>>

-----------------------------------------------------------------------------
(* The attempt: RunTask                                                    *)

Claim(t) ==
  /\ At("idle")
  /\ ClaimNext(t)
  /\ run' = [IdleRun EXCEPT !.pc = "RunTask", !.task = t, !.attempt = tasks[t].attempt + 1]
  /\ UNCHANGED <<siteVars, libraryVars, removing, wiped, torn, count>>

Return(e) == run' = [run EXCEPT !.pc = "finish", !.err = e]

\* runUpdate and runResume: FindWorkByID.
FindWork ==
  /\ At("RunTask")
  /\ IF Request.kind = "download" \/ work.id = Request.work
     THEN run' = [run EXCEPT !.pc = "FetchToc"]
     ELSE Return("failure")
  /\ UNCHANGED <<stateVars, siteVars, libraryVars, removing, wiped, torn, count>>

FetchToc ==
  /\ At("FetchToc")
  /\ run' = [run EXCEPT !.pc = "ListEpisodes", !.toc = [e \in listed |-> Stamp(e)]]
  /\ UNCHANGED <<stateVars, siteVars, libraryVars, removing, wiped, torn, count>>

SkipComplete(r) ==
  CASE r.kind = "download" -> "force" \notin r.opts
    [] r.kind = "update"   -> "skip_unchanged" \in r.opts /\ "force_redownload" \notin r.opts
    [] r.kind = "resume"   -> TRUE

EpisodeCanBeSkipped(row, toc, e) ==
  /\ row.body = "complete"
  /\ e \in DOMAIN toc
  /\ row.stamp # 0 /\ toc[e] # 0
  /\ row.stamp = toc[e]

\* The rows as they are before the table of contents is stored: a download
\* finds them by site key, the others by the task's work id.
ListPrevious ==
  /\ At("ListEpisodes")
  /\ run' = [run EXCEPT
       !.pc = "UpsertWorkToc",
       !.skip = {e \in Episodes :
                   /\ SkipComplete(Request)
                   /\ Request.kind = "download" \/ work.id = Request.work
                   /\ EpisodeCanBeSkipped(eps[e], run.toc, e)}]
  /\ UNCHANGED <<stateVars, siteVars, libraryVars, removing, wiped, torn, count>>

\* One transaction: a new row of works or the old one, rows for new episodes,
\* new timestamps for the known ones, no rows for the ones that left.  Errors
\* of the removal of their files are ignored, so some may stay.
UpsertWorkToc ==
  LET toc == run.toc
      id  == IF work.id # NoWork THEN work.id ELSE lastWork + 1
      gone == {e \in Episodes : eps[e].body # "none" /\ e \notin DOMAIN toc} IN
  /\ At("UpsertWorkToc")
  /\ id \in WorkIDs
  /\ work' = [id |-> id, status |-> "partial"]
  /\ lastWork' = IF id > lastWork THEN id ELSE lastWork
  /\ eps' = [e \in Episodes |->
       IF e \notin DOMAIN toc THEN NoEpisode
       ELSE IF eps[e].body = "none" THEN [NoEpisode EXCEPT !.body = "pending", !.stamp = toc[e]]
       ELSE [eps[e] EXCEPT !.stamp = toc[e]]]
  /\ \E kept \in SUBSET gone :
       files' = [e \in Episodes |-> IF e \in gone \ kept THEN NoDoc ELSE files[e]]
  /\ run' = [run EXCEPT !.pc = IF Request.kind = "download" THEN "SetTaskWorkID" ELSE "episode",
                        !.work = id, !.todo = DOMAIN toc]
  /\ wiped' = FALSE
  /\ UNCHANGED <<stateVars, siteVars, checkpoints, removing, torn, count>>

SetTaskWorkID ==
  /\ At("SetTaskWorkID")
  /\ \/ /\ SetWorkID(run.task, run.attempt, run.work)
        /\ run' = [run EXCEPT !.pc = "episode"]
     \/ /\ ~SetWorkIDAllowed(run.task, run.attempt, run.work)
        /\ Return("failure")
        /\ UNCHANGED stateVars
  /\ UNCHANGED <<siteVars, libraryVars, removing, wiped, torn, count>>

-----------------------------------------------------------------------------
(* fetchAndSaveEpisodes, one episode after the other                       *)

Current == Min(run.todo)

Advance == run' = [run EXCEPT !.pc = "episode", !.todo = @ \ {Current}, !.doc = NoDoc,
                              !.before = NoDoc]

\* The row of the episode in the work the attempt stores to.
StoredRow(e) == IF work.id = run.work THEN eps[e] ELSE NoEpisode

\* readStoredEpisodeFile
FileIsStored(e) == files[e] # NoDoc /\ files[e] = StoredRow(e).hash

CheckpointsOf(e) == {c \in checkpoints : c.task = run.task /\ c.work = run.work /\ c.ep = e}

\* Mutant: the revision of the document is not compared.
CheckpointValidAnyRevision(e) ==
  /\ StoredRow(e).body = "complete"
  /\ \E c \in CheckpointsOf(e) : c.hash = StoredRow(e).hash
  /\ FileIsStored(e)

\* IsTaskEpisodeCheckpointValid.  A checkpoint is never from a later attempt.
CheckpointValid(e) ==
  /\ StoredRow(e).body = "complete"
  /\ \E c \in CheckpointsOf(e) : c.hash = StoredRow(e).hash
  /\ FileIsStored(e)
  /\ files[e].stamp = run.toc[e]

WithCheckpoint(e, hash) ==
  (checkpoints \ CheckpointsOf(e))
    \cup {[task |-> run.task, work |-> run.work, ep |-> e, hash |-> hash]}

\* Mutant: the file is not read back.
CanRecordUnread(e) == StoredRow(e).body = "complete"

\* RecordTaskEpisodeCheckpoint accepts the episode.
CanRecord(e) == StoredRow(e).body = "complete" /\ FileIsStored(e)

\* A valid checkpoint; or a local body that may be skipped, unless there is a
\* checkpoint that was not valid; or a fetch.
CheckEpisode ==
  LET e == Current
      skips == e \in run.skip /\ CheckpointsOf(e) = {} /\ CanRecord(e) IN
  /\ At("episode") /\ run.todo # {}
  /\ \/ /\ CheckpointValid(e)
        /\ Advance
        /\ UNCHANGED checkpoints
     \/ /\ ~CheckpointValid(e) /\ skips
        /\ checkpoints' = WithCheckpoint(e, StoredRow(e).hash)
        /\ Advance
     \/ /\ ~CheckpointValid(e) /\ ~skips
        /\ run' = [run EXCEPT !.pc = "FetchEpisode"]
        /\ UNCHANGED checkpoints
  /\ UNCHANGED <<stateVars, siteVars, work, lastWork, eps, files, removing, wiped, torn, count>>

\* The body is the site's current one; the timestamp is from the table of
\* contents that was read before.
FetchEpisode ==
  /\ At("FetchEpisode")
  /\ Current \in listed
  /\ run' = [run EXCEPT !.pc = "save", !.doc = [stamp |-> run.toc[Current], rev |-> rev[Current]]]
  /\ UNCHANGED <<stateVars, siteVars, libraryVars, removing, wiped, torn, count>>

\* saveEpisodeBody: the transaction begins, the old file is remembered and
\* replaced.
SaveWrite ==
  /\ At("save")
  /\ files' = [files EXCEPT ![Current] = run.doc]
  /\ run' = [run EXCEPT !.pc = "commit", !.before = files[Current]]
  /\ UNCHANGED <<stateVars, siteVars, work, lastWork, eps, checkpoints, removing, wiped, torn, count>>

\* The foreign key to works and the fence on the attempt.
SaveAllowed == work.id = run.work /\ IsRunning(run.task, run.attempt)

SaveCommit ==
  /\ At("commit")
  /\ SaveAllowed
  /\ eps' = [eps EXCEPT ![Current] =
       [body |-> "complete", stamp |-> run.doc.stamp, hash |-> run.doc]]
  /\ checkpoints' = WithCheckpoint(Current, run.doc)
  /\ torn' = IF files[Current] = run.doc THEN torn \ {Current} ELSE torn
  /\ Advance
  /\ UNCHANGED <<stateVars, siteVars, work, lastWork, files, removing, wiped, count>>

\* Mutant: the files keep what the failed save wrote.
RolledBackKept == files

\* restoreFileRollbacks, when the failure is in the save.
RolledBack == IF At("commit") THEN [files EXCEPT ![Current] = run.before] ELSE files

\* UpdateWorkFetchStatus
WorkStatus(s) == IF work.id = run.work THEN [work EXCEPT !.status = s] ELSE work

\* MarkEpisodeFailed keeps a complete body.
EpisodeFailed ==
  IF work.id = run.work /\ eps[Current].body = "pending"
  THEN [eps EXCEPT ![Current].body = "failed"] ELSE eps

\* The fetch or the save fails.
FailEpisode ==
  /\ run.pc \in {"FetchEpisode", "save", "commit"}
  /\ files' = RolledBack
  /\ eps' = EpisodeFailed
  /\ work' = WorkStatus("failed")
  /\ Return("failure")
  /\ UNCHANGED <<stateVars, siteVars, lastWork, checkpoints, removing, wiped, torn, count>>

\* The site does not answer, a title exists on another site, SQLite fails.
Fail ==
  /\ run.pc \in {"FetchToc", "ListEpisodes", "UpsertWorkToc", "SetTaskWorkID", "episode"}
  /\ Return("failure")
  /\ UNCHANGED <<stateVars, siteVars, libraryVars, removing, wiped, torn, count>>

ControlStatus == CASE run.cause = "pause"    -> "paused"
                   [] run.cause = "cancel"   -> "canceled"
                   [] run.cause = "shutdown" -> "interrupted"

\* A call that looks at the cancelled context.  Only fetch, save and
\* completeWork leave a mark on the work.
Abort ==
  /\ run.cause # None
  /\ \/ /\ run.pc \in {"FetchToc", "UpsertWorkToc", "episode"}
        /\ UNCHANGED <<files, work>>
     \/ /\ \/ run.pc \in {"FetchEpisode", "save", "commit"}
           \/ At("episode") /\ run.todo = {}
        /\ files' = RolledBack
        /\ work' = WorkStatus(ControlStatus)
  /\ Return(run.cause)
  /\ UNCHANGED <<stateVars, siteVars, lastWork, eps, checkpoints, removing, wiped, torn, count>>

\* completeWork: the status of the work and the fence in one transaction.  No
\* test that the work still has a row.
CompleteWork ==
  /\ At("episode") /\ run.todo = {}
  /\ CompleteWorkForTask(run.task, run.attempt)
  /\ work' = WorkStatus("complete")
  /\ Return(None)
  /\ UNCHANGED <<siteVars, lastWork, eps, files, checkpoints, removing, wiped, torn, count>>

\* beginFinalizing and FinishTask: a signalled pause or cancel is recorded
\* before the outcome is chosen.
Outcome ==
  LET e == IF run.cause \in Actions THEN run.cause ELSE run.err IN
  CASE e = "pause"    -> "paused"
    [] e = "cancel"   -> "canceled"
    [] e = "shutdown" -> "interrupted"
    [] e = "failure"  -> "failed"
    [] e = None       -> "succeeded"

Finish ==
  /\ At("finish")
  /\ Finalize(run.task, run.attempt, Outcome)
  /\ run' = IdleRun
  /\ UNCHANGED <<siteVars, libraryVars, removing, wiped, torn, count>>

-----------------------------------------------------------------------------
(* Signals and crashes                                                     *)

Signal(s) ==
  /\ run.pc \notin {"idle", "finish"} /\ run.cause = None
  /\ Counted("signal", MaxSignals)
  /\ run' = [run EXCEPT !.cause = s]
  /\ UNCHANGED <<stateVars, siteVars, libraryVars, removing, wiped, torn>>

\* The transaction is lost, the file is not.  Recovery runs before anything
\* else.
Crash ==
  /\ Counted("stop", MaxStops)
  /\ RecoverOnStartup
  /\ torn' = IF InTx THEN torn \cup {Current} ELSE torn
  /\ run' = IdleRun
  /\ removing' = FALSE
  /\ UNCHANGED <<siteVars, libraryVars, wiped>>

-----------------------------------------------------------------------------
LibraryNext ==
  \/ \E e \in Episodes : Revise(e) \/ Relist(e)
  \/ \E b \in Batches : HandleEnqueue(b[1])
  \/ \E t \in TaskIDs : HandleResume(t) \/ Claim(t)
  \/ \E t \in TaskIDs, a \in Actions : HandleControl(t, a)
  \/ \E withFiles \in BOOLEAN : RemoveRow(withFiles)
  \/ RemoveFiles
  \/ FindWork \/ FetchToc \/ ListPrevious \/ UpsertWorkToc \/ SetTaskWorkID
  \/ CheckEpisode \/ FetchEpisode \/ SaveWrite \/ SaveCommit \/ FailEpisode
  \/ Fail \/ Abort \/ CompleteWork \/ Finish
  \/ \E s \in Signals : Signal(s)
  \/ Crash

LibrarySpec == LibraryInit /\ [][LibraryNext]_vars

-----------------------------------------------------------------------------
(* Properties                                                              *)

\* A work is shown as complete only when each of its episodes has a body and
\* the file is the one its row describes: a save torn by a crash, a failed or
\* a cancelled one is found and repeated before the work is completed.  The
\* exception is a RemoveAll that ran late, into a directory in use again.
CompleteIsReadable ==
  work.status = "complete" /\ ~wiped =>
    \A e \in Episodes :
      eps[e].body # "none" => eps[e].body = "complete" /\ files[e] = eps[e].hash

\* A save that fails or is cancelled loses nothing: outside the save itself
\* the file of a complete episode is the one its row describes, except for
\* what a crash or a late RemoveAll did.
FailedSaveKeepsBody ==
  \A e \in Episodes :
    eps[e].body = "complete" /\ e \notin torn /\ ~(InTx /\ e = Current) =>
      files[e] = eps[e].hash

\* When a task that must not skip anything completes the work, every episode
\* has the revision of the table of contents the attempt read, although
\* checkpoints of earlier attempts were accepted and the site changed between.
ForcedIsCurrent ==
  [][CompleteWork /\ ~SkipComplete(Request) /\ work.id = run.work /\ ~wiped =>
       \A e \in DOMAIN run.toc : files[e] # NoDoc /\ files[e].stamp = run.toc[e]]_vars

\* What the tests and comments on skipping promise, and the code does not
\* keep: a completed work has the bodies of the timestamps it shows.
SkippedIsCurrent ==
  work.status = "complete" /\ ~wiped =>
    \A e \in Episodes : eps[e].body # "none" => files[e].stamp = eps[e].stamp

\* What the operations manual promises, and the code does not keep: while a
\* task for a work is reserved, no other task for that work is.
OneTaskPerWork ==
  \A t, u \in TaskIDs : IsReserved(t) /\ IsReserved(u) => t = u
=============================================================================
