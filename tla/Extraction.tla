------------------------------ MODULE Extraction ------------------------------
(***************************************************************************)
(* The extraction of characters and terms in viewer-api: the handlers, the *)
(* JobCoordinator's goroutine, the processor and the workflow with its     *)
(* checkpoints, over the job documents of ExtractionJobStore.              *)
(*                                                                         *)
(* What is extracted from an episode is the revision of the text it was    *)
(* extracted from; 0 is nothing.  A batch is one episode and one request.  *)
(* The generation is the serial one through the provider.                  *)
(*                                                                         *)
(* coordinator.mu lets one goroutine at a time into processJobs; `run` is  *)
(* that one, and `waiting` says whether another waits for the lock.  What  *)
(* a handler does after its job operation (Kick, Cancel) is a step of its  *)
(* own, kept in `calls` until then.                                        *)
(***************************************************************************)
EXTENDS ExtractionJobStore, FiniteSetsExt

CONSTANTS
  MaxRev,       \* bound: revisions of an episode
  MaxControls,  \* bound: accepted controls
  MaxClears,    \* bound: clears
  MaxStops,     \* bound: shutdowns and crashes
  MaxUpgrades,  \* bound: builds with another checkpoint schema
  MaxErrors,    \* bound: errors of the provider, the library, a state file
  MaxFaults     \* bound: errors of the job documents

ASSUME ExtractionAssumption ==
  /\ MaxRev \in Nat /\ MaxControls \in Nat /\ MaxClears \in Nat /\ MaxStops \in Nat
  /\ MaxUpgrades \in Nat /\ MaxErrors \in Nat /\ MaxFaults \in Nat

VARIABLES
  content,      \* the library: revision of each episode
  chars,        \* character_events: frontier, extracted from, recorded etags
  profile,      \* character_profiles, derived from it
  terms,        \* term_profiles: frontier, extracted from
  checkpoint,   \* extraction_jobs/checkpoints, by novel and boundary
  server,       \* the process
  waiting,      \* a goroutine of Kick waits for coordinator.mu
  calls,        \* Kick or Cancel(job) a handler has yet to call
  run,          \* the goroutine that holds coordinator.mu
  paid,         \* requests of each job whose result reached a checkpoint
  count         \* how often each bounded event has happened

stateFiles == <<chars, profile, terms, checkpoint>>
exVars == <<jobVars, content, stateFiles, server, waiting, calls, run, paid, count>>

Nothing      == [e \in Boundaries |-> 0]
NoChars      == [front |-> 0, src |-> Nothing, etag |-> Nothing]
NoView       == [front |-> 0, src |-> Nothing]
NoPrint      == [from |-> 0, chars |-> Nothing, terms |-> Nothing, input |-> Nothing]
NoCheckpoint == [fit |-> TRUE, fp |-> NoPrint, res |-> Nothing]
IdleRun      == [pc |-> "idle", job |-> 0, novel |-> "none", upTo |-> 0,
                 status |-> "none", registered |-> FALSE, canceled |-> FALSE,
                 again |-> FALSE, fp |-> NoPrint, res |-> Nothing, err |-> "none"]
KickCall     == 0    \* Kick in `calls`; Cancel is the id of its job
novel        == run.novel
View(c)      == [front |-> c.front, src |-> c.src]
Below(f, e)  == [i \in Boundaries |-> IF i < e THEN f[i] ELSE 0]

ExtractionInit ==
  /\ JobInit
  /\ content = [n \in Novels |-> [e \in Boundaries |-> 1]]
  /\ chars = [n \in Novels |-> NoChars] /\ profile = [n \in Novels |-> NoView]
  /\ terms = [n \in Novels |-> NoView]
  /\ checkpoint = [n \in Novels |-> [u \in Boundaries |-> NoCheckpoint]]
  /\ server = "up" /\ waiting = FALSE /\ calls = {}
  /\ run = IdleRun
  /\ paid = [j \in JobIDs |-> {}]
  /\ count = [k \in {"control", "clear", "stop", "upgrade", "error", "fault"} |-> 0]

\* A shutdown lets the handlers that have begun finish.
Up == server \in {"up", "stopping"}

Counted(k, max) == count[k] < max /\ count' = [count EXCEPT ![k] = @ + 1]

-----------------------------------------------------------------------------
(* The library and the handlers                                            *)

\* An update of the library changes the text of an episode and its etag.
Revise(n, e) ==
  /\ content[n][e] < MaxRev
  /\ content' = [content EXCEPT ![n][e] = @ + 1]
  /\ UNCHANGED <<jobVars, stateFiles, server, waiting, calls, run, paid, count>>

\* POST extraction-jobs, for an episode that exists.
HandleEnqueue(n, u) ==
  /\ Up
  /\ SaveJobIfNoActive(n, u)
  /\ calls' = calls \cup {KickCall}
  /\ UNCHANGED <<content, stateFiles, server, waiting, run, paid, count>>

\* PATCH extraction-jobs/{jobId}.  The job is saved first.
HandleControl(j, a) ==
  /\ Up
  /\ ControlJob(j, a)
  /\ calls' = calls \cup {IF a = "resume" THEN KickCall ELSE j}
  /\ Counted("control", MaxControls)
  /\ UNCHANGED <<content, stateFiles, server, waiting, run, paid>>

Kick ==
  /\ KickCall \in calls
  /\ calls' = calls \ {KickCall}
  /\ waiting' = TRUE
  /\ UNCHANGED <<jobVars, content, stateFiles, server, run, paid, count>>

\* Only a job that is registered has a context to cancel.
Cancel(j) ==
  /\ j \in calls
  /\ calls' = calls \ {j}
  /\ run' = IF run.registered /\ run.job = j THEN [run EXCEPT !.canceled = TRUE] ELSE run
  /\ UNCHANGED <<jobVars, content, stateFiles, server, waiting, paid, count>>

\* SaveGeneratedSummary holds the lock of the novel's state between its files.
StateLocked(n) == run.pc = "profile" /\ novel = n

\* DELETE extraction.  It refuses a novel with a checkpoint of another schema.
HandleClear(n) ==
  /\ Up /\ ~StateLocked(n)
  /\ \A u \in Boundaries : checkpoint[n][u].fit
  /\ PruneJobsIfNoActive(n)
  /\ chars' = [chars EXCEPT ![n] = NoChars] /\ profile' = [profile EXCEPT ![n] = NoView]
  /\ terms' = [terms EXCEPT ![n] = NoView]
  /\ checkpoint' = [checkpoint EXCEPT ![n] = [u \in Boundaries |-> NoCheckpoint]]
  /\ Counted("clear", MaxClears)
  /\ UNCHANGED <<content, server, waiting, calls, run, paid>>

\* Mutant: the profile is left as it is.
MaterializedBefore(n) == profile[n]

\* MaterializeGeneratedSummary
Materialized(n) == IF chars[n].front = 0 THEN profile[n] ELSE View(chars[n])

\* GET characters writes the derived profile when it is behind.
HandleRead(n, u) ==
  /\ Up /\ ~StateLocked(n)
  /\ profile[n].front < u
  /\ profile[n].front # 0 => chars[n].front >= profile[n].front
  /\ profile' = [profile EXCEPT ![n] = Materialized(n)]
  /\ UNCHANGED <<jobVars, content, chars, terms, checkpoint, server, waiting, calls, run,
                 paid, count>>

-----------------------------------------------------------------------------
(* processJobs                                                             *)

At(pc) == run.pc = pc
Go(pc) == run' = [run EXCEPT !.pc = pc]
Error(e) == run' = [run EXCEPT !.pc = "error", !.err = e]

Begin ==
  /\ Up /\ At("idle") /\ waiting
  /\ waiting' = FALSE
  /\ Go("load")
  /\ UNCHANGED <<jobVars, content, stateFiles, server, calls, paid, count>>

\* loadJobRecordsForExecution: no job of a novel with two active ones.
ForExecution ==
  {j \in JobIDs : /\ jobs[j].status \in Executable
                  /\ ~OtherActive(j, jobs[j].novel)}

\* The list is sorted from new to old, and the last that fits is taken.
Load ==
  /\ At("load")
  /\ IF server = "stopping" \/ ForExecution = {}
     THEN run' = IdleRun
     ELSE LET j == Min(ForExecution) IN
          run' = [IdleRun EXCEPT !.pc = "register", !.job = j, !.novel = jobs[j].novel,
                                 !.upTo = jobs[j].upTo, !.status = jobs[j].status]
  /\ UNCHANGED <<jobVars, content, stateFiles, server, waiting, calls, paid, count>>

Register ==
  /\ At("register")
  /\ run' = [run EXCEPT !.pc = "recheck", !.registered = TRUE, !.canceled = server = "stopping"]
  /\ UNCHANGED <<jobVars, content, stateFiles, server, waiting, calls, paid, count>>

Recheck ==
  /\ At("recheck")
  /\ run' = IF jobs[run.job].status \in Executable
            THEN [run EXCEPT !.pc = "start"]
            ELSE [IdleRun EXCEPT !.pc = "load"]
  /\ UNCHANGED <<jobVars, content, stateFiles, server, waiting, calls, paid, count>>

\* cancel() and the entry in active are gone before FinalizePausingJob.
Unregister ==
  /\ At("end")
  /\ run' = [run EXCEPT !.pc = "finalize", !.registered = FALSE]
  /\ UNCHANGED <<jobVars, content, stateFiles, server, waiting, calls, paid, count>>

Finalize ==
  /\ At("finalize")
  /\ FinalizePausingJob(run.job)
  /\ run' = [IdleRun EXCEPT !.pc = "load"]
  /\ UNCHANGED <<content, stateFiles, server, waiting, calls, paid, count>>

-----------------------------------------------------------------------------
(* Process                                                                 *)

Start ==
  /\ At("start")
  /\ \/ /\ run.canceled
        /\ Go("end") /\ UNCHANGED jobVars
     \/ /\ ~run.canceled /\ run.status = "queued"
        /\ SaveJobIfCurrentStatus(run.job, "running", Executable)
        /\ Go(IF Matches(run.job, Executable) THEN "seed" ELSE "end")
     \/ /\ ~run.canceled /\ run.status = "running"
        /\ Go("seed") /\ UNCHANGED jobVars
  /\ UNCHANGED <<content, stateFiles, server, waiting, calls, paid, count>>

\* resolveExecutionContext finds no profile.
Unresolved ==
  /\ At("start") /\ ~run.canceled
  /\ SaveJobIfCurrentStatus(run.job, "failed", Executable)
  /\ Go("end")
  /\ Counted("error", MaxErrors)
  /\ UNCHANGED <<content, stateFiles, server, waiting, calls, paid>>

\* Mutant: whoever cancelled the run is overwritten.
FailedBlind ==
  /\ At("error")
  /\ IF Exists(run.job) THEN SaveJob(run.job, "failed") ELSE UNCHANGED jobVars
  /\ Go("end")
  /\ UNCHANGED <<content, stateFiles, server, waiting, calls, paid, count>>

\* A cancelled run leaves the status to whoever cancelled it.
Failed ==
  /\ At("error")
  /\ IF run.canceled THEN UNCHANGED jobVars
     ELSE SaveJobIfCurrentStatus(run.job, "failed", {"running"})
  /\ Go("end")
  /\ UNCHANGED <<content, stateFiles, server, waiting, calls, paid, count>>

Completed ==
  /\ At("complete")
  /\ SaveJobIfCurrentStatus(run.job, "completed", {"running"})
  /\ Go("end")
  /\ UNCHANGED <<content, stateFiles, server, waiting, calls, paid, count>>

-----------------------------------------------------------------------------
(* GenerateAndSave                                                         *)

\* ReprocessFromEpisode: the first episode, within both the frontier and the
\* request, whose recorded etag is not its current one; 0 if there is none.
ReprocessFrom(c) ==
  LET stale == {e \in Boundaries : /\ e <= c.front /\ e <= run.upTo
                                   /\ c.etag[e] # content[novel][e]} IN
  IF stale = {} THEN 0 ELSE Min(stale)

\* The seed: characters, then terms up to their frontier.  Terms behind the
\* characters are taken for state of an old version.
Seed ==
  LET c == chars[novel]
      again == ReprocessFrom(c)
      from == IF again # 0 THEN again ELSE c.front + 1 IN
  /\ At("seed")
  /\ IF run.canceled THEN Error("canceled")
     ELSE IF terms[novel].front < c.front THEN Error("legacy")
     ELSE IF again = 0 /\ c.front >= run.upTo THEN Go("materialize")
     ELSE run' = [run EXCEPT
            !.pc = "input", !.again = again # 0,
            !.fp = [from |-> from, chars |-> c.src, terms |-> Below(terms[novel].src, from),
                    input |-> Nothing]]
  /\ UNCHANGED <<jobVars, content, stateFiles, server, waiting, calls, paid, count>>

Unread == {e \in run.fp.from .. run.upTo : run.fp.input[e] = 0}

\* LoadInputs reads one episode after the other.
LoadInput ==
  /\ At("input") /\ Unread # {}
  /\ IF run.canceled THEN Error("canceled")
     ELSE LET e == Min(Unread) IN run' = [run EXCEPT !.fp.input[e] = content[novel][e]]
  /\ UNCHANGED <<jobVars, content, stateFiles, server, waiting, calls, paid, count>>

\* Mutant: the text is not part of the fingerprint.
FingerprintWithoutText(fp) == [fp EXCEPT !.input = Nothing]

\* CheckpointFingerprint over seeds, batches and the allocator of ids.
Fingerprint(fp) == fp

\* A reprocessing run reads its seed again, after the texts.
Reseeded ==
  IF run.again
  THEN [run.fp EXCEPT !.chars = chars[novel].src,
                      !.terms = Below(terms[novel].src, run.fp.from)]
  ELSE run.fp

\* Mutant: the processed batches of the checkpoint are not looked at.
LoadCheckpointForgets ==
  /\ At("input") /\ Unread = {}
  /\ run' = [run EXCEPT !.pc = "batch", !.fp = Reseeded]
  /\ UNCHANGED <<jobVars, content, stateFiles, server, waiting, calls, paid, count>>

\* loadCheckpointForGeneration: one that does not fit is moved away.
LoadCheckpoint ==
  LET cp == checkpoint[novel][run.upTo]
      fp == Reseeded IN
  /\ At("input") /\ Unread = {}
  /\ IF cp # NoCheckpoint /\ ~(cp.fit /\ Fingerprint(cp.fp) = Fingerprint(fp))
     THEN /\ checkpoint' = [checkpoint EXCEPT ![novel][run.upTo] = NoCheckpoint]
          /\ Error("incompatible")
     ELSE run' = [run EXCEPT !.pc = "batch", !.fp = fp, !.res = cp.res] /\ UNCHANGED checkpoint
  /\ UNCHANGED <<jobVars, content, chars, profile, terms, server, waiting, calls, paid,
                 count>>

Remaining == {e \in run.fp.from .. run.upTo : run.res[e] = 0}

\* GenerateBatch sends nothing in a cancelled context.
Send ==
  /\ At("batch") /\ Remaining # {}
  /\ IF run.canceled THEN Error("canceled") ELSE Go("answer")
  /\ UNCHANGED <<jobVars, content, stateFiles, server, waiting, calls, paid, count>>

\* A response may arrive although the context is cancelled by now.
Answer ==
  /\ At("answer")
  /\ \/ LET e == Min(Remaining) IN
        run' = [run EXCEPT !.pc = "SaveCheckpoint", !.res[e] = run.fp.input[e]]
     \/ run.canceled /\ Error("canceled")
  /\ UNCHANGED <<jobVars, content, stateFiles, server, waiting, calls, paid, count>>

SaveCheckpoint ==
  /\ At("SaveCheckpoint")
  /\ checkpoint' = [checkpoint EXCEPT ![novel][run.upTo] =
                      [fit |-> TRUE, fp |-> run.fp, res |-> run.res]]
  /\ paid' = [paid EXCEPT ![run.job] = @ \cup
                {<<run.fp, e>> : e \in {i \in Boundaries : run.res[i] # 0}}]
  /\ Go("batch")
  /\ UNCHANGED <<jobVars, content, chars, profile, terms, server, waiting, calls, count>>

\* What the save leaves: the seed before the first batch, and the results.
Merged(seed) == [e \in Boundaries |-> IF e < run.fp.from THEN seed[e] ELSE run.res[e]]

\* No look at the context from here on.
SaveGeneratedTerms ==
  /\ At("batch") /\ Remaining = {}
  /\ terms' = [terms EXCEPT ![novel] = [front |-> run.upTo, src |-> Merged(run.fp.terms)]]
  /\ Go("events")
  /\ UNCHANGED <<jobVars, content, chars, profile, checkpoint, server, waiting, calls,
                 paid, count>>

\* SaveGeneratedSummary: events, then the derived profile.
SaveEvents ==
  /\ At("events")
  /\ chars' = [chars EXCEPT ![novel] =
       [front |-> run.upTo, src |-> Merged(run.fp.chars),
        etag |-> [e \in Boundaries |->
                    IF e < run.fp.from THEN chars[novel].etag[e] ELSE run.fp.input[e]]]]
  /\ Go("profile")
  /\ UNCHANGED <<jobVars, content, profile, terms, checkpoint, server, waiting, calls,
                 paid, count>>

SaveProfile ==
  /\ At("profile")
  /\ profile' = [profile EXCEPT ![novel] = View(chars[novel])]
  /\ Go("delete")
  /\ UNCHANGED <<jobVars, content, chars, terms, checkpoint, server, waiting, calls,
                 paid, count>>

\* An error of DeleteCheckpoint is ignored.
DeleteCheckpoint ==
  /\ At("delete")
  /\ \/ /\ checkpoint' = [checkpoint EXCEPT ![novel][run.upTo] = NoCheckpoint]
        /\ UNCHANGED count
     \/ Counted("error", MaxErrors) /\ UNCHANGED checkpoint
  /\ Go("complete")
  /\ UNCHANGED <<jobVars, content, chars, profile, terms, server, waiting, calls, paid>>

\* Everything was extracted before.
Materialize ==
  /\ At("materialize")
  /\ profile' = [profile EXCEPT ![novel] = Materialized(novel)]
  /\ Go("complete")
  /\ UNCHANGED <<jobVars, content, chars, terms, checkpoint, server, waiting, calls,
                 paid, count>>

\* An error of the provider, the library or a state file.
GenerationError ==
  /\ run.pc \in {"seed", "input", "answer", "SaveCheckpoint", "batch", "events", "profile",
                 "materialize"}
  /\ Error("failure")
  /\ Counted("error", MaxErrors)
  /\ UNCHANGED <<jobVars, content, stateFiles, server, waiting, calls, paid>>

\* A job document cannot be read or written.  processJobs gives up after Load
\* and FinalizePausingJob, and goes on after the others.
JobFault ==
  /\ run.pc \in {"load", "recheck", "start", "error", "complete", "finalize"}
  /\ run' = CASE run.pc \in {"load", "finalize"} -> IdleRun
              [] run.pc = "recheck"              -> [IdleRun EXCEPT !.pc = "load"]
              [] OTHER                           -> [run EXCEPT !.pc = "end"]
  /\ Counted("fault", MaxFaults)
  /\ UNCHANGED <<jobVars, content, stateFiles, server, waiting, calls, paid>>

-----------------------------------------------------------------------------
(* The process                                                             *)

\* The server's context is cancelled, and the job's with it.
Shutdown ==
  /\ server = "up"
  /\ server' = "stopping"
  /\ run' = [run EXCEPT !.canceled = run.registered]
  /\ Counted("stop", MaxStops)
  /\ UNCHANGED <<jobVars, content, stateFiles, waiting, calls, paid>>

Stopped == waiting' = FALSE /\ calls' = {} /\ run' = IdleRun

\* The end of a shutdown, wherever the worker is.
Exit ==
  /\ server = "stopping"
  /\ server' = "down" /\ Stopped
  /\ UNCHANGED <<jobVars, content, stateFiles, paid, count>>

Crash ==
  /\ server \in {"up", "recovering"}
  /\ server' = "down" /\ Stopped
  /\ Counted("stop", MaxStops)
  /\ UNCHANGED <<jobVars, content, stateFiles, paid>>

\* The build may have another checkpoint schema.
Restart(upgrade) ==
  /\ server = "down"
  /\ server' = "recovering"
  /\ IF upgrade
     THEN /\ Counted("upgrade", MaxUpgrades)
          /\ checkpoint' = [n \in Novels |-> [u \in Boundaries |->
               IF checkpoint[n][u] = NoCheckpoint THEN NoCheckpoint
               ELSE [checkpoint[n][u] EXCEPT !.fit = FALSE]]]
     ELSE UNCHANGED <<count, checkpoint>>
  /\ UNCHANGED <<jobVars, content, chars, profile, terms, waiting, calls, run, paid>>

\* Recover: the new status is on disk before the checkpoint is moved.
Recover ==
  /\ server = "recovering" /\ At("idle") /\ Unrecovered # {}
  /\ LET j == Max(Unrecovered)
         fit == checkpoint[jobs[j].novel][jobs[j].upTo].fit IN
     /\ RecoverRunningJob(j, fit)
     /\ run' = IF fit THEN run
               ELSE [IdleRun EXCEPT !.pc = "quarantine", !.novel = jobs[j].novel, !.upTo = jobs[j].upTo]
  /\ UNCHANGED <<content, stateFiles, server, waiting, calls, paid, count>>

Quarantine ==
  /\ At("quarantine")
  /\ checkpoint' = [checkpoint EXCEPT ![novel][run.upTo] = NoCheckpoint]
  /\ run' = IdleRun
  /\ UNCHANGED <<jobVars, content, chars, profile, terms, server, waiting, calls, paid,
                 count>>

\* Mutant: no Kick after Recover.
StartBackgroundSilent ==
  /\ server = "recovering" /\ At("idle") /\ Unrecovered = {}
  /\ server' = "up"
  /\ UNCHANGED <<jobVars, content, stateFiles, waiting, calls, run, paid, count>>

\* StartBackground, once Recover is done.
StartBackground ==
  /\ server = "recovering" /\ At("idle") /\ Unrecovered = {}
  /\ server' = "up"
  /\ waiting' = TRUE
  /\ UNCHANGED <<jobVars, content, stateFiles, calls, run, paid, count>>

-----------------------------------------------------------------------------
Worker ==
  \/ Begin \/ Load \/ Register \/ Recheck \/ Start \/ Failed \/ Completed
  \/ Seed \/ LoadInput \/ LoadCheckpoint \/ Send \/ Answer \/ SaveCheckpoint
  \/ SaveGeneratedTerms \/ SaveEvents \/ SaveProfile \/ DeleteCheckpoint \/ Materialize
  \/ Unregister \/ Finalize

ExtractionNext ==
  \/ \E n \in Novels, e \in Boundaries : Revise(n, e) \/ HandleEnqueue(n, e) \/ HandleRead(n, e)
  \/ \E j \in JobIDs, a \in JobActions : HandleControl(j, a)
  \/ \E n \in Novels : HandleClear(n)
  \/ Kick
  \/ \E j \in JobIDs : Cancel(j)
  \/ Worker \/ Unresolved \/ GenerationError \/ JobFault
  \/ Shutdown \/ Exit \/ Crash
  \/ \E upgrade \in BOOLEAN : Restart(upgrade)
  \/ Recover \/ Quarantine \/ StartBackground

ExtractionSpec == ExtractionInit /\ [][ExtractionNext]_exVars

\* The goroutine runs on, a provider request ends (its client has a timeout),
\* a handler finishes, and a process that ended is started again.
ExtractionFairness ==
  /\ WF_exVars(Worker)
  /\ WF_exVars(Kick)
  /\ \A j \in JobIDs : WF_exVars(Cancel(j))
  /\ WF_exVars(Exit) /\ WF_exVars(Restart(FALSE))
  /\ WF_exVars(Recover) /\ WF_exVars(Quarantine) /\ WF_exVars(StartBackground)

FairExtractionSpec == ExtractionSpec /\ ExtractionFairness

-----------------------------------------------------------------------------
(* Properties                                                              *)

Generating == {"seed", "input", "batch", "answer", "SaveCheckpoint", "events", "profile",
               "delete", "materialize"}

\* A job is shown as paused or interrupted only when no worker generates for
\* it: pause waits for the worker, and a resume finds nothing of it running.
PausedIsQuiet ==
  \A j \in JobIDs :
    jobs[j].status \in {"paused", "interrupted"} => ~(run.job = j /\ run.pc \in Generating)

\* What is recorded as extracted from a revision of an episode was extracted
\* from it, although results of earlier runs are taken from checkpoints while
\* the library changes: otherwise the episode would never be processed again.
DigestIsTrue ==
  \A n \in Novels, e \in Boundaries : chars[n].etag[e] # 0 => chars[n].etag[e] = chars[n].src[e]

\* A job becomes completed only when everything up to its boundary is there:
\* terms and characters from the same texts, and the profile is that of the
\* characters.  Earlier runs may have stopped between any two files.
CompletedIsWhole ==
  [][\A j \in JobIDs :
       jobs[j].status # "completed" /\ jobs'[j].status = "completed" =>
         LET n == jobs[j].novel
             u == jobs[j].upTo IN
         /\ terms[n].front >= chars[n].front /\ chars[n].front >= u
         /\ profile[n] = View(chars[n])
         /\ \A e \in 1 .. u : terms[n].src[e] = chars[n].src[e] /\ chars[n].src[e] # 0]_exVars

PaysAgain ==
  /\ At("batch") /\ run'.pc = "answer"
  /\ Exists(run.job)
  /\ <<run.fp, Min(Remaining)>> \in paid[run.job]

\* As long as the build stays the same, a job that was not cleared never sends
\* again what it had in a checkpoint: not after a pause, a crash or a change of
\* the library, and not when another job of the novel used that checkpoint.
NeverPaidTwice == [][PaysAgain => count["upgrade"] > 0]_exVars

\* The worker, the handlers and recovery together change the job documents
\* only as ExtractionJobStore allows, so what is shown of it holds here.
ImplementsJobStore == JobSpec

\* A queued job does not wait for ever.
QueuedJobIsServed ==
  \A j \in JobIDs : jobs[j].status = "queued" ~> jobs[j].status # "queued"

\* What the document on extraction says of pause, and the code does not keep:
\* a pausing job becomes paused when the worker has stopped.
PausingEnds ==
  \A j \in JobIDs : jobs[j].status = "pausing" ~> jobs[j].status # "pausing"

\* What the document says of a partial write, and the code does not keep: a
\* retry converges, no job takes the state for that of an old version.
RetryConverges == run.err # "legacy"
=============================================================================
