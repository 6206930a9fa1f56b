-------------------------- MODULE ExtractionJobStore --------------------------
(***************************************************************************)
(* The job documents of the extraction (internal/extraction, job_store.go) *)
(* of viewer-api.  Each operation holds jobsMu and is one action.          *)
(*                                                                         *)
(* A job id is its place in the order of creation.  Progress, labels and   *)
(* the index, which is rebuilt from the documents, are left out, and so    *)
(* are documents that are malformed or of another schema version.          *)
(***************************************************************************)
EXTENDS Naturals, FiniteSets

CONSTANTS
  Novels,
  MaxEpisode,   \* bound: episodes of a novel
  MaxJobs       \* bound: jobs ever created

ASSUME JobAssumption == MaxEpisode \in Nat /\ MaxJobs \in Nat

VARIABLES
  jobs,         \* extraction_jobs/*.yaml; status "none": no document
  lastJob       \* how many jobs were created

jobVars == <<jobs, lastJob>>

JobIDs      == 1 .. MaxJobs
Boundaries  == 1 .. MaxEpisode
JobStatus   == {"queued", "running", "pausing", "paused", "interrupted", "canceled",
                "completed", "failed", "incompatible"}
Final       == {"canceled", "completed", "failed", "incompatible"}
JobActions  == {"pause", "cancel", "resume"}
NoJob       == [status |-> "none"]
Job         == [status: JobStatus, novel: Novels, upTo: Boundaries]

\* IsActiveJobStatus
ActiveStatus == {"queued", "running", "pausing"}
\* jobStillExecutable
Executable   == {"queued", "running"}

Exists(j)    == jobs[j].status # "none"
IsActive(j)  == jobs[j].status \in ActiveStatus
JobsOf(n)    == {j \in JobIDs : Exists(j) /\ jobs[j].novel = n}

JobInit == jobs = [j \in JobIDs |-> NoJob] /\ lastJob = 0

-----------------------------------------------------------------------------
\* Mutant: whether another job of the novel is active is not asked.
OtherActiveIgnored(j, n) == FALSE

OtherActive(j, n) == \E k \in JobsOf(n) : k # j /\ IsActive(k)

\* saveJobUnlocked refuses a second active job of a novel.
SaveJob(j, s) ==
  /\ s \in ActiveStatus => ~OtherActive(j, jobs[j].novel)
  /\ jobs' = [jobs EXCEPT ![j].status = s]
  /\ UNCHANGED lastJob

\* SaveJobIfNoActive, when it creates the job.
SaveJobIfNoActive(n, u) ==
  LET j == lastJob + 1 IN
  /\ j \in JobIDs
  /\ ~OtherActive(j, n)
  /\ jobs' = [jobs EXCEPT ![j] = [status |-> "queued", novel |-> n, upTo |-> u]]
  /\ lastJob' = j

\* Mutant: a running job is paused while its worker still runs.
ControlledAtOnce(s, a) ==
  CASE a = "pause"  /\ s \in {"queued", "running"}                      -> "paused"
    [] a = "cancel" /\ s \in ActiveStatus \cup {"paused", "interrupted"} -> "canceled"
    [] a = "resume" /\ s \in {"paused", "interrupted"}                  -> "queued"
    [] OTHER -> "refused"

\* The new status ControlJob gives, or "refused".
Controlled(s, a) ==
  CASE a = "pause"  /\ s = "queued"                                     -> "paused"
    [] a = "pause"  /\ s = "running"                                    -> "pausing"
    [] a = "cancel" /\ s \in ActiveStatus \cup {"paused", "interrupted"} -> "canceled"
    [] a = "resume" /\ s \in {"paused", "interrupted"}                  -> "queued"
    [] OTHER -> "refused"

ControlJob(j, a) ==
  /\ Exists(j)
  /\ Controlled(jobs[j].status, a) # "refused"
  /\ SaveJob(j, Controlled(jobs[j].status, a))

\* Mutant: the status is not compared.
MatchesBlind(j, expected) == Exists(j)

\* The test of SaveJobIfCurrentStatus.
Matches(j, expected) == jobs[j].status \in expected

SaveJobIfCurrentStatus(j, s, expected) ==
  \/ Matches(j, expected) /\ SaveJob(j, s)
  \/ ~Matches(j, expected) /\ UNCHANGED jobVars

FinalizePausingJob(j) ==
  IF jobs[j].status = "pausing" THEN SaveJob(j, "paused") ELSE UNCHANGED jobVars

\* RecoverRunningJobs, for one job; fit: its checkpoint, if any, can be read.
Unrecovered == {j \in JobIDs : jobs[j].status \in {"running", "pausing"}}

RecoverRunningJob(j, fit) ==
  /\ j \in Unrecovered
  /\ SaveJob(j, IF fit THEN "interrupted" ELSE "incompatible")

\* PruneNovelStateIfNoActive, as far as jobs are concerned.
PruneJobsIfNoActive(n) ==
  /\ \A j \in JobsOf(n) : ~IsActive(j)
  /\ jobs' = [j \in JobIDs |-> IF j \in JobsOf(n) THEN NoJob ELSE jobs[j]]
  /\ UNCHANGED lastJob

-----------------------------------------------------------------------------
\* The store under arbitrary callers that save what the processor saves.
Saves == {<<"running", Executable>>, <<"failed", Executable>>,
          <<"failed", {"running"}>>, <<"completed", {"running"}>>}

JobNext ==
  \/ \E n \in Novels, u \in Boundaries : SaveJobIfNoActive(n, u)
  \/ \E j \in JobIDs, a \in JobActions : ControlJob(j, a)
  \/ \E j \in JobIDs, s \in Saves : SaveJobIfCurrentStatus(j, s[1], s[2])
  \/ \E j \in JobIDs : FinalizePausingJob(j)
  \/ \E j \in JobIDs, fit \in BOOLEAN : RecoverRunningJob(j, fit)
  \/ \E n \in Novels : PruneJobsIfNoActive(n)

JobSpec == JobInit /\ [][JobNext]_jobVars

-----------------------------------------------------------------------------
\* Types of the job documents.
JobTypeOK ==
  /\ jobs \in [JobIDs -> Job \cup {NoJob}]
  /\ lastJob \in 0 .. MaxJobs
  /\ \A j \in JobIDs : j > lastJob => ~Exists(j)

\* However enqueue, resume and the worker interleave, a novel never has two
\* active jobs: loadJobRecordsForExecution would block it for ever.
OneActiveJob ==
  \A j, k \in JobIDs :
    IsActive(j) /\ IsActive(k) /\ jobs[j].novel = jobs[k].novel => j = k

\* A job that was canceled, completed, failed or found incompatible stays so
\* until its document is pruned: a late save of the worker, a late control or
\* a restart never revives it.
FinalIsFinal ==
  [][\A j \in JobIDs :
       jobs[j].status \in Final => jobs'[j] \in {jobs[j], NoJob}]_jobVars
=============================================================================
