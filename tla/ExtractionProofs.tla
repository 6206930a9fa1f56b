--------------------------- MODULE ExtractionProofs ---------------------------
(***************************************************************************)
(* Proofs about Extraction for any set of novels and any number of jobs,   *)
(* episodes, revisions and disturbances.  The worker, the handlers and     *)
(* recovery change the job documents only as ExtractionJobStore allows;    *)
(* and what the worker carries from one call to the next stays true to the *)
(* documents although jobs are controlled, novels cleared and texts        *)
(* changed in between.  From that follows what a completed job stands for: *)
(* terms, characters and profile from the same texts, wherever the runs    *)
(* before it stopped; and that no job pays again for what it had in a      *)
(* checkpoint, as long as the build stays the same.                        *)
(***************************************************************************)
EXTENDS Extraction, WellFoundedInduction, TLAPS

-----------------------------------------------------------------------------
(* The job documents, for arbitrary callers.  Both properties are about one *)
(* status; OneActiveJob is inductive together with the types, because every *)
(* operation that makes a job active asks for another active one under      *)
(* jobsMu, and the others keep an active job active or make it inactive.    *)

JobInv == JobTypeOK /\ OneActiveJob

\* ControlJob saves a known status or refuses, and never touches a final one.
LEMMA ControlledStatus ==
  ASSUME NEW s \in JobStatus, NEW a \in JobActions, Controlled(s, a) # "refused"
  PROVE  /\ Controlled(s, a) \in JobStatus
         /\ s \notin Final
BY DEF Controlled, JobStatus, JobActions, ActiveStatus, Final

\* Saving a known status to a document keeps the types.
LEMMA SaveJobTypes ==
  ASSUME JobTypeOK, NEW j \in JobIDs, Exists(j), NEW s \in JobStatus, SaveJob(j, s)
  PROVE  JobTypeOK'
<1>1. jobs[j] \in Job
  BY DEF JobTypeOK, Exists, NoJob
<1>2. /\ jobs' = [jobs EXCEPT ![j] = [jobs[j] EXCEPT !.status = s]]
      /\ [jobs[j] EXCEPT !.status = s] \in Job
      /\ lastJob' = lastJob
  BY <1>1 DEF SaveJob, Job, JobTypeOK
<1>3. jobs' \in [JobIDs -> Job \cup {NoJob}]
  BY <1>2 DEF JobTypeOK
<1>4. \A k \in JobIDs : k > lastJob => ~Exists(k)'
  BY <1>2 DEF JobTypeOK, Exists
<1> QED
  BY <1>2, <1>3, <1>4 DEF JobTypeOK, Exists

\* Saving a status never makes a second job of a novel active.
LEMMA SaveJobOneActive ==
  ASSUME JobInv, NEW j \in JobIDs, Exists(j), NEW s \in JobStatus, SaveJob(j, s)
  PROVE  OneActiveJob'
<1>1. /\ \A k \in JobIDs : k # j => jobs'[k] = jobs[k]
      /\ jobs'[j].status = s /\ jobs'[j].novel = jobs[j].novel
  BY DEF SaveJob, JobInv, JobTypeOK, Job, NoJob, Exists
<1>2. SUFFICES ASSUME NEW k \in JobIDs, NEW l \in JobIDs,
                      IsActive(k)', IsActive(l)', jobs'[k].novel = jobs'[l].novel
               PROVE  k = l
  BY DEF OneActiveJob
<1>3. CASE k # j /\ l # j
  BY <1>1, <1>2, <1>3 DEF JobInv, OneActiveJob, IsActive
<1>4. ASSUME NEW m \in JobIDs, m # j, IsActive(m)', IsActive(j)',
             jobs'[m].novel = jobs'[j].novel
      PROVE  FALSE
  <2>1. s \in ActiveStatus /\ IsActive(m) /\ jobs[m].novel = jobs[j].novel
    BY <1>1, <1>4 DEF IsActive
  <2>2. m \in JobsOf(jobs[j].novel)
    BY <2>1 DEF JobsOf, Exists, IsActive, ActiveStatus
  <2> QED
    BY <1>4, <2>1, <2>2 DEF SaveJob, OtherActive
<1> QED
  BY <1>2, <1>3, <1>4

LEMMA SaveJobKeepsInv ==
  ASSUME JobInv, NEW j \in JobIDs, Exists(j), NEW s \in JobStatus, SaveJob(j, s)
  PROVE  JobInv'
BY SaveJobTypes, SaveJobOneActive DEF JobInv

\* A new job is queued only when the novel has no active one.
LEMMA SaveJobIfNoActiveKeepsInv ==
  ASSUME JobInv, NEW n \in Novels, NEW u \in Boundaries, SaveJobIfNoActive(n, u)
  PROVE  JobInv'
<1> DEFINE j == lastJob + 1
           new == [status |-> "queued", novel |-> n, upTo |-> u]
<1>1. /\ j \in JobIDs /\ ~OtherActive(j, n)
      /\ jobs' = [jobs EXCEPT ![j] = new] /\ lastJob' = j
  BY DEF SaveJobIfNoActive
<1>2. new \in Job
  BY DEF Job, JobStatus
<1>3. JobTypeOK'
  <2>1. jobs' \in [JobIDs -> Job \cup {NoJob}]
    BY <1>1, <1>2 DEF JobInv, JobTypeOK
  <2>2. lastJob' \in 0 .. MaxJobs
    BY <1>1, JobAssumption DEF JobInv, JobTypeOK, JobIDs
  <2>3. \A k \in JobIDs : k > lastJob' => ~Exists(k)'
    <3>1. SUFFICES ASSUME NEW k \in JobIDs, k > j PROVE jobs'[k].status = "none"
      BY <1>1 DEF Exists
    <3>2. k # j /\ k > lastJob
      BY <3>1, JobAssumption DEF JobInv, JobTypeOK, JobIDs
    <3> QED
      BY <1>1, <3>2 DEF JobInv, JobTypeOK, Exists
  <2> QED
    BY <2>1, <2>2, <2>3 DEF JobTypeOK
<1>4. OneActiveJob'
  <2>1. \A k \in JobIDs : k # j => jobs'[k] = jobs[k]
    BY <1>1 DEF JobInv, JobTypeOK
  <2>2. jobs'[j].novel = n
    BY <1>1 DEF JobInv, JobTypeOK
  <2>3. \A m \in JobIDs : m # j /\ IsActive(m)' => jobs'[m].novel # n
    BY <1>1, <2>1 DEF IsActive, OtherActive, JobsOf, Exists, ActiveStatus
  <2>4. SUFFICES ASSUME NEW k \in JobIDs, NEW l \in JobIDs,
                        IsActive(k)', IsActive(l)', jobs'[k].novel = jobs'[l].novel
                 PROVE  k = l
    BY DEF OneActiveJob
  <2>5. CASE k # j /\ l # j
    BY <2>1, <2>4, <2>5 DEF JobInv, OneActiveJob, IsActive
  <2> QED
    BY <1>1, <2>2, <2>3, <2>4, <2>5
<1> QED
  BY <1>3, <1>4 DEF JobInv

\* What is left after a prune is a part of what was there.
LEMMA PruneKeepsInv ==
  ASSUME JobInv, NEW n \in Novels, PruneJobsIfNoActive(n)
  PROVE  JobInv'
<1>1. /\ \A j \in JobIDs : jobs'[j] \in {jobs[j], NoJob}
      /\ lastJob' = lastJob
  BY DEF PruneJobsIfNoActive
<1>2. jobs' \in [JobIDs -> Job \cup {NoJob}]
  BY DEF PruneJobsIfNoActive, JobInv, JobTypeOK
<1>3. \A j \in JobIDs : j > lastJob => ~Exists(j)'
  BY <1>1 DEF JobInv, JobTypeOK, Exists, NoJob
<1>4. \A j \in JobIDs : IsActive(j)' => IsActive(j) /\ jobs'[j] = jobs[j]
  BY <1>1 DEF IsActive, ActiveStatus, NoJob
<1>5. OneActiveJob'
  BY <1>4 DEF JobInv, OneActiveJob
<1> QED
  BY <1>1, <1>2, <1>3, <1>5 DEF JobInv, JobTypeOK

\* Every operation of the store is one of these.
LEMMA JobSteps ==
  ASSUME JobInv, JobNext
  PROVE  \/ \E n \in Novels, u \in Boundaries : SaveJobIfNoActive(n, u)
         \/ \E j \in JobIDs, s \in JobStatus :
              Exists(j) /\ jobs[j].status \notin Final /\ SaveJob(j, s)
         \/ \E n \in Novels : PruneJobsIfNoActive(n)
         \/ UNCHANGED jobVars
<1>1. ASSUME NEW j \in JobIDs, NEW a \in JobActions, ControlJob(j, a)
      PROVE  \E s \in JobStatus :
               Exists(j) /\ jobs[j].status \notin Final /\ SaveJob(j, s)
  <2>1. jobs[j].status \in JobStatus
    BY <1>1 DEF ControlJob, Exists, JobInv, JobTypeOK, Job, NoJob
  <2> QED
    BY <1>1, <2>1, ControlledStatus DEF ControlJob
<1>2. ASSUME NEW j \in JobIDs, NEW s \in Saves, SaveJobIfCurrentStatus(j, s[1], s[2])
      PROVE  \/ \E t \in JobStatus :
                  Exists(j) /\ jobs[j].status \notin Final /\ SaveJob(j, t)
             \/ UNCHANGED jobVars
  BY <1>2 DEF Saves, SaveJobIfCurrentStatus, Matches, Executable, Exists, Final, JobStatus
<1>3. ASSUME NEW j \in JobIDs, FinalizePausingJob(j)
      PROVE  \/ \E t \in JobStatus :
                  Exists(j) /\ jobs[j].status \notin Final /\ SaveJob(j, t)
             \/ UNCHANGED jobVars
  BY <1>3 DEF FinalizePausingJob, Exists, Final, JobStatus
<1>4. ASSUME NEW j \in JobIDs, NEW fit \in BOOLEAN, RecoverRunningJob(j, fit)
      PROVE  \E t \in JobStatus :
               Exists(j) /\ jobs[j].status \notin Final /\ SaveJob(j, t)
  BY <1>4 DEF RecoverRunningJob, Unrecovered, Exists, Final, JobStatus
<1> QED
  BY <1>1, <1>2, <1>3, <1>4 DEF JobNext

\* Whatever the handlers, the worker and recovery do, the invariant is kept.
LEMMA JobNextStep ==
  ASSUME JobInv, [JobNext]_jobVars
  PROVE  JobInv'
<1>1. CASE UNCHANGED jobVars
  BY <1>1 DEF jobVars, JobInv, JobTypeOK, OneActiveJob, IsActive, Exists
<1>2. CASE JobNext
  BY <1>1, <1>2, JobSteps, SaveJobIfNoActiveKeepsInv, SaveJobKeepsInv, PruneKeepsInv
<1> QED
  BY <1>1, <1>2

\* The job documents keep their types and a novel has at most one active job.
THEOREM JobStoreSafe == JobSpec => []JobInv
<1>1. JobInit => JobInv
  BY JobAssumption DEF JobInit, JobInv, JobTypeOK, OneActiveJob, IsActive, ActiveStatus,
     NoJob, Exists, JobIDs
<1>2. JobInv /\ [JobNext]_jobVars => JobInv'
  BY JobNextStep
<1> QED
  BY <1>1, <1>2, PTL DEF JobSpec

\* A novel never has two active jobs.
THEOREM NeverTwoActiveJobs == JobSpec => []OneActiveJob
<1>1. JobInv => OneActiveJob
  BY DEF JobInv
<1> QED
  BY <1>1, JobStoreSafe, PTL

\* A final job is never revived.
THEOREM FinalJobsStayFinal == JobSpec => FinalIsFinal
<1> DEFINE Kept == \A j \in JobIDs :
                     jobs[j].status \in Final => jobs'[j] \in {jobs[j], NoJob}
<1>1. JobInv /\ [JobNext]_jobVars => [Kept]_jobVars
  <2>1. SUFFICES ASSUME JobInv, JobNext, NEW j \in JobIDs, jobs[j].status \in Final
                 PROVE  jobs'[j] \in {jobs[j], NoJob}
    OBVIOUS
  <2>2. ASSUME NEW n \in Novels, NEW u \in Boundaries, SaveJobIfNoActive(n, u)
        PROVE  jobs'[j] = jobs[j]
    <3>1. ~Exists(lastJob + 1) /\ lastJob + 1 \in JobIDs
      BY <2>1, <2>2, JobAssumption DEF SaveJobIfNoActive, JobInv, JobTypeOK, JobIDs
    <3>2. j # lastJob + 1
      BY <2>1, <3>1 DEF Exists, Final
    <3> QED
      BY <2>1, <2>2, <3>2 DEF SaveJobIfNoActive, JobInv, JobTypeOK
  <2>3. ASSUME NEW k \in JobIDs, NEW s \in JobStatus, jobs[k].status \notin Final, SaveJob(k, s)
        PROVE  jobs'[j] = jobs[j]
    BY <2>1, <2>3 DEF SaveJob, JobInv, JobTypeOK
  <2>4. ASSUME NEW n \in Novels, PruneJobsIfNoActive(n)
        PROVE  jobs'[j] \in {jobs[j], NoJob}
    BY <2>4 DEF PruneJobsIfNoActive
  <2>5. CASE UNCHANGED jobVars
    BY <2>5 DEF jobVars
  <2> QED
    BY <2>1, <2>2, <2>3, <2>4, <2>5, JobSteps
<1>2. QED
  BY <1>1, JobStoreSafe, PTL DEF JobSpec, FinalIsFinal

-----------------------------------------------------------------------------
(* The worker, the handlers and the files *)

WithJob == {"register", "recheck", "start", "error", "complete", "end", "finalize"} \cup Generating
Seeded  == {"input", "batch", "answer", "SaveCheckpoint", "events"}
Merging == Seeded \ {"input"}

Revisions == [Boundaries -> Nat]
Prints == [from: Nat, chars: Revisions, terms: Revisions, input: Revisions]

RunTypeOK ==
  run \in [pc: {"idle", "load", "quarantine"} \cup WithJob, job: Nat, novel: Novels \cup {"none"},
           upTo: Nat, status: JobStatus \cup {"none"}, registered: BOOLEAN, canceled: BOOLEAN,
           again: BOOLEAN, fp: Prints, res: Revisions,
           err: {"none", "canceled", "legacy", "incompatible", "failure"}]

FilesTypeOK ==
  /\ content \in [Novels -> Revisions]
  /\ chars \in [Novels -> [front: Nat, src: Revisions, etag: Revisions]]
  /\ terms \in [Novels -> [front: Nat, src: Revisions]]
  /\ checkpoint \in [Novels -> [Boundaries -> [fit: BOOLEAN, fp: Prints, res: Revisions]]]

\* The job the worker has in hand was created, and is never created again.
RunSited ==
  /\ run.pc \in WithJob => run.job \in 1 .. lastJob
  /\ run.pc \in WithJob \cup {"quarantine"} => run.novel \in Novels /\ run.upTo \in Boundaries

\* The job of a worker that generates, or is about to without another look at
\* the document, is not one that waits.
Waiting == {"queued", "paused", "interrupted"}

RunQuiet ==
  run.pc \in Generating \/ (run.pc \in {"register", "recheck", "start"} /\ run.status = "running") =>
    jobs[run.job].status \notin Waiting

\* The seed is that of the characters, as far as these were not cleared since;
\* texts are those of the episodes to process.
RunSeeded ==
  run.pc \in Seeded =>
    /\ run.fp.from # 0
    /\ \A e \in Boundaries : run.fp.input[e] # 0 => e \in run.fp.from .. run.upTo
    /\ \A e \in Boundaries : chars[novel].etag[e] # 0 => run.fp.chars[e] = chars[novel].src[e]

\* Results, of this run or of the checkpoint, are results for these texts.
RunMerges ==
  /\ run.pc \in Merging => \A e \in Boundaries : run.res[e] # 0 => run.res[e] = run.fp.input[e]
  /\ run.pc = "answer" => Remaining # {}
  /\ run.pc = "events" => Remaining = {}

CheckpointIsTrue ==
  \A n \in Novels, u \in Boundaries, e \in Boundaries :
    checkpoint[n][u].res[e] # 0 => checkpoint[n][u].res[e] = checkpoint[n][u].fp.input[e]

RunInv ==
  /\ RunTypeOK /\ FilesTypeOK /\ RunSited /\ RunQuiet /\ RunSeeded /\ RunMerges
  /\ CheckpointIsTrue /\ DigestIsTrue

ExInv == JobInv /\ RunInv

SameJob  == run'.job = run.job /\ run'.novel = run.novel /\ run'.upTo = run.upTo
SameWork == SameJob /\ run'.status = run.status /\ run'.fp = run.fp /\ run'.res = run.res

-----------------------------------------------------------------------------
(* What the steps of the worker do to `run`                                 *)

LEMMA MinIsLeast ==
  ASSUME NEW S \in SUBSET Nat, S # {}
  PROVE  Min(S) \in S /\ \A x \in S : Min(S) <= x
<1> DEFINE Less == {ss \in Nat \X Nat : ss[1] < ss[2]}
<1>1. IsWellFoundedOn(Less, Nat)
  BY NatLessThanWellFounded DEF OpToRel
<1>2. PICK x \in S : \A y \in S : ~ (<<y, x>> \in Less)
  <2> HIDE DEF Less
  <2>1. QED
    BY <1>1, WFMin
<1>3. ASSUME NEW y \in S PROVE x =< y
  <2>1. y \in Nat /\ x \in Nat /\ ~(<<y, x>> \in Less)
    BY <1>2
  <2>2. ~(y < x)
    BY <2>1
  <2>3. QED
    BY <2>1, <2>2
<1>4. QED
  BY <1>3 DEF Min

LEMMA Moved ==
  ASSUME RunTypeOK, NEW p \in WithJob, run' = [run EXCEPT !.pc = p]
  PROVE  RunTypeOK' /\ run'.pc = p /\ SameWork
BY DEF RunTypeOK, SameWork, SameJob

LEMMA Erred ==
  ASSUME RunTypeOK, NEW e \in {"canceled", "legacy", "incompatible", "failure"}, Error(e)
  PROVE  RunTypeOK' /\ run'.pc = "error" /\ SameWork
BY DEF RunTypeOK, SameWork, SameJob, Error, WithJob

LEMMA Idled ==
  ASSUME run' = IdleRun \/ run' = [IdleRun EXCEPT !.pc = "load"]
  PROVE  RunTypeOK' /\ run'.pc \in {"idle", "load"}
<1>1. Nothing \in Revisions /\ NoPrint \in Prints
  BY DEF Nothing, Revisions, NoPrint, Prints
<1>2. CASE run' = IdleRun
  BY <1>1, <1>2 DEF RunTypeOK, IdleRun
<1>3. CASE run' = [IdleRun EXCEPT !.pc = "load"]
  <2>1. run' = [pc |-> "load", job |-> 0, novel |-> "none", upTo |-> 0,
                status |-> "none", registered |-> FALSE, canceled |-> FALSE,
                again |-> FALSE, fp |-> NoPrint, res |-> Nothing, err |-> "none"]
    BY <1>3 DEF IdleRun
  <2>2. QED
    BY <1>1, <2>1 DEF RunTypeOK
<1>4. QED
  BY <1>2, <1>3

LEMMA FilesStay ==
  ASSUME RunInv, UNCHANGED <<content, chars, terms, checkpoint>>
  PROVE  FilesTypeOK' /\ CheckpointIsTrue' /\ DigestIsTrue'
BY DEF RunInv, FilesTypeOK, CheckpointIsTrue, DigestIsTrue

\* The worker has nothing in hand, or a job it no longer generates for.
LEMMA RunLeaves ==
  ASSUME RunInv, RunTypeOK', FilesTypeOK', CheckpointIsTrue', DigestIsTrue', UNCHANGED lastJob,
         \/ run'.pc \in {"idle", "load"}
         \/ /\ run'.pc \in {"error", "complete", "end", "finalize"}
            /\ run.pc \in WithJob /\ SameJob
  PROVE  RunInv'
BY DEF RunInv, RunSited, RunQuiet, RunSeeded, RunMerges, SameJob, WithJob, Generating, Seeded, Merging

\* The worker does not move while others act: a novel may be cleared, and a job
\* does not come to wait under the worker that generates for it.
LEMMA RunStays ==
  ASSUME RunInv, RunTypeOK', FilesTypeOK', CheckpointIsTrue', DigestIsTrue',
         SameWork, run'.pc = run.pc, lastJob \in Nat, lastJob' \in Nat, lastJob' >= lastJob,
         \A n \in Novels : chars'[n] = chars[n] \/ chars'[n] = NoChars,
         \A j \in 1 .. lastJob : jobs[j].status \notin Waiting => jobs'[j].status \notin Waiting
  PROVE  RunInv'
<1> USE DEF RunInv
<1>1. RunSited'
  BY DEF RunSited, SameWork, SameJob
<1>2. RunQuiet'
  BY DEF RunSited, RunQuiet, SameWork, SameJob, WithJob
<1>3. RunSeeded'
  BY DEF novel, RunSited, RunSeeded, SameWork, SameJob, NoChars, Nothing, Seeded, WithJob, Generating
<1>4. RunMerges'
  BY DEF RunMerges, Remaining, SameWork, SameJob
<1>5. QED
  BY <1>1, <1>2, <1>3, <1>4

\* The worker goes on with the same job, texts and results.
LEMMA RunGoesOn ==
  ASSUME RunInv, RunTypeOK', FilesTypeOK', CheckpointIsTrue', DigestIsTrue', SameWork,
         UNCHANGED <<jobs, lastJob, chars>>,
         \/ run.pc = "register" /\ run'.pc = "recheck"
         \/ run.pc = "recheck" /\ run'.pc = "start"
         \/ run.pc = "start" /\ run'.pc = "seed" /\ run.status = "running"
         \/ run.pc = "seed" /\ run'.pc = "materialize"
         \/ run.pc = "batch" /\ run'.pc = "answer" /\ Remaining # {}
         \/ run.pc = "batch" /\ run'.pc = "events" /\ Remaining = {}
         \/ run.pc = "SaveCheckpoint" /\ run'.pc = "batch"
         \/ run.pc = "profile" /\ run'.pc = "delete"
  PROVE  RunInv'
<1> USE DEF RunInv
<1>1. RunSited'
  BY DEF RunSited, SameWork, SameJob, WithJob, Generating
<1>2. RunQuiet'
  BY DEF RunQuiet, SameWork, SameJob, Generating
<1>3. RunSeeded'
  BY DEF novel, RunSeeded, SameWork, SameJob, Seeded
<1>4. RunMerges'
  BY DEF RunMerges, Remaining, SameWork, SameJob, Merging, Seeded
<1>5. QED
  BY <1>1, <1>2, <1>3, <1>4

-----------------------------------------------------------------------------
(* The library and the handlers                                             *)

\* No operation of a handler makes a job wait that runs, or a created job
\* another one.
LEMMA HandledJobs ==
  ASSUME JobInv,
         \/ \E n \in Novels, u \in Boundaries : SaveJobIfNoActive(n, u)
         \/ \E j \in JobIDs, a \in JobActions : ControlJob(j, a)
         \/ \E n \in Novels : PruneJobsIfNoActive(n)
         \/ UNCHANGED jobVars
  PROVE  /\ lastJob \in Nat /\ lastJob' \in Nat /\ lastJob' >= lastJob
         /\ \A j \in 1 .. lastJob : jobs[j].status \notin Waiting => jobs'[j].status \notin Waiting
<1>1. lastJob \in Nat /\ 1 .. lastJob \subseteq JobIDs
  BY JobAssumption DEF JobInv, JobTypeOK, JobIDs
<1>2. CASE UNCHANGED jobVars
  BY <1>1, <1>2 DEF jobVars
<1>3. ASSUME NEW n \in Novels, NEW u \in Boundaries, SaveJobIfNoActive(n, u)
      PROVE  lastJob' = lastJob + 1 /\ \A j \in 1 .. lastJob : jobs'[j] = jobs[j]
  BY <1>1, <1>3 DEF SaveJobIfNoActive, JobInv, JobTypeOK
<1>4. ASSUME NEW k \in JobIDs, NEW a \in JobActions, ControlJob(k, a)
      PROVE  /\ lastJob' = lastJob
             /\ \A j \in 1 .. lastJob :
                  jobs[j].status \notin Waiting => jobs'[j].status \notin Waiting
  <2> DEFINE s == Controlled(jobs[k].status, a)
  <2>1. jobs[k] \in Job
    BY <1>4 DEF ControlJob, Exists, JobInv, JobTypeOK, NoJob
  <2>2. jobs[k].status \notin Waiting => s \notin Waiting
    BY <1>4, <2>1 DEF ControlJob, Controlled, Waiting, Job, JobStatus, ActiveStatus, JobActions
  <2>3. lastJob' = lastJob /\ jobs' = [jobs EXCEPT ![k] = [jobs[k] EXCEPT !.status = s]]
    BY <1>4 DEF ControlJob, SaveJob
  <2> HIDE DEF s
  <2>4. jobs'[k].status = s /\ \A j \in JobIDs : j # k => jobs'[j] = jobs[j]
    BY <2>1, <2>3 DEF Job, JobInv, JobTypeOK
  <2>5. QED
    BY <1>1, <2>2, <2>3, <2>4
<1>5. ASSUME NEW n \in Novels, PruneJobsIfNoActive(n)
      PROVE  /\ lastJob' = lastJob
             /\ \A j \in 1 .. lastJob :
                  jobs[j].status \notin Waiting => jobs'[j].status \notin Waiting
  BY <1>1, <1>5 DEF PruneJobsIfNoActive, NoJob, Waiting
<1>6. QED
  BY <1>1, <1>2, <1>3, <1>4, <1>5

\* A new revision of a text.
LEMMA ReviseStep ==
  ASSUME ExInv, NEW n \in Novels, NEW e \in Boundaries, Revise(n, e)
  PROVE  RunInv' /\ UNCHANGED jobVars
<1> USE DEF ExInv
<1>1. run' = run /\ UNCHANGED <<jobVars, chars, terms, checkpoint>>
  BY DEF Revise, stateFiles
<1>2. content' \in [Novels -> Revisions]
  <2>1. content' = [content EXCEPT ![n] = [content[n] EXCEPT ![e] = content[n][e] + 1]]
    BY DEF Revise
  <2>2. content[n] \in Revisions
    BY DEF RunInv, FilesTypeOK
  <2>3. [content[n] EXCEPT ![e] = content[n][e] + 1] \in Revisions
    BY <2>2 DEF Revisions
  <2>4. QED
    BY <2>1, <2>3 DEF RunInv, FilesTypeOK
<1>3. FilesTypeOK' /\ CheckpointIsTrue' /\ DigestIsTrue'
  BY <1>1, <1>2 DEF RunInv, FilesTypeOK, CheckpointIsTrue, DigestIsTrue
<1>4. RunTypeOK' /\ SameWork /\ run'.pc = run.pc
  BY <1>1 DEF RunInv, RunTypeOK, SameWork, SameJob
<1>5. QED
  BY <1>1, <1>3, <1>4, HandledJobs, RunStays

\* What leaves the state files alone and the worker where it is.
LEMMA Beside ==
  ASSUME ExInv, UNCHANGED <<content, chars, terms, checkpoint>>,
         \/ run' = run
         \/ \E c \in BOOLEAN : run' = [run EXCEPT !.canceled = c],
         \/ \E n \in Novels, u \in Boundaries : SaveJobIfNoActive(n, u)
         \/ \E j \in JobIDs, a \in JobActions : ControlJob(j, a)
         \/ UNCHANGED jobVars
  PROVE  RunInv'
<1>1. RunTypeOK' /\ SameWork /\ run'.pc = run.pc
  BY DEF ExInv, RunInv, RunTypeOK, SameWork, SameJob
<1>2. FilesTypeOK' /\ CheckpointIsTrue' /\ DigestIsTrue'
  BY FilesStay DEF ExInv
<1>3. \A n \in Novels : chars'[n] = chars[n]
  OBVIOUS
<1>4. QED
  BY <1>1, <1>2, <1>3, HandledJobs, RunStays DEF ExInv

\* The handlers but DELETE, and the shutdown.
LEMMA BesideSteps ==
  ASSUME ExInv,
         \/ \E n \in Novels, u \in Boundaries : HandleEnqueue(n, u)
         \/ \E j \in JobIDs, a \in JobActions : HandleControl(j, a)
         \/ \E n \in Novels, u \in Boundaries : HandleRead(n, u)
         \/ Kick \/ Shutdown \/ StartBackground
         \/ \E j \in JobIDs : Cancel(j)
  PROVE  RunInv' /\ [JobNext]_jobVars
<1>1. CASE \E n \in Novels, u \in Boundaries : HandleEnqueue(n, u)
  BY <1>1, Beside DEF HandleEnqueue, stateFiles, JobNext
<1>2. CASE \E j \in JobIDs, a \in JobActions : HandleControl(j, a)
  BY <1>2, Beside DEF HandleControl, stateFiles, JobNext
<1>3. CASE \E n \in Novels, u \in Boundaries : HandleRead(n, u)
  BY <1>3, Beside DEF HandleRead
<1>4. CASE Kick \/ StartBackground
  BY <1>4, Beside DEF Kick, StartBackground, stateFiles
<1>5. CASE Shutdown
  <2>1. run.registered \in BOOLEAN
    BY DEF ExInv, RunInv, RunTypeOK
  <2>2. QED
    BY <1>5, <2>1, Beside DEF Shutdown, stateFiles
<1>6. CASE \E j \in JobIDs : Cancel(j)
  BY <1>6, Beside DEF Cancel, stateFiles
<1>7. QED
  BY <1>1, <1>2, <1>3, <1>4, <1>5, <1>6

\* DELETE: the worker may go on with a canceled job of the novel.
LEMMA HandleClearStep ==
  ASSUME ExInv, NEW n \in Novels, HandleClear(n)
  PROVE  RunInv' /\ [JobNext]_jobVars
<1> USE DEF ExInv, RunInv
<1>1. /\ run' = run /\ content' = content /\ PruneJobsIfNoActive(n)
      /\ chars' = [chars EXCEPT ![n] = NoChars] /\ terms' = [terms EXCEPT ![n] = NoView]
      /\ checkpoint' = [checkpoint EXCEPT ![n] = [u \in Boundaries |-> NoCheckpoint]]
  BY DEF HandleClear
<1>2. /\ Nothing \in Revisions /\ NoPrint \in Prints
      /\ NoChars \in [front: Nat, src: Revisions, etag: Revisions]
      /\ NoView \in [front: Nat, src: Revisions]
      /\ NoCheckpoint \in [fit: BOOLEAN, fp: Prints, res: Revisions]
  BY DEF Nothing, Revisions, NoPrint, Prints, NoChars, NoView, NoCheckpoint
<1>3. FilesTypeOK'
  BY <1>1, <1>2 DEF FilesTypeOK
<1>4. CheckpointIsTrue'
  BY <1>1 DEF CheckpointIsTrue, FilesTypeOK, NoCheckpoint, Nothing
<1>5. DigestIsTrue'
  BY <1>1 DEF DigestIsTrue, FilesTypeOK, NoChars, Nothing
<1>6. RunTypeOK' /\ SameWork /\ run'.pc = run.pc
  BY <1>1 DEF RunTypeOK, SameWork, SameJob
<1>7. \A m \in Novels : chars'[m] = chars[m] \/ chars'[m] = NoChars
  BY <1>1 DEF FilesTypeOK
<1>8. QED
  BY <1>1, <1>3, <1>4, <1>5, <1>6, <1>7, HandledJobs, RunStays DEF JobNext

-----------------------------------------------------------------------------
(* processJobs and Process                                                  *)

\* Steps that leave the state files alone.
FilesKept == UNCHANGED <<content, chars, terms, checkpoint>>

LEMMA LoadStep ==
  ASSUME ExInv, Load
  PROVE  RunInv' /\ UNCHANGED jobVars
<1> USE DEF ExInv, RunInv
<1>1. FilesKept /\ UNCHANGED jobVars
  BY DEF FilesKept, Load, stateFiles
<1>2. FilesTypeOK' /\ CheckpointIsTrue' /\ DigestIsTrue'
  BY <1>1, FilesStay DEF FilesKept
<1>3. CASE run' = IdleRun
  BY <1>1, <1>2, <1>3, Idled, RunLeaves DEF jobVars
<1>4. CASE run' # IdleRun
  <2> DEFINE j == Min(ForExecution)
  <2>1. /\ ForExecution # {}
        /\ run' = [IdleRun EXCEPT !.pc = "register", !.job = j, !.novel = jobs[j].novel,
                                  !.upTo = jobs[j].upTo, !.status = jobs[j].status]
    BY <1>4 DEF Load
  <2>2. j \in ForExecution
    BY <2>1, MinIsLeast DEF ForExecution, JobIDs
  <2> HIDE DEF j
  <2>3. j \in JobIDs /\ Exists(j) /\ jobs[j] \in Job /\ jobs[j].status \in Executable
    BY <2>2 DEF ForExecution, Exists, Executable, JobInv, JobTypeOK, NoJob
  <2>4. j \in 1 .. lastJob
    BY <2>3, JobAssumption DEF JobInv, JobTypeOK, JobIDs
  <2>5. Nothing \in Revisions /\ NoPrint \in Prints
    BY DEF Nothing, Revisions, NoPrint, Prints
  <2>6. run' = [pc |-> "register", job |-> j, novel |-> jobs[j].novel, upTo |-> jobs[j].upTo,
                status |-> jobs[j].status, registered |-> FALSE, canceled |-> FALSE,
                again |-> FALSE, fp |-> NoPrint, res |-> Nothing, err |-> "none"]
    BY <2>1 DEF IdleRun
  <2>7. jobs[j].novel \in Novels /\ jobs[j].upTo \in Boundaries /\ jobs[j].status \in JobStatus
    BY <2>3 DEF Job
  <2>8. RunTypeOK'
    BY <2>4, <2>5, <2>6, <2>7 DEF RunTypeOK, WithJob, Boundaries
  <2>9. RunSited'
    BY <1>1, <2>4, <2>6, <2>7 DEF RunSited, jobVars
  <2>10. RunQuiet' /\ RunSeeded' /\ RunMerges'
    BY <1>1, <2>6 DEF RunQuiet, RunSeeded, RunMerges, jobVars, Generating, Seeded, Merging, Waiting
  <2>11. QED
    BY <1>1, <1>2, <2>8, <2>9, <2>10
<1>5. QED
  BY <1>3, <1>4

\* Begin, Register, Recheck and Unregister.
LEMMA ProcessJobsSteps ==
  ASSUME ExInv, Begin \/ Register \/ Recheck \/ Unregister
  PROVE  RunInv' /\ UNCHANGED jobVars
<1> USE DEF ExInv, RunInv, At
<1>1. FilesKept /\ UNCHANGED jobVars
  BY DEF FilesKept, Begin, Register, Recheck, Unregister, stateFiles
<1>2. FilesTypeOK' /\ CheckpointIsTrue' /\ DigestIsTrue'
  BY <1>1, FilesStay DEF FilesKept
<1>3. CASE Begin
  <2>1. run' = [run EXCEPT !.pc = "load"]
    BY <1>3 DEF Begin, Go
  <2>2. RunTypeOK' /\ run'.pc = "load"
    BY <2>1 DEF RunTypeOK
  <2>3. QED
    BY <1>1, <1>2, <2>2, RunLeaves DEF jobVars
<1>4. CASE Register
  <2>1. (server = "stopping") \in BOOLEAN
    BY Zenon
  <2>2. run.pc = "register" /\ \E c \in BOOLEAN :
          run' = [run EXCEPT !.pc = "recheck", !.registered = TRUE, !.canceled = c]
    BY <1>4, <2>1 DEF Register
  <2>3. RunTypeOK' /\ run'.pc = "recheck" /\ SameWork
    BY <2>2 DEF RunTypeOK, SameWork, SameJob, WithJob
  <2>4. QED
    BY <1>1, <1>2, <2>2, <2>3, RunGoesOn DEF jobVars, FilesKept
<1>5. CASE Recheck
  <2>1. CASE run' = [run EXCEPT !.pc = "start"]
    BY <1>1, <1>2, <1>5, <2>1, Moved, RunGoesOn DEF Recheck, jobVars, FilesKept, WithJob
  <2>2. CASE run' = [IdleRun EXCEPT !.pc = "load"]
    BY <1>1, <1>2, <2>2, Idled, RunLeaves DEF jobVars
  <2>3. QED
    BY <1>5, <2>1, <2>2 DEF Recheck
<1>6. CASE Unregister
  <2>1. run.pc = "end" /\ run' = [run EXCEPT !.pc = "finalize", !.registered = FALSE]
    BY <1>6 DEF Unregister
  <2>2. RunTypeOK' /\ run'.pc = "finalize" /\ SameJob
    BY <2>1 DEF RunTypeOK, SameJob, WithJob
  <2>3. QED
    BY <1>1, <1>2, <2>1, <2>2, RunLeaves DEF jobVars, WithJob
<1>7. QED
  BY <1>3, <1>4, <1>5, <1>6

\* Start makes a queued job running, unless it was controlled meanwhile.
LEMMA StartStep ==
  ASSUME ExInv, Start
  PROVE  RunInv' /\ [JobNext]_jobVars
<1> USE DEF ExInv, RunInv, At
<1>1. run.pc = "start" /\ FilesKept
  BY DEF FilesKept, Start, stateFiles
<1>2. FilesTypeOK' /\ CheckpointIsTrue' /\ DigestIsTrue'
  BY <1>1, FilesStay DEF FilesKept
<1>3. run.job \in JobIDs /\ run.job \in 1 .. lastJob
  BY <1>1, JobAssumption DEF RunSited, WithJob, JobInv, JobTypeOK, JobIDs
<1>4. CASE run' = [run EXCEPT !.pc = "end"] /\ UNCHANGED jobVars
  BY <1>1, <1>2, <1>4, Moved, RunLeaves DEF jobVars, WithJob, SameWork
<1>5. CASE run.status = "running" /\ run' = [run EXCEPT !.pc = "seed"] /\ UNCHANGED jobVars
  BY <1>1, <1>2, <1>5, Moved, RunGoesOn DEF jobVars, FilesKept, WithJob, Generating
<1>6. CASE /\ SaveJobIfCurrentStatus(run.job, "running", Executable)
           /\ run' = [run EXCEPT !.pc = IF Matches(run.job, Executable) THEN "seed" ELSE "end"]
  <2>1. JobNext
    <3>1. <<"running", Executable>> \in Saves
      BY DEF Saves
    <3>2. QED
      BY <1>3, <1>6, <3>1 DEF JobNext
  <2>2. CASE ~Matches(run.job, Executable)
    BY <1>4, <1>6, <2>2, <2>1 DEF SaveJobIfCurrentStatus
  <2>3. CASE Matches(run.job, Executable)
    <3>1. RunTypeOK' /\ run'.pc = "seed" /\ SameWork
      BY <1>6, <2>3, Moved DEF WithJob, Generating
    <3>2. lastJob' = lastJob /\ jobs' = [jobs EXCEPT ![run.job] = [jobs[run.job] EXCEPT !.status = "running"]]
      BY <1>6, <2>3 DEF SaveJobIfCurrentStatus, SaveJob
    <3>3. jobs[run.job] \in Job
      BY <1>3, <2>3 DEF Matches, Executable, JobInv, JobTypeOK, NoJob
    <3>4. jobs'[run.job].status = "running"
      BY <1>3, <3>2, <3>3 DEF JobInv, JobTypeOK, Job
    <3>5. RunSited'
      BY <1>1, <3>1, <3>2 DEF RunSited, SameWork, SameJob, WithJob
    <3>6. RunQuiet' /\ RunSeeded' /\ RunMerges'
      BY <3>1, <3>4 DEF RunQuiet, RunSeeded, RunMerges, SameWork, SameJob, Seeded, Merging, Waiting
    <3>7. QED
      BY <1>2, <2>1, <3>1, <3>5, <3>6
  <2>4. QED
    BY <2>2, <2>3
<1>7. QED
  BY <1>4, <1>5, <1>6 DEF Start, Go

\* The saves with which the worker lets go of a job.
LEMMA EndSteps ==
  ASSUME ExInv, Unresolved \/ Failed \/ Completed \/ Finalize
  PROVE  RunInv' /\ [JobNext]_jobVars
<1> USE DEF ExInv, RunInv, At
<1>1. FilesKept /\ run.pc \in {"start", "error", "complete", "finalize"}
  BY DEF FilesKept, Unresolved, Failed, Completed, Finalize, stateFiles
<1>2. FilesTypeOK' /\ CheckpointIsTrue' /\ DigestIsTrue'
  BY <1>1, FilesStay DEF FilesKept
<1>3. run.job \in JobIDs
  BY <1>1, JobAssumption DEF RunSited, WithJob, JobInv, JobTypeOK, JobIDs
<1>4. /\ <<"failed", Executable>> \in Saves /\ <<"failed", {"running"}>> \in Saves
      /\ <<"completed", {"running"}>> \in Saves
  BY DEF Saves
<1>5. [JobNext]_jobVars
  BY <1>3, <1>4 DEF Unresolved, Failed, Completed, Finalize, JobNext
<1>6. lastJob' = lastJob
  BY DEF Unresolved, Failed, Completed, Finalize, SaveJobIfCurrentStatus, FinalizePausingJob,
         SaveJob, jobVars
<1>7. \/ run' = [run EXCEPT !.pc = "end"]
      \/ run' = [IdleRun EXCEPT !.pc = "load"]
  BY DEF Unresolved, Failed, Completed, Finalize, Go
<1>8. \/ RunTypeOK' /\ run'.pc = "end" /\ SameJob
      \/ RunTypeOK' /\ run'.pc = "load"
  <2>1. CASE run' = [run EXCEPT !.pc = "end"]
    BY <2>1, Moved DEF WithJob, SameWork
  <2>2. CASE run' = [IdleRun EXCEPT !.pc = "load"]
    <3>1. RunTypeOK'
      BY <2>2, Idled
    <3>2. run'.pc = "load"
      BY <2>2 DEF IdleRun
    <3>3. QED
      BY <3>1, <3>2
  <2>3. QED
    BY <1>7, <2>1, <2>2
<1>9. RunInv'
  BY <1>1, <1>2, <1>6, <1>8, RunLeaves DEF WithJob
<1>10. QED
  BY <1>5, <1>9

\* Errors, and the end of the process.
LEMMA FaultSteps ==
  ASSUME ExInv, GenerationError \/ JobFault \/ Exit \/ Crash
  PROVE  RunInv' /\ UNCHANGED jobVars
<1> USE DEF ExInv, RunInv
<1>1. FilesKept /\ UNCHANGED jobVars
  BY DEF FilesKept, GenerationError, JobFault, Exit, Crash, stateFiles
<1>2. FilesTypeOK' /\ CheckpointIsTrue' /\ DigestIsTrue'
  BY <1>1, FilesStay DEF FilesKept
<1>3. CASE GenerationError
  BY <1>1, <1>2, <1>3, Erred, RunLeaves DEF GenerationError, jobVars, WithJob, Generating, SameWork
<1>4. CASE JobFault
  <2>1. \/ run' = IdleRun \/ run' = [IdleRun EXCEPT !.pc = "load"]
        \/ run.pc \in WithJob /\ run' = [run EXCEPT !.pc = "end"]
    BY <1>4 DEF JobFault, WithJob
  <2>2. \/ RunTypeOK' /\ run'.pc \in {"idle", "load"}
        \/ RunTypeOK' /\ run.pc \in WithJob /\ run'.pc = "end" /\ SameJob
    BY <2>1, Moved, Idled DEF WithJob, SameWork
  <2>3. QED
    BY <1>1, <1>2, <2>2, RunLeaves DEF jobVars
<1>5. CASE Exit \/ Crash
  BY <1>1, <1>2, <1>5, Idled, RunLeaves DEF Exit, Crash, Stopped, jobVars
<1>6. QED
  BY <1>3, <1>4, <1>5

-----------------------------------------------------------------------------
(* GenerateAndSave                                                          *)

\* Where a run may have errors or nothing left to do.
LEMMA Gone ==
  ASSUME ExInv, run.pc \in WithJob, FilesKept, UNCHANGED jobVars,
         \/ \E e \in {"canceled", "legacy", "incompatible", "failure"} : Error(e)
         \/ \E p \in {"complete", "end"} : Go(p)
  PROVE  RunInv'
<1>1. RunTypeOK' /\ run'.pc \in {"error", "complete", "end"} /\ SameJob
  BY Erred, Moved DEF ExInv, RunInv, Go, WithJob, SameWork
<1>2. FilesTypeOK' /\ CheckpointIsTrue' /\ DigestIsTrue'
  BY FilesStay DEF FilesKept, ExInv
<1>3. QED
  BY <1>1, <1>2, RunLeaves DEF ExInv, jobVars

\* The worker goes on and only reads.
LEMMA GoneOn ==
  ASSUME ExInv, FilesKept, UNCHANGED jobVars,
         \/ run.pc = "seed" /\ Go("materialize")
         \/ run.pc = "batch" /\ Go("answer") /\ Remaining # {}
  PROVE  RunInv'
<1>1. RunTypeOK' /\ SameWork /\ run'.pc = IF run.pc = "seed" THEN "materialize" ELSE "answer"
  BY Moved DEF ExInv, RunInv, Go, WithJob, Generating
<1>2. FilesTypeOK' /\ CheckpointIsTrue' /\ DigestIsTrue'
  BY FilesStay DEF FilesKept, ExInv
<1>3. QED
  BY <1>1, <1>2, RunGoesOn DEF ExInv, FilesKept, jobVars

\* The run starts from the characters as they are.
LEMMA SeedStep ==
  ASSUME ExInv, Seed
  PROVE  RunInv' /\ UNCHANGED jobVars
<1> USE DEF ExInv, RunInv, At
<1> DEFINE c == chars[novel]
           again == ReprocessFrom(c)
           from == IF again # 0 THEN again ELSE c.front + 1
           fp == [from |-> from, chars |-> c.src, terms |-> Below(terms[novel].src, from),
                  input |-> Nothing]
<1>1. run.pc = "seed" /\ FilesKept /\ UNCHANGED jobVars
  BY DEF Seed, FilesKept, stateFiles
<1>2. CASE Error("canceled") \/ Error("legacy") \/ Go("materialize")
  BY <1>1, <1>2, Gone, GoneOn DEF WithJob, Generating
<1>3. CASE run' = [run EXCEPT !.pc = "input", !.again = again # 0, !.fp = fp]
  <2>1. novel \in Novels /\ c \in [front: Nat, src: Revisions, etag: Revisions]
        /\ terms[novel].src \in Revisions
    BY <1>1 DEF novel, RunSited, WithJob, Generating, FilesTypeOK
  <2>2. again \in Nat
    <3> DEFINE stale == {e \in Boundaries : /\ e <= c.front /\ e <= run.upTo
                                            /\ c.etag[e] # content[novel][e]}
    <3>1. again = IF stale = {} THEN 0 ELSE Min(stale)
      BY DEF ReprocessFrom
    <3>2. stale \in SUBSET Nat
      BY DEF Boundaries
    <3> HIDE DEF stale
    <3>3. stale # {} => Min(stale) \in stale
      BY <3>2, MinIsLeast
    <3> HIDE DEF again
    <3>4. QED
      BY <3>1, <3>2, <3>3
  <2> HIDE DEF again
  <2>3. from \in Nat /\ from # 0
    BY <2>1, <2>2
  <2> HIDE DEF from
  <2>4. fp \in Prints
    BY <2>1, <2>3 DEF Prints, Below, Nothing, Revisions
  <2>5. (again # 0) \in BOOLEAN
    BY Zenon
  <2>6. fp.from # 0 /\ fp.chars = c.src /\ \A e \in Boundaries : fp.input[e] = 0
    BY <2>3 DEF Nothing
  <2> HIDE DEF fp
  <2>7. RunTypeOK'
    BY <1>3, <2>4, <2>5 DEF RunTypeOK, WithJob, Generating
  <2>8. run'.pc = "input" /\ run'.fp = fp /\ SameJob
    BY <1>3 DEF RunTypeOK, SameJob
  <2>9. RunSited' /\ RunQuiet'
    BY <1>1, <2>8 DEF RunSited, RunQuiet, SameJob, WithJob, Generating, jobVars
  <2>10. RunSeeded'
    BY <1>1, <2>6, <2>8 DEF RunSeeded, SameJob, novel, FilesKept
  <2>11. RunMerges'
    BY <2>8 DEF RunMerges, Merging
  <2>12. QED
    BY <1>1, <2>7, <2>9, <2>10, <2>11, FilesStay DEF FilesKept
<1>4. QED
  BY <1>2, <1>3 DEF Seed

\* One more text, of an episode that is to be processed.
LEMMA LoadInputStep ==
  ASSUME ExInv, LoadInput
  PROVE  RunInv' /\ UNCHANGED jobVars
<1> USE DEF ExInv, RunInv, At
<1> DEFINE e == Min(Unread)
           w == content[novel][e]
<1>1. run.pc = "input" /\ FilesKept /\ UNCHANGED jobVars /\ Unread # {}
  BY DEF LoadInput, FilesKept, stateFiles
<1>2. CASE Error("canceled")
  BY <1>1, <1>2, Gone DEF WithJob, Generating
<1>3. CASE run' = [run EXCEPT !.fp.input[e] = w]
  <2>1. /\ novel \in Novels /\ run.upTo \in Boundaries /\ run.fp \in Prints
        /\ run.fp.from \in Nat \ {0}
    BY <1>1 DEF novel, RunSited, RunSeeded, RunTypeOK, WithJob, Generating, Seeded, Prints
  <2>2. e \in Unread
    BY <1>1, <2>1, MinIsLeast DEF Unread, Boundaries
  <2>3. e \in run.fp.from .. run.upTo /\ e \in Boundaries
    BY <2>1, <2>2, JobAssumption DEF Unread, Boundaries
  <2>4. w \in Nat
    BY <2>1, <2>3 DEF FilesTypeOK, Revisions
  <2> HIDE DEF e, w
  <2> DEFINE fp == [run.fp EXCEPT !.input = [run.fp.input EXCEPT ![e] = w]]
  <2>5. run' = [run EXCEPT !.fp = fp]
    BY <1>3
  <2>6. /\ fp \in Prints /\ fp.from = run.fp.from /\ fp.chars = run.fp.chars
        /\ \A i \in Boundaries : fp.input[i] # 0 => i = e \/ run.fp.input[i] # 0
    BY <2>1, <2>3, <2>4 DEF Prints, Revisions
  <2> HIDE DEF fp
  <2>7. RunTypeOK'
    BY <2>5, <2>6 DEF RunTypeOK
  <2>8. run'.pc = "input" /\ run'.fp = fp /\ SameJob
    BY <1>1, <2>5 DEF RunTypeOK, SameJob
  <2>9. RunSited' /\ RunQuiet'
    BY <1>1, <2>8 DEF RunSited, RunQuiet, SameJob, WithJob, Generating, jobVars
  <2>10. RunSeeded'
    BY <1>1, <2>3, <2>6, <2>8 DEF RunSeeded, SameJob, novel, FilesKept, Seeded
  <2>11. RunMerges'
    BY <2>8 DEF RunMerges, Merging
  <2>12. QED
    BY <1>1, <2>7, <2>9, <2>10, <2>11, FilesStay DEF FilesKept
<1>4. QED
  BY <1>2, <1>3 DEF LoadInput

\* The results of the checkpoint are used only for the same texts.
LEMMA LoadCheckpointStep ==
  ASSUME ExInv, LoadCheckpoint
  PROVE  RunInv' /\ UNCHANGED jobVars
<1> USE DEF ExInv, RunInv, At
<1> DEFINE cp == checkpoint[novel][run.upTo]
           fp == Reseeded
<1>1. /\ run.pc = "input" /\ UNCHANGED <<jobVars, content, chars, terms>>
      /\ novel \in Novels /\ run.upTo \in Boundaries /\ run.fp \in Prints
      /\ cp \in [fit: BOOLEAN, fp: Prints, res: Revisions]
  BY DEF LoadCheckpoint, novel, RunSited, RunTypeOK, FilesTypeOK, WithJob, Generating
<1>2. Nothing \in Revisions /\ NoCheckpoint \in [fit: BOOLEAN, fp: Prints, res: Revisions]
  BY DEF Nothing, Revisions, NoPrint, Prints, NoCheckpoint
<1>3. CASE /\ checkpoint' = [checkpoint EXCEPT ![novel][run.upTo] = NoCheckpoint]
           /\ Error("incompatible")
  <2>1. FilesTypeOK'
    BY <1>1, <1>2, <1>3 DEF FilesTypeOK
  <2>2. CheckpointIsTrue' /\ DigestIsTrue'
    BY <1>1, <1>3 DEF CheckpointIsTrue, DigestIsTrue, FilesTypeOK, NoCheckpoint, Nothing
  <2>3. RunTypeOK' /\ run'.pc = "error" /\ SameJob
    BY <1>3, Erred DEF SameWork
  <2>4. QED
    BY <1>1, <2>1, <2>2, <2>3, RunLeaves DEF jobVars, WithJob, Generating
<1>4. CASE /\ cp = NoCheckpoint \/ cp.fp = fp
           /\ run' = [run EXCEPT !.pc = "batch", !.fp = fp, !.res = cp.res] /\ UNCHANGED checkpoint
  <2>1. chars[novel].src \in Revisions /\ terms[novel].src \in Revisions
    BY <1>1 DEF FilesTypeOK
  <2>2. /\ fp \in Prints /\ fp.from = run.fp.from /\ fp.input = run.fp.input
        /\ fp.chars \in {run.fp.chars, chars[novel].src}
    BY <1>1, <2>1 DEF Reseeded, Prints, Below, Revisions
  <2>3. \A e \in Boundaries : cp.res[e] # 0 => cp.res[e] = fp.input[e]
    BY <1>1, <1>4 DEF CheckpointIsTrue, NoCheckpoint, Nothing
  <2> HIDE DEF fp
  <2>4. /\ run'.pc = "batch" /\ run'.fp = fp /\ run'.res = cp.res /\ SameJob
        /\ RunTypeOK'
    BY <1>1, <1>4, <2>2 DEF RunTypeOK, SameJob, WithJob, Generating
  <2>5. RunSited' /\ RunQuiet'
    BY <1>1, <2>4 DEF RunSited, RunQuiet, SameJob, WithJob, Generating, jobVars
  <2>6. RunSeeded'
    BY <1>1, <2>2, <2>4 DEF RunSeeded, SameJob, novel, Seeded
  <2>7. RunMerges'
    BY <2>3, <2>4 DEF RunMerges
  <2>8. QED
    BY <1>1, <1>4, <2>4, <2>5, <2>6, <2>7, FilesStay
<1>5. QED
  BY <1>3, <1>4 DEF LoadCheckpoint, Fingerprint

\* A request, and its answer.
LEMMA BatchSteps ==
  ASSUME ExInv, Send \/ Answer
  PROVE  RunInv' /\ UNCHANGED jobVars
<1> USE DEF ExInv, RunInv, At
<1>1. run.pc \in {"batch", "answer"} /\ FilesKept /\ UNCHANGED jobVars
  BY DEF Send, Answer, FilesKept, stateFiles
<1>2. CASE Error("canceled")
  BY <1>1, <1>2, Gone DEF WithJob, Generating
<1>3. CASE Send /\ Go("answer")
  BY <1>1, <1>3, GoneOn DEF Send
<1>4. CASE /\ run.pc = "answer"
           /\ run' = [run EXCEPT !.pc = "SaveCheckpoint",
                                 !.res[Min(Remaining)] = run.fp.input[Min(Remaining)]]
  <2> DEFINE e == Min(Remaining)
             w == run.fp.input[e]
  <2>1. /\ run.upTo \in Boundaries /\ run.fp \in Prints /\ run.res \in Revisions
        /\ run.fp.from \in Nat \ {0} /\ Remaining # {}
    BY <1>4 DEF RunSited, RunSeeded, RunMerges, RunTypeOK, WithJob, Generating, Seeded, Prints
  <2>2. e \in Remaining
    BY <2>1, MinIsLeast DEF Remaining, Boundaries
  <2>3. e \in Boundaries
    BY <2>1, <2>2, JobAssumption DEF Remaining, Boundaries
  <2>4. w \in Nat
    BY <2>1, <2>3 DEF Prints, Revisions
  <2> DEFINE res == [run.res EXCEPT ![e] = w]
  <2>5. run' = [run EXCEPT !.pc = "SaveCheckpoint", !.res = res]
    BY <1>4
  <2>6. res \in Revisions
    BY <2>1, <2>3, <2>4 DEF Revisions
  <2>7. \A i \in Boundaries : res[i] # 0 => res[i] = run.fp.input[i]
    BY <1>4, <2>1, <2>3 DEF RunMerges, Merging, Seeded, Revisions
  <2> HIDE DEF res
  <2>8. /\ run'.pc = "SaveCheckpoint" /\ run'.fp = run.fp /\ run'.res = res /\ SameJob
        /\ RunTypeOK'
    BY <2>5, <2>6 DEF RunTypeOK, SameJob, WithJob, Generating
  <2>9. RunSited' /\ RunQuiet'
    BY <1>1, <1>4, <2>8 DEF RunSited, RunQuiet, SameJob, WithJob, Generating, jobVars
  <2>10. RunSeeded'
    BY <1>1, <1>4, <2>8 DEF RunSeeded, SameJob, novel, Seeded, FilesKept
  <2>11. RunMerges'
    BY <2>7, <2>8 DEF RunMerges
  <2>12. QED
    BY <1>1, <2>8, <2>9, <2>10, <2>11, FilesStay DEF FilesKept
<1>5. QED
  BY <1>2, <1>3, <1>4 DEF Send, Answer

LEMMA SaveCheckpointStep ==
  ASSUME ExInv, SaveCheckpoint
  PROVE  RunInv' /\ UNCHANGED jobVars
<1> USE DEF ExInv, RunInv, At
<1> DEFINE cp == [fit |-> TRUE, fp |-> run.fp, res |-> run.res]
<1>1. /\ run.pc = "SaveCheckpoint" /\ UNCHANGED <<jobVars, content, chars, terms>>
      /\ checkpoint' = [checkpoint EXCEPT ![novel] = [checkpoint[novel] EXCEPT ![run.upTo] = cp]]
      /\ Go("batch")
  BY DEF SaveCheckpoint
<1>2. /\ novel \in Novels /\ run.upTo \in Boundaries
      /\ cp \in [fit: BOOLEAN, fp: Prints, res: Revisions]
      /\ \A e \in Boundaries : cp.res[e] # 0 => cp.res[e] = cp.fp.input[e]
  BY <1>1 DEF novel, RunSited, RunTypeOK, RunMerges, WithJob, Generating, Merging, Seeded
<1> HIDE DEF cp
<1>3. FilesTypeOK'
  BY <1>1, <1>2 DEF FilesTypeOK
<1>4. CheckpointIsTrue'
  BY <1>1, <1>2 DEF CheckpointIsTrue, FilesTypeOK
<1>5. DigestIsTrue'
  BY <1>1 DEF DigestIsTrue
<1>6. RunTypeOK' /\ run'.pc = "batch" /\ SameWork
  BY <1>1, Moved DEF Go, WithJob, Generating
<1>7. QED
  BY <1>1, <1>3, <1>4, <1>5, <1>6, RunGoesOn DEF jobVars

\* The terms, once every episode has its result.
LEMMA SaveTermsStep ==
  ASSUME ExInv, SaveGeneratedTerms
  PROVE  RunInv' /\ UNCHANGED jobVars
<1> USE DEF ExInv, RunInv, At
<1> DEFINE view == [front |-> run.upTo, src |-> Merged(run.fp.terms)]
<1>1. /\ run.pc = "batch" /\ Remaining = {} /\ UNCHANGED <<jobVars, content, chars, checkpoint>>
      /\ terms' = [terms EXCEPT ![novel] = view] /\ Go("events")
  BY DEF SaveGeneratedTerms
<1>2. view \in [front: Nat, src: Revisions]
  BY DEF RunTypeOK, Prints, Merged, Revisions
<1> HIDE DEF view
<1>3. FilesTypeOK'
  BY <1>1, <1>2 DEF FilesTypeOK
<1>4. CheckpointIsTrue' /\ DigestIsTrue'
  BY <1>1 DEF CheckpointIsTrue, DigestIsTrue
<1>5. RunTypeOK' /\ run'.pc = "events" /\ SameWork
  BY <1>1, Moved DEF Go, WithJob, Generating
<1>6. QED
  BY <1>1, <1>3, <1>4, <1>5, RunGoesOn DEF jobVars

\* The events: an episode below the first one processed keeps its etag and what
\* the seed said of it, the others get those of the texts that were sent.
LEMMA SaveEventsStep ==
  ASSUME ExInv, SaveEvents
  PROVE  RunInv' /\ UNCHANGED jobVars
<1> USE DEF ExInv, RunInv, At
<1> DEFINE c == [front |-> run.upTo, src |-> Merged(run.fp.chars),
                 etag |-> [e \in Boundaries |->
                   IF e < run.fp.from THEN chars[novel].etag[e] ELSE run.fp.input[e]]]
<1>1. /\ run.pc = "events" /\ UNCHANGED <<jobVars, content, terms, checkpoint>>
      /\ chars' = [chars EXCEPT ![novel] = c] /\ Go("profile")
  BY DEF SaveEvents
<1>2. /\ novel \in Novels /\ run.upTo \in Boundaries /\ run.fp \in Prints /\ run.res \in Revisions
      /\ chars[novel] \in [front: Nat, src: Revisions, etag: Revisions]
  BY <1>1 DEF novel, RunSited, RunTypeOK, FilesTypeOK, WithJob, Generating
<1>3. c \in [front: Nat, src: Revisions, etag: Revisions]
  <2>1. Merged(run.fp.chars) \in Revisions
    BY <1>2 DEF Prints, Merged, Revisions
  <2>2. c.etag \in Revisions
    BY <1>2 DEF Prints, Revisions
  <2>3. run.upTo \in Nat
    BY DEF RunTypeOK
  <2>4. QED
    BY <2>1, <2>2, <2>3
<1>4. ASSUME NEW e \in Boundaries, c.etag[e] # 0
      PROVE  c.etag[e] = c.src[e]
  <2>1. CASE e < run.fp.from
    <3>1. c.etag[e] = chars[novel].etag[e] /\ c.src[e] = run.fp.chars[e]
      BY <2>1 DEF Merged
    <3>2. chars[novel].etag[e] # 0
      BY <1>4, <3>1
    <3>3. run.fp.chars[e] = chars[novel].src[e] /\ DigestIsTrue
      BY <1>1, <3>2 DEF RunSeeded, Seeded
    <3>4. QED
      BY <1>2, <3>1, <3>2, <3>3 DEF DigestIsTrue
  <2>2. CASE ~(e < run.fp.from)
    <3>1. run.fp.input[e] # 0 /\ c.etag[e] = run.fp.input[e] /\ c.src[e] = run.res[e]
      BY <1>4, <2>2 DEF Merged
    <3>2. e \in run.fp.from .. run.upTo /\ Remaining = {}
      BY <1>1, <3>1 DEF RunSeeded, RunMerges, Seeded
    <3>3. run.res[e] # 0
      BY <3>2 DEF Remaining
    <3>4. run.res[e] = run.fp.input[e]
      BY <1>1, <3>3 DEF RunMerges, Merging, Seeded
    <3>5. QED
      BY <3>1, <3>4
  <2>3. QED
    BY <2>1, <2>2
<1> HIDE DEF c
<1>5. FilesTypeOK'
  BY <1>1, <1>3 DEF FilesTypeOK
<1>6. CheckpointIsTrue'
  BY <1>1 DEF CheckpointIsTrue
<1>7. DigestIsTrue'
  BY <1>1, <1>4 DEF DigestIsTrue, FilesTypeOK
<1>8. RunTypeOK' /\ run'.pc = "profile" /\ SameWork
  BY <1>1, Moved DEF Go, WithJob, Generating
<1>9. RunSited' /\ RunQuiet'
  BY <1>1, <1>8 DEF RunSited, RunQuiet, SameWork, SameJob, WithJob, Generating, jobVars
<1>10. RunSeeded' /\ RunMerges'
  BY <1>8 DEF RunSeeded, RunMerges, Seeded, Merging
<1>11. QED
  BY <1>1, <1>5, <1>6, <1>7, <1>8, <1>9, <1>10

\* What remains of a run: the profile, the checkpoint, the end.
LEMMA LastSteps ==
  ASSUME ExInv, SaveProfile \/ DeleteCheckpoint \/ Materialize
  PROVE  RunInv' /\ UNCHANGED jobVars
<1> USE DEF ExInv, RunInv, At
<1>1. CASE SaveProfile
  <2>1. run.pc = "profile" /\ FilesKept /\ UNCHANGED jobVars /\ Go("delete")
    BY <1>1 DEF SaveProfile, FilesKept
  <2>2. RunTypeOK' /\ run'.pc = "delete" /\ SameWork
    BY <2>1, Moved DEF Go, WithJob, Generating
  <2>3. QED
    BY <2>1, <2>2, FilesStay, RunGoesOn DEF FilesKept, jobVars
<1>2. CASE Materialize
  BY <1>2, Gone DEF Materialize, FilesKept, WithJob, Generating
<1>3. CASE DeleteCheckpoint
  <2>1. /\ run.pc = "delete" /\ UNCHANGED <<jobVars, content, chars, terms>> /\ Go("complete")
        /\ \/ checkpoint' = checkpoint
           \/ checkpoint' = [checkpoint EXCEPT ![novel][run.upTo] = NoCheckpoint]
    BY <1>3 DEF DeleteCheckpoint
  <2>2. NoCheckpoint \in [fit: BOOLEAN, fp: Prints, res: Revisions]
    BY DEF Nothing, Revisions, NoPrint, Prints, NoCheckpoint
  <2>3. FilesTypeOK' /\ CheckpointIsTrue' /\ DigestIsTrue'
    <3>1. CASE checkpoint' = checkpoint
      BY <2>1, <3>1, FilesStay
    <3>2. CASE checkpoint' = [checkpoint EXCEPT ![novel][run.upTo] = NoCheckpoint]
      <4>1. FilesTypeOK'
        BY <2>1, <2>2, <3>2 DEF FilesTypeOK
      <4>2. CheckpointIsTrue' /\ DigestIsTrue'
        BY <2>1, <3>2 DEF CheckpointIsTrue, DigestIsTrue, FilesTypeOK, NoCheckpoint, Nothing
      <4>3. QED
        BY <4>1, <4>2
    <3>3. QED
      BY <2>1, <3>1, <3>2
  <2>5. RunTypeOK' /\ run'.pc = "complete" /\ SameJob
    BY <2>1, Moved DEF Go, WithJob, SameWork
  <2>6. QED
    BY <2>1, <2>3, <2>5, RunLeaves DEF jobVars, WithJob, Generating
<1>4. QED
  BY <1>1, <1>2, <1>3

-----------------------------------------------------------------------------
(* The process                                                              *)

\* The new build finds the checkpoints, but may not be able to read them.
LEMMA RestartStep ==
  ASSUME ExInv, NEW upgrade \in BOOLEAN, Restart(upgrade)
  PROVE  RunInv' /\ UNCHANGED jobVars
<1> USE DEF ExInv, RunInv
<1>1. UNCHANGED <<jobVars, content, chars, terms, run>>
  BY DEF Restart
<1>2. \/ checkpoint' = checkpoint
      \/ checkpoint' = [n \in Novels |-> [u \in Boundaries |->
           IF checkpoint[n][u] = NoCheckpoint THEN NoCheckpoint
           ELSE [checkpoint[n][u] EXCEPT !.fit = FALSE]]]
  BY DEF Restart
<1>3. NoCheckpoint \in [fit: BOOLEAN, fp: Prints, res: Revisions]
  BY DEF Nothing, Revisions, NoPrint, Prints, NoCheckpoint
<1> DEFINE CP == [fit: BOOLEAN, fp: Prints, res: Revisions]
<1>4. /\ checkpoint' \in [Novels -> [Boundaries -> CP]]
      /\ \A n \in Novels, u \in Boundaries :
           /\ checkpoint'[n][u].fp = checkpoint[n][u].fp
           /\ checkpoint'[n][u].res = checkpoint[n][u].res
  <2>1. checkpoint \in [Novels -> [Boundaries -> CP]]
    BY DEF FilesTypeOK
  <2>2. CASE checkpoint' = checkpoint
    BY <2>1, <2>2
  <2>3. CASE checkpoint' = [n \in Novels |-> [u \in Boundaries |->
               IF checkpoint[n][u] = NoCheckpoint THEN NoCheckpoint
               ELSE [checkpoint[n][u] EXCEPT !.fit = FALSE]]]
    <3>1. ASSUME NEW n \in Novels, NEW u \in Boundaries
          PROVE  /\ checkpoint'[n][u] \in CP
                 /\ checkpoint'[n][u].fp = checkpoint[n][u].fp
                 /\ checkpoint'[n][u].res = checkpoint[n][u].res
      <4>1. checkpoint[n][u] \in CP
        BY <2>1
      <4>2. checkpoint'[n][u] = IF checkpoint[n][u] = NoCheckpoint THEN NoCheckpoint
                                ELSE [checkpoint[n][u] EXCEPT !.fit = FALSE]
        BY <2>3
      <4>3. QED
        BY <1>3, <4>1, <4>2
    <3> HIDE DEF CP
    <3>2. QED
      BY <2>3, <3>1
  <2>4. QED
    BY <1>2, <2>2, <2>3
<1>5. FilesTypeOK'
  BY <1>1, <1>4 DEF FilesTypeOK
<1>6. FilesTypeOK' /\ CheckpointIsTrue' /\ DigestIsTrue'
  BY <1>1, <1>4, <1>5 DEF FilesTypeOK, CheckpointIsTrue, DigestIsTrue
<1>7. RunTypeOK' /\ SameWork /\ run'.pc = run.pc
  BY <1>1 DEF RunTypeOK, SameWork, SameJob
<1>8. QED
  BY <1>1, <1>6, <1>7, HandledJobs, RunStays

\* Recovery has no worker: jobs may be made to wait.
LEMMA RecoverStep ==
  ASSUME ExInv, Recover
  PROVE  RunInv' /\ [JobNext]_jobVars
<1> USE DEF ExInv, RunInv, At
<1>1. run.pc = "idle" /\ FilesKept
  BY DEF Recover, FilesKept, stateFiles
<1>2. PICK j \in JobIDs :
        LET fit == checkpoint[jobs[j].novel][jobs[j].upTo].fit IN
        /\ RecoverRunningJob(j, fit)
        /\ run' = IF fit THEN run
                  ELSE [IdleRun EXCEPT !.pc = "quarantine", !.novel = jobs[j].novel,
                                       !.upTo = jobs[j].upTo]
  BY DEF Recover, RecoverRunningJob, Unrecovered
<1> DEFINE fit == checkpoint[jobs[j].novel][jobs[j].upTo].fit
<1>3. jobs[j] \in Job
  BY <1>2 DEF RecoverRunningJob, Unrecovered, JobInv, JobTypeOK, NoJob
<1>4. jobs[j].novel \in Novels /\ jobs[j].upTo \in Boundaries /\ fit \in BOOLEAN
  BY <1>3 DEF Job, FilesTypeOK
<1>5. JobNext /\ lastJob' = lastJob
  BY <1>2, <1>4 DEF JobNext, RecoverRunningJob, SaveJob
<1>6. FilesTypeOK' /\ CheckpointIsTrue' /\ DigestIsTrue'
  BY <1>1, FilesStay DEF FilesKept
<1>7. CASE run' = run
  BY <1>1, <1>5, <1>6, <1>7, RunLeaves DEF RunTypeOK
<1>8. CASE run' = [IdleRun EXCEPT !.pc = "quarantine", !.novel = jobs[j].novel,
                                  !.upTo = jobs[j].upTo]
  <2>1. run' = [pc |-> "quarantine", job |-> 0, novel |-> jobs[j].novel, upTo |-> jobs[j].upTo,
                status |-> "none", registered |-> FALSE, canceled |-> FALSE,
                again |-> FALSE, fp |-> NoPrint, res |-> Nothing, err |-> "none"]
    BY <1>8 DEF IdleRun
  <2>2. Nothing \in Revisions /\ NoPrint \in Prints
    BY DEF Nothing, Revisions, NoPrint, Prints
  <2>3. RunTypeOK'
    BY <1>4, <2>1, <2>2 DEF RunTypeOK, Boundaries
  <2>4. RunSited' /\ RunQuiet' /\ RunSeeded' /\ RunMerges'
    BY <1>4, <2>1 DEF RunSited, RunQuiet, RunSeeded, RunMerges, WithJob, Generating, Seeded, Merging
  <2>5. QED
    BY <1>5, <1>6, <2>3, <2>4
<1>9. QED
  BY <1>2, <1>7, <1>8

LEMMA QuarantineStep ==
  ASSUME ExInv, Quarantine
  PROVE  RunInv' /\ UNCHANGED jobVars
<1> USE DEF ExInv, RunInv, At
<1>1. /\ run' = IdleRun /\ UNCHANGED <<jobVars, content, chars, terms>>
      /\ checkpoint' = [checkpoint EXCEPT ![novel][run.upTo] = NoCheckpoint]
  BY DEF Quarantine
<1>2. NoCheckpoint \in [fit: BOOLEAN, fp: Prints, res: Revisions]
  BY DEF Nothing, Revisions, NoPrint, Prints, NoCheckpoint
<1>3. FilesTypeOK'
  BY <1>1, <1>2 DEF FilesTypeOK
<1>4. CheckpointIsTrue' /\ DigestIsTrue'
  BY <1>1 DEF CheckpointIsTrue, DigestIsTrue, FilesTypeOK, NoCheckpoint, Nothing
<1>5. QED
  BY <1>1, <1>3, <1>4, Idled, RunLeaves DEF jobVars

-----------------------------------------------------------------------------
(* The invariant and the theorems                                           *)

LEMMA ExtractionStepInv ==
  ASSUME ExInv, [ExtractionNext]_exVars
  PROVE  ExInv' /\ [JobNext]_jobVars
<1>1. RunInv' /\ [JobNext]_jobVars
  <2>1. CASE UNCHANGED exVars
    BY <2>1, Beside DEF exVars, stateFiles
  <2>2. CASE \E n \in Novels, e \in Boundaries : Revise(n, e) \/ HandleEnqueue(n, e) \/ HandleRead(n, e)
    BY <2>2, ReviseStep, BesideSteps
  <2>3. CASE \E j \in JobIDs, a \in JobActions : HandleControl(j, a)
    BY <2>3, BesideSteps
  <2>4. CASE \E n \in Novels : HandleClear(n)
    BY <2>4, HandleClearStep
  <2>5. CASE Kick \/ (\E j \in JobIDs : Cancel(j)) \/ Shutdown \/ StartBackground
    BY <2>5, BesideSteps
  <2>6. CASE Worker
    BY <2>6, ProcessJobsSteps, LoadStep, StartStep, EndSteps, SeedStep, LoadInputStep,
       LoadCheckpointStep, BatchSteps, SaveCheckpointStep, SaveTermsStep, SaveEventsStep, LastSteps
       DEF Worker
  <2>7. CASE Unresolved \/ GenerationError \/ JobFault \/ Exit \/ Crash
    BY <2>7, EndSteps, FaultSteps
  <2>8. CASE (\E upgrade \in BOOLEAN : Restart(upgrade)) \/ Recover \/ Quarantine
    BY <2>8, RestartStep, RecoverStep, QuarantineStep
  <2>9. QED
    BY <2>1, <2>2, <2>3, <2>4, <2>5, <2>6, <2>7, <2>8 DEF ExtractionNext
<1>2. JobInv'
  BY <1>1, JobNextStep DEF ExInv
<1>3. QED
  BY <1>1, <1>2 DEF ExInv

LEMMA ExtractionInit_Inv == ExtractionInit => ExInv
<1> SUFFICES ASSUME ExtractionInit PROVE ExInv
  OBVIOUS
<1>1. JobInv
  BY JobAssumption DEF ExtractionInit, JobInit, JobInv, JobTypeOK, OneActiveJob, IsActive,
     ActiveStatus, NoJob, Exists, JobIDs
<1>2. /\ Nothing \in Revisions /\ NoPrint \in Prints
      /\ NoChars \in [front: Nat, src: Revisions, etag: Revisions]
      /\ NoView \in [front: Nat, src: Revisions]
      /\ NoCheckpoint \in [fit: BOOLEAN, fp: Prints, res: Revisions]
  BY DEF Nothing, Revisions, NoPrint, Prints, NoChars, NoView, NoCheckpoint
<1>3. RunTypeOK /\ FilesTypeOK
  BY <1>2 DEF ExtractionInit, RunTypeOK, FilesTypeOK, IdleRun, Revisions
<1>4. RunSited /\ RunQuiet /\ RunSeeded /\ RunMerges
  BY DEF ExtractionInit, IdleRun, RunSited, RunQuiet, RunSeeded, RunMerges, WithJob, Generating,
     Seeded, Merging
<1>5. CheckpointIsTrue /\ DigestIsTrue
  BY DEF ExtractionInit, CheckpointIsTrue, DigestIsTrue, NoCheckpoint, NoChars, Nothing
<1>6. QED
  BY <1>1, <1>3, <1>4, <1>5 DEF ExInv, RunInv

\* The invariant holds of the running system, whatever is controlled, cleared,
\* changed, stopped and started again around the worker.
THEOREM ExtractionSafe == ExtractionSpec => []ExInv
<1>1. ExInv /\ [ExtractionNext]_exVars => ExInv'
  BY ExtractionStepInv
<1>2. QED
  BY ExtractionInit_Inv, <1>1, PTL DEF ExtractionSpec

\* The job documents change only as ExtractionJobStore allows.
THEOREM ExtractionImplementsJobStore == ExtractionSpec => ImplementsJobStore
<1>1. ExtractionInit => JobInit
  BY DEF ExtractionInit
<1>2. ExInv /\ [ExtractionNext]_exVars => [JobNext]_jobVars
  BY ExtractionStepInv
<1>3. QED
  BY <1>1, <1>2, ExtractionSafe, PTL DEF ExtractionSpec, ImplementsJobStore, JobSpec

\* A job is shown as paused or interrupted only when no worker generates for it.
THEOREM PausedStaysQuiet == ExtractionSpec => []PausedIsQuiet
<1>1. ExInv => PausedIsQuiet
  BY DEF ExInv, RunInv, RunQuiet, PausedIsQuiet, Waiting
<1>2. QED
  BY <1>1, ExtractionSafe, PTL

\* An etag is recorded for an episode only with what was extracted from exactly
\* that text, over pauses, restarts, checkpoints and changes of the library.
THEOREM DigestStaysTrue == ExtractionSpec => []DigestIsTrue
<1>1. ExInv => DigestIsTrue
  BY DEF ExInv, RunInv
<1>2. QED
  BY <1>1, ExtractionSafe, PTL

-----------------------------------------------------------------------------
(* What completion means                                                    *)

\* The text of the episode is newer than what was recorded of it.
Stale(n, e) == chars[n].etag[e] < content[n][e]

EtagsArePast ==
  \A n \in Novels, e \in Boundaries : chars[n].etag[e] <= content[n][e] /\ content[n][e] # 0

\* Terms that are not behind the characters are from the same texts, up to the
\* first episode that is to be processed again.
TermsFit ==
  \A n \in Novels : terms[n].front >= chars[n].front =>
    \A e \in Boundaries : e <= chars[n].front =>
      \/ chars[n].src[e] # 0 /\ terms[n].src[e] = chars[n].src[e]
      \/ \E i \in Boundaries : i <= e /\ Stale(n, i)

\* Only a clear takes the document of a job away that has a worker.
Present == Exists(run.job)

RunAsked ==
  run.pc \in WithJob /\ Present =>
    jobs[run.job].novel = run.novel /\ jobs[run.job].upTo = run.upTo

\* What the worker writes once it has a seed: the view the terms will be.
MergedTerms == [front |-> run.upTo, src |-> Merged(run.fp.terms)]

\* After a clear the worker goes on over an empty state.
RunCleared ==
  /\ run.pc \in {"register", "recheck", "start", "seed"} \cup Seeded /\ ~Present =>
       chars[novel] = NoChars
  /\ run.pc = "events" /\ ~Present => terms[novel] \in {NoView, MergedTerms}

\* Else the seed is that of the files, and below the first episode to process
\* it is whole.
RunStarted ==
  run.pc \in Seeded =>
    /\ run.fp.from <= run.upTo
    /\ \A e \in Boundaries : run.fp.input[e] <= content[novel][e]
    /\ Present =>
         /\ run.fp.chars = chars[novel].src
         /\ \A e \in Boundaries : e < run.fp.from => run.fp.chars[e] # 0 /\ run.fp.terms[e] = run.fp.chars[e]
         /\ run.pc # "events" => run.fp.terms = Below(terms[novel].src, run.fp.from)
         /\ run.fp.from <= chars[novel].front => Stale(novel, run.fp.from)
         /\ run.pc = "events" => terms[novel] = MergedTerms

Whole(n, u) ==
  /\ terms[n].front >= chars[n].front /\ chars[n].front >= u
  /\ \A e \in 1 .. u : terms[n].src[e] = chars[n].src[e] /\ chars[n].src[e] # 0

RunSaved ==
  /\ run.pc \in {"materialize", "profile", "delete", "complete"} /\ Present => Whole(novel, run.upTo)
  /\ run.pc \in {"delete", "complete"} /\ Present => profile[novel] = View(chars[novel])

ProfileTypeOK == profile \in [Novels -> [front: Nat, src: Revisions]]

FilesFit == EtagsArePast /\ TermsFit
WholeInv == FilesFit /\ RunAsked /\ RunCleared /\ RunStarted /\ RunSaved

\* The documents of the jobs there are stay, and what was asked for.
JobsStand ==
  \A j \in 1 .. lastJob :
    /\ Exists(j)' <=> Exists(j)
    /\ Exists(j) => jobs'[j].novel = jobs[j].novel /\ jobs'[j].upTo = jobs[j].upTo

Grown == \A n \in Novels, e \in Boundaries : content'[n][e] >= content[n][e]

-----------------------------------------------------------------------------
\* Every save keeps the document, its novel and its boundary.
LEMMA SaveStands ==
  ASSUME JobInv, NEW k \in JobIDs, Exists(k), NEW s \in JobStatus, SaveJob(k, s)
  PROVE  JobsStand
<1>1. 1 .. lastJob \subseteq JobIDs
  BY JobAssumption DEF JobInv, JobTypeOK, JobIDs
<1>2. jobs[k] \in Job
  BY DEF Exists, JobInv, JobTypeOK, NoJob
<1>3. jobs' = [jobs EXCEPT ![k] = [jobs[k] EXCEPT !.status = s]]
  BY DEF SaveJob
<1>4. /\ jobs'[k].status = s /\ jobs'[k].novel = jobs[k].novel /\ jobs'[k].upTo = jobs[k].upTo
      /\ \A j \in JobIDs : j # k => jobs'[j] = jobs[j]
  BY <1>2, <1>3 DEF Job, JobInv, JobTypeOK
<1>5. s # "none"
  BY DEF JobStatus
<1>6. QED
  BY <1>1, <1>4, <1>5 DEF JobsStand, Exists

LEMMA JobsStandStep ==
  ASSUME JobInv,
         \/ \E n \in Novels, u \in Boundaries : SaveJobIfNoActive(n, u)
         \/ \E j \in JobIDs, a \in JobActions : ControlJob(j, a)
         \/ \E j \in JobIDs, s \in Saves : SaveJobIfCurrentStatus(j, s[1], s[2])
         \/ \E j \in JobIDs : FinalizePausingJob(j)
         \/ \E j \in JobIDs, fit \in BOOLEAN : RecoverRunningJob(j, fit)
         \/ UNCHANGED jobVars
  PROVE  JobsStand
<1>1. CASE UNCHANGED jobVars
  BY <1>1 DEF jobVars, JobsStand, Exists
<1>2. ASSUME NEW n \in Novels, NEW u \in Boundaries, SaveJobIfNoActive(n, u)
      PROVE  JobsStand
  <2>1. lastJob \in Nat /\ 1 .. lastJob \subseteq JobIDs
    BY JobAssumption DEF JobInv, JobTypeOK, JobIDs
  <2>2. \A j \in 1 .. lastJob : jobs'[j] = jobs[j]
    BY <1>2, <2>1 DEF SaveJobIfNoActive, JobInv, JobTypeOK
  <2>3. QED
    BY <2>2 DEF JobsStand, Exists
<1>3. ASSUME NEW k \in JobIDs, NEW a \in JobActions, ControlJob(k, a)
      PROVE  JobsStand
  <2>1. jobs[k].status \in JobStatus
    BY <1>3 DEF ControlJob, Exists, JobInv, JobTypeOK, Job, NoJob
  <2>2. QED
    BY <1>3, <2>1, ControlledStatus, SaveStands DEF ControlJob
<1>4. ASSUME NEW k \in JobIDs, NEW s \in Saves, SaveJobIfCurrentStatus(k, s[1], s[2])
      PROVE  JobsStand
  <2>1. s[1] \in JobStatus /\ (Matches(k, s[2]) => Exists(k))
    BY DEF Saves, JobStatus, Matches, Executable, Exists
  <2>2. QED
    BY <1>1, <1>4, <2>1, SaveStands DEF SaveJobIfCurrentStatus
<1>5. ASSUME NEW k \in JobIDs, FinalizePausingJob(k)
      PROVE  JobsStand
  BY <1>1, <1>5, SaveStands DEF FinalizePausingJob, Exists, JobStatus
<1>6. ASSUME NEW k \in JobIDs, NEW fit \in BOOLEAN, RecoverRunningJob(k, fit)
      PROVE  JobsStand
  <2>1. Exists(k)
    BY <1>6 DEF RecoverRunningJob, Unrecovered, Exists
  <2>2. QED
    BY <1>6, <2>1, SaveStands DEF RecoverRunningJob, JobStatus
<1>7. QED
  BY <1>1, <1>2, <1>3, <1>4, <1>5, <1>6

-----------------------------------------------------------------------------
(* Where nothing of a novel but its texts changes                           *)

LEMMA FilesStillFit ==
  ASSUME RunInv, RunInv', FilesFit, UNCHANGED <<chars, terms>>, Grown
  PROVE  FilesFit' /\ \A n \in Novels, e \in Boundaries : Stale(n, e) => Stale(n, e)'
<1>1. ASSUME NEW n \in Novels, NEW e \in Boundaries
      PROVE  /\ content[n][e] \in Nat /\ content'[n][e] \in Nat /\ chars[n].etag[e] \in Nat
             /\ content'[n][e] >= content[n][e]
  BY DEF RunInv, FilesTypeOK, Revisions, Grown
<1>2. EtagsArePast'
  BY <1>1 DEF FilesFit, EtagsArePast
<1>3. \A n \in Novels, e \in Boundaries : Stale(n, e) => Stale(n, e)'
  BY <1>1 DEF Stale
<1>4. TermsFit'
  BY <1>3 DEF FilesFit, TermsFit
<1>5. QED
  BY <1>2, <1>3, <1>4 DEF FilesFit

\* The job in hand exists after the step if and only if it did before.
LEMMA PresentStands ==
  ASSUME RunInv, JobsStand, SameJob, run.pc \in WithJob
  PROVE  /\ Present' <=> Present
         /\ Present => jobs'[run.job].novel = jobs[run.job].novel
                       /\ jobs'[run.job].upTo = jobs[run.job].upTo
BY DEF RunInv, RunSited, JobsStand, SameJob, Present, Exists

\* The worker does not move while others act.
LEMMA WholeStays ==
  ASSUME RunInv, RunInv', WholeInv, UNCHANGED <<chars, terms>>, Grown, JobsStand,
         SameWork, run'.pc = run.pc,
         \A n \in Novels : profile'[n] \in {profile[n], View(chars[n])}
  PROVE  WholeInv'
<1> USE DEF WholeInv
<1>1. FilesFit' /\ \A n \in Novels, e \in Boundaries : Stale(n, e) => Stale(n, e)'
  BY FilesStillFit
<1>2. run.pc \in WithJob =>
        /\ Present' <=> Present
        /\ run.novel \in Novels
        /\ Present => jobs'[run.job].novel = jobs[run.job].novel
                      /\ jobs'[run.job].upTo = jobs[run.job].upTo
  BY PresentStands DEF SameWork, RunInv, RunSited
<1>3. RunAsked'
  BY <1>2 DEF RunAsked, SameWork, SameJob
<1>4. RunCleared'
  <2>1. novel' = novel /\ MergedTerms' = MergedTerms
    BY DEF SameWork, SameJob, novel, MergedTerms, Merged
  <2>2. CASE run.pc \in WithJob
    BY <1>2, <2>1, <2>2 DEF RunCleared
  <2>3. CASE run.pc \notin WithJob
    BY <2>3 DEF RunCleared, WithJob, Generating, Seeded
  <2>4. QED
    BY <2>2, <2>3
<1>5. RunStarted'
  <2>1. SUFFICES ASSUME run.pc \in Seeded
                 PROVE  RunStarted'
    BY DEF RunStarted, SameWork
  <2>2. run.pc \in WithJob /\ novel \in Novels /\ novel' = novel
    BY <2>1 DEF Seeded, WithJob, Generating, RunInv, RunSited, novel, SameWork, SameJob
  <2>3. \A e \in Boundaries : run.fp.input[e] <= content'[novel][e]
    <3>1. SUFFICES ASSUME NEW e \in Boundaries PROVE run.fp.input[e] <= content'[novel][e]
      OBVIOUS
    <3>2. run.fp.input[e] \in Nat /\ content[novel][e] \in Nat /\ content'[novel][e] \in Nat
      BY <2>2 DEF RunInv, RunTypeOK, FilesTypeOK, Prints, Revisions
    <3>3. run.fp.input[e] <= content[novel][e] /\ content'[novel][e] >= content[novel][e]
      BY <2>1, <2>2 DEF RunStarted, Grown
    <3>4. QED
      BY <3>2, <3>3
  <2>4. run.fp.from <= chars[novel].front /\ Present => Stale(novel, run.fp.from)'
    <3>1. SUFFICES ASSUME run.fp.from <= chars[novel].front, Present
                   PROVE  Stale(novel, run.fp.from)'
      OBVIOUS
    <3>2. Stale(novel, run.fp.from) /\ run.fp.from <= run.upTo
      BY <2>1, <3>1 DEF RunStarted
    <3>3. run.fp.from \in Boundaries
      BY <2>1, <2>2, <3>2, JobAssumption DEF RunInv, RunSited, RunSeeded, RunTypeOK, Prints, Boundaries
    <3>4. QED
      BY <1>1, <2>2, <3>2, <3>3 DEF Stale, SameWork
  <2>5. MergedTerms' = MergedTerms /\ run'.fp = run.fp /\ run'.upTo = run.upTo
    BY DEF SameWork, SameJob, MergedTerms, Merged
  <2>6. QED
    BY <1>2, <2>1, <2>2, <2>3, <2>4, <2>5 DEF RunStarted
<1>6. RunSaved'
  BY <1>2 DEF RunSaved, Whole, SameWork, SameJob, WithJob, Generating, novel
<1>7. QED
  BY <1>1, <1>3, <1>4, <1>5, <1>6
-----------------------------------------------------------------------------
(* The worker                                                               *)

\* What the worker does not write stays whole.
FilesAside == UNCHANGED <<content, chars, terms, profile>>

LEMMA FilesAsideFit ==
  ASSUME RunInv, RunInv', FilesFit, UNCHANGED <<content, chars, terms>>
  PROVE  FilesFit'
<1>1. Grown
  BY DEF Grown, RunInv, FilesTypeOK, Revisions
<1>2. QED
  BY <1>1, FilesStillFit

\* The worker has nothing in hand, or a job it no longer works on.
LEMMA WholeLeaves ==
  ASSUME RunInv, RunInv', WholeInv, UNCHANGED <<content, chars, terms>>, JobsStand,
         \/ run'.pc \in {"idle", "load", "quarantine"}
         \/ run'.pc \in {"error", "end", "finalize"} /\ run.pc \in WithJob /\ SameJob
  PROVE  WholeInv'
<1> USE DEF WholeInv
<1>1. FilesFit'
  BY FilesAsideFit
<1>2. RunAsked'
  <2>1. CASE run'.pc \in {"idle", "load", "quarantine"}
    BY <2>1 DEF RunAsked, WithJob, Generating
  <2>2. CASE run.pc \in WithJob /\ SameJob
    BY <2>2, PresentStands DEF RunAsked, SameJob
  <2>3. QED
    BY <2>1, <2>2
<1>3. RunCleared' /\ RunStarted' /\ RunSaved'
  BY DEF RunCleared, RunStarted, RunSaved, Seeded
<1>4. QED
  BY <1>1, <1>2, <1>3

\* The worker goes on with what it has read.
LEMMA WholeGoesOn ==
  ASSUME RunInv, RunInv', WholeInv, FilesAside, JobsStand, SameJob, run'.fp = run.fp,
         \/ run.pc = "register" /\ run'.pc = "recheck"
         \/ run.pc = "recheck" /\ run'.pc = "start"
         \/ run.pc = "start" /\ run'.pc = "seed"
         \/ run.pc = "batch" /\ run'.pc = "answer"
         \/ run.pc = "answer" /\ run'.pc = "SaveCheckpoint"
         \/ run.pc = "SaveCheckpoint" /\ run'.pc = "batch"
  PROVE  WholeInv'
<1> USE DEF WholeInv
<1>1. FilesFit'
  BY FilesAsideFit DEF FilesAside
<1>2. /\ run.pc \in WithJob /\ novel' = novel
      /\ run.pc \in {"register", "recheck", "start", "seed"} \cup Seeded
      /\ run'.pc \in {"recheck", "start", "seed", "batch", "answer", "SaveCheckpoint"}
  BY DEF WithJob, Generating, Seeded, novel, SameJob
<1>3. /\ Present' <=> Present
      /\ Present => jobs'[run.job].novel = jobs[run.job].novel
                    /\ jobs'[run.job].upTo = jobs[run.job].upTo
  BY <1>2, PresentStands
<1>4. RunAsked'
  BY <1>2, <1>3 DEF RunAsked, SameJob
<1>5. RunCleared'
  BY <1>2, <1>3 DEF RunCleared, FilesAside
<1>6. RunStarted'
  <2>1. run'.pc \in Seeded => run.pc \in Seeded /\ run.pc # "events"
    BY DEF Seeded
  <2>2. Stale(novel, run.fp.from) => Stale(novel, run.fp.from)'
    BY <1>2 DEF Stale, FilesAside
  <2>3. QED
    BY <1>2, <1>3, <2>1, <2>2 DEF RunStarted, SameJob, FilesAside
<1>7. RunSaved'
  BY <1>2 DEF RunSaved
<1>8. QED
  BY <1>1, <1>4, <1>5, <1>6, <1>7

\* The worker takes a job up.
LEMMA LoadWhole ==
  ASSUME ExInv, RunInv', WholeInv, Load
  PROVE  WholeInv'
<1> USE DEF ExInv
<1>1. UNCHANGED <<content, chars, terms>> /\ UNCHANGED jobVars
  BY DEF Load, stateFiles
<1>2. JobsStand
  BY <1>1, JobsStandStep
<1>3. CASE run' = IdleRun
  BY <1>1, <1>2, <1>3, WholeLeaves DEF IdleRun
<1>4. CASE run' # IdleRun
  <2> DEFINE j == Min(ForExecution)
  <2>1. /\ ForExecution # {}
        /\ run' = [IdleRun EXCEPT !.pc = "register", !.job = j, !.novel = jobs[j].novel,
                                  !.upTo = jobs[j].upTo, !.status = jobs[j].status]
    BY <1>4 DEF Load
  <2>2. j \in ForExecution
    BY <2>1, MinIsLeast DEF ForExecution, JobIDs
  <2> HIDE DEF j
  <2>3. /\ run'.pc = "register" /\ run'.job = j /\ run'.novel = jobs[j].novel
        /\ run'.upTo = jobs[j].upTo
    BY <2>1 DEF IdleRun
  <2>4. Exists(j)
    BY <2>2 DEF ForExecution, Exists, Executable
  <2>5. Present' /\ jobs' = jobs
    BY <1>1, <2>3, <2>4 DEF Present, Exists, jobVars
  <2>6. RunAsked' /\ RunCleared' /\ RunStarted' /\ RunSaved'
    BY <2>3, <2>5 DEF RunAsked, RunCleared, RunStarted, RunSaved, Seeded
  <2>7. QED
    BY <1>1, <2>6, FilesAsideFit DEF WholeInv
<1>5. QED
  BY <1>3, <1>4

\* Begin, Register, Recheck and Unregister.
LEMMA ProcessJobsWhole ==
  ASSUME ExInv, RunInv', WholeInv, Begin \/ Register \/ Recheck \/ Unregister
  PROVE  WholeInv'
<1> USE DEF ExInv, At
<1>1. FilesAside /\ UNCHANGED <<content, chars, terms>> /\ UNCHANGED jobVars
  BY DEF FilesAside, Begin, Register, Recheck, Unregister, stateFiles
<1>2. JobsStand /\ RunTypeOK
  BY <1>1, JobsStandStep DEF RunInv
<1>3. CASE Begin
  <2>1. run'.pc = "load"
    BY <1>2, <1>3 DEF Begin, Go, RunTypeOK
  <2>2. QED
    BY <1>1, <1>2, <2>1, WholeLeaves
<1>4. CASE Register
  <2>1. run.pc = "register" /\ run'.pc = "recheck" /\ SameJob /\ run'.fp = run.fp
    BY <1>2, <1>4 DEF Register, RunTypeOK, SameJob
  <2>2. QED
    BY <1>1, <1>2, <2>1, WholeGoesOn
<1>5. CASE Recheck
  <2>1. run.pc = "recheck"
    BY <1>5 DEF Recheck
  <2>2. CASE run' = [run EXCEPT !.pc = "start"]
    <3>1. run'.pc = "start" /\ SameJob /\ run'.fp = run.fp
      BY <1>2, <2>2 DEF RunTypeOK, SameJob
    <3>2. QED
      BY <1>1, <1>2, <2>1, <3>1, WholeGoesOn
  <2>3. CASE run' = [IdleRun EXCEPT !.pc = "load"]
    BY <1>1, <1>2, <2>3, WholeLeaves DEF IdleRun
  <2>4. QED
    BY <1>5, <2>2, <2>3 DEF Recheck
<1>6. CASE Unregister
  <2>1. run.pc = "end" /\ run'.pc = "finalize" /\ SameJob
    BY <1>2, <1>6 DEF Unregister, RunTypeOK, SameJob
  <2>2. QED
    BY <1>1, <1>2, <2>1, WholeLeaves DEF WithJob
<1>7. QED
  BY <1>3, <1>4, <1>5, <1>6

\* The saves of the status.
LEMMA StatusStands ==
  ASSUME ExInv, Start \/ Unresolved \/ Failed \/ Completed \/ Finalize
  PROVE  JobsStand
<1> USE DEF ExInv, At
<1>1. run.pc \in {"start", "error", "complete", "finalize"}
  BY DEF Start, Unresolved, Failed, Completed, Finalize
<1>2. run.job \in JobIDs
  BY <1>1, JobAssumption DEF RunInv, RunSited, WithJob, JobInv, JobTypeOK, JobIDs
<1>3. \A s \in {"running", "failed"} : <<s, Executable>> \in Saves
  BY DEF Saves
<1>4. \A s \in {"failed", "completed"} : <<s, {"running"}>> \in Saves
  BY DEF Saves
<1>5. \/ \E s \in Saves : SaveJobIfCurrentStatus(run.job, s[1], s[2])
      \/ FinalizePausingJob(run.job)
      \/ UNCHANGED jobVars
  BY <1>3, <1>4 DEF Start, Unresolved, Failed, Completed, Finalize
<1>6. QED
  BY <1>2, <1>5, JobsStandStep

LEMMA StatusWhole ==
  ASSUME ExInv, RunInv', WholeInv, Start \/ Unresolved \/ Failed \/ Completed \/ Finalize
  PROVE  WholeInv'
<1> USE DEF ExInv, At
<1>1. FilesAside /\ UNCHANGED <<content, chars, terms>> /\ RunTypeOK
  BY DEF FilesAside, Start, Unresolved, Failed, Completed, Finalize, stateFiles, RunInv
<1>2. run.pc \in WithJob /\ JobsStand
  BY StatusStands DEF Start, Unresolved, Failed, Completed, Finalize, WithJob
<1>3. \/ run' = [run EXCEPT !.pc = "end"]
      \/ run' = [IdleRun EXCEPT !.pc = "load"]
      \/ run.pc = "start" /\ run' = [run EXCEPT !.pc = "seed"]
  BY DEF Start, Unresolved, Failed, Completed, Finalize, Go
<1>4. CASE run' = [run EXCEPT !.pc = "end"]
  <2>1. run'.pc = "end" /\ SameJob
    BY <1>1, <1>4 DEF RunTypeOK, SameJob
  <2>2. QED
    BY <1>1, <1>2, <2>1, WholeLeaves
<1>5. CASE run' = [IdleRun EXCEPT !.pc = "load"]
  BY <1>1, <1>2, <1>5, WholeLeaves DEF IdleRun
<1>6. CASE run.pc = "start" /\ run' = [run EXCEPT !.pc = "seed"]
  <2>1. run'.pc = "seed" /\ SameJob /\ run'.fp = run.fp
    BY <1>1, <1>6 DEF RunTypeOK, SameJob
  <2>2. QED
    BY <1>1, <1>2, <1>6, <2>1, WholeGoesOn
<1>7. QED
  BY <1>3, <1>4, <1>5, <1>6

\* An error, wherever the worker is, and the end of the process.
LEMMA ErrorWhole ==
  ASSUME ExInv, RunInv', WholeInv, UNCHANGED <<content, chars, terms>>, UNCHANGED jobVars,
         \/ run.pc \in WithJob /\ \E e \in {"canceled", "legacy", "incompatible", "failure"} : Error(e)
         \/ JobFault \/ Exit \/ Crash
  PROVE  WholeInv'
<1> USE DEF ExInv
<1>1. JobsStand /\ RunTypeOK
  BY JobsStandStep DEF RunInv
<1>2. CASE run.pc \in WithJob /\ \E e \in {"canceled", "legacy", "incompatible", "failure"} : Error(e)
  <2>1. run'.pc = "error" /\ SameJob
    BY <1>1, <1>2, Erred DEF SameWork
  <2>2. QED
    BY <1>1, <1>2, <2>1, WholeLeaves
<1>3. CASE JobFault
  <2>1. \/ run' = IdleRun \/ run' = [IdleRun EXCEPT !.pc = "load"]
        \/ run.pc \in WithJob /\ run' = [run EXCEPT !.pc = "end"]
    BY <1>3 DEF JobFault, WithJob
  <2>2. run'.pc \in {"idle", "load"} \/ (run.pc \in WithJob /\ run'.pc = "end" /\ SameJob)
    BY <1>1, <2>1 DEF IdleRun, RunTypeOK, SameJob
  <2>3. QED
    BY <1>1, <2>2, WholeLeaves
<1>4. CASE Exit \/ Crash
  BY <1>1, <1>4, WholeLeaves DEF Exit, Crash, Stopped, IdleRun
<1>5. QED
  BY <1>2, <1>3, <1>4
-----------------------------------------------------------------------------
(* The seed                                                                 *)

\* What is below the first episode that is not current is whole.
LEMMA SeedIsWhole ==
  ASSUME RunInv, FilesFit, NEW n \in Novels, NEW b \in Nat,
         terms[n].front >= chars[n].front,
         \A e \in Boundaries : e < b => e <= chars[n].front /\ ~Stale(n, e)
  PROVE  \A e \in Boundaries : e < b => chars[n].src[e] # 0 /\ terms[n].src[e] = chars[n].src[e]
<1>1. SUFFICES ASSUME NEW e \in Boundaries, e < b
               PROVE  chars[n].src[e] # 0 /\ terms[n].src[e] = chars[n].src[e]
  OBVIOUS
<1>2. \A i \in Boundaries : i <= e => ~Stale(n, i)
  BY <1>1, JobAssumption DEF Boundaries
<1>3. e <= chars[n].front
  BY <1>1
<1>4. QED
  BY <1>2, <1>3 DEF FilesFit, TermsFit

\* An episode that was recorded with another etag than the current one was
\* recorded before.
LEMMA OtherEtagIsStale ==
  ASSUME RunInv, FilesFit, NEW n \in Novels, NEW e \in Boundaries
  PROVE  chars[n].etag[e] # content[n][e] <=> Stale(n, e)
<1>1. chars[n].etag[e] \in Nat /\ content[n][e] \in Nat
  BY DEF RunInv, FilesTypeOK, Revisions
<1>2. chars[n].etag[e] <= content[n][e]
  BY DEF FilesFit, EtagsArePast
<1>3. QED
  BY <1>1, <1>2 DEF Stale

LEMMA SeedWhole ==
  ASSUME ExInv, RunInv', WholeInv, Seed
  PROVE  WholeInv'
<1> USE DEF ExInv, At
<1> DEFINE c == chars[novel]
           stale == {e \in Boundaries : /\ e <= c.front /\ e <= run.upTo
                                        /\ c.etag[e] # content[novel][e]}
           again == ReprocessFrom(c)
           from == IF again # 0 THEN again ELSE c.front + 1
           fp == [from |-> from, chars |-> c.src, terms |-> Below(terms[novel].src, from),
                  input |-> Nothing]
<1>1. run.pc = "seed" /\ FilesAside /\ UNCHANGED <<content, chars, terms>> /\ UNCHANGED jobVars
  BY DEF Seed, FilesAside, stateFiles
<1>2. /\ novel \in Novels /\ c \in [front: Nat, src: Revisions, etag: Revisions]
      /\ terms[novel] \in [front: Nat, src: Revisions]
      /\ run.upTo \in Boundaries /\ run.upTo \in Nat /\ run.pc \in WithJob /\ RunTypeOK
  BY <1>1 DEF novel, RunInv, RunSited, RunTypeOK, WithJob, Generating, FilesTypeOK
<1>3. /\ stale \in SUBSET Nat /\ again = IF stale = {} THEN 0 ELSE Min(stale)
      /\ \A e \in stale : Stale(novel, e)
      /\ \A e \in Boundaries : e <= c.front /\ e <= run.upTo /\ e \notin stale => ~Stale(novel, e)
  BY <1>2, OtherEtagIsStale DEF ReprocessFrom, Boundaries, WholeInv
<1> HIDE DEF stale
<1>4. stale # {} => /\ again \in stale /\ again # 0
                    /\ \A e \in stale : again <= e
  BY <1>3, MinIsLeast DEF Boundaries, stale
<1>5. JobsStand
  BY <1>1, JobsStandStep
<1>6. /\ Present' <=> Present
      /\ Present => jobs'[run.job].novel = jobs[run.job].novel
                    /\ jobs'[run.job].upTo = jobs[run.job].upTo
  BY <1>1 DEF Present, Exists, jobVars, Seed, Error, Go, RunInv, RunTypeOK
<1>7. CASE Error("canceled") \/ Error("legacy")
  BY <1>1, <1>2, <1>7, ErrorWhole
<1>8. ASSUME ~(terms[novel].front < c.front)
      PROVE  /\ terms[novel].front >= c.front
             /\ again = 0 => \A e \in Boundaries : e <= c.front /\ e <= run.upTo => ~Stale(novel, e)
             /\ again # 0 => /\ again \in Boundaries /\ again <= c.front /\ again <= run.upTo
                             /\ Stale(novel, again)
                             /\ \A e \in Boundaries : e < again => e <= c.front /\ ~Stale(novel, e)
  <2>1. terms[novel].front >= c.front
    BY <1>2, <1>8
  <2>2. CASE again = 0
    BY <1>3, <1>4, <2>1, <2>2
  <2>3. CASE again # 0
    <3>1. /\ again \in stale /\ \A e \in stale : again <= e
      BY <1>3, <1>4, <2>3
    <3>2. /\ again \in Boundaries /\ again <= c.front /\ again <= run.upTo /\ Stale(novel, again)
      BY <1>3, <3>1 DEF stale
    <3>3. ASSUME NEW e \in Boundaries, e < again
          PROVE  e <= c.front /\ ~Stale(novel, e)
      <4>1. e <= c.front /\ e <= run.upTo
        BY <1>2, <3>2, <3>3 DEF Boundaries
      <4>2. e \notin stale
        BY <3>1, <3>2, <3>3 DEF Boundaries
      <4>3. QED
        BY <1>3, <4>1, <4>2
    <3>4. QED
      BY <2>1, <2>3, <3>2, <3>3
  <2>4. QED
    BY <2>2, <2>3
<1>9. CASE ~(terms[novel].front < c.front) /\ again = 0 /\ c.front >= run.upTo /\ Go("materialize")
  <2>1. run'.pc = "materialize" /\ SameJob
    BY <1>2, <1>9 DEF Go, RunTypeOK, SameJob
  <2>2. \A e \in Boundaries : e < run.upTo + 1 => e <= c.front /\ ~Stale(novel, e)
    BY <1>2, <1>8, <1>9 DEF Boundaries
  <2>3. \A e \in Boundaries : e < run.upTo + 1 => c.src[e] # 0 /\ terms[novel].src[e] = c.src[e]
    BY <1>2, <1>8, <1>9, <2>2, SeedIsWhole DEF WholeInv
  <2>4. Whole(novel, run.upTo)
    BY <1>2, <1>8, <1>9, <2>3, JobAssumption DEF Whole, Boundaries
  <2>5. RunSaved'
    BY <1>1, <2>1, <2>4 DEF RunSaved, Whole, SameJob, novel, FilesAside
  <2>6. RunAsked' /\ RunCleared' /\ RunStarted'
    BY <1>2, <1>6, <2>1 DEF WholeInv, RunAsked, RunCleared, RunStarted, Seeded, SameJob
  <2>7. QED
    BY <1>1, <2>5, <2>6, FilesAsideFit DEF WholeInv
<1>10. CASE /\ ~(terms[novel].front < c.front) /\ ~(again = 0 /\ c.front >= run.upTo)
            /\ run' = [run EXCEPT !.pc = "input", !.again = again # 0, !.fp = fp]
  <2>1. again \in Nat
    BY <1>8, <1>10 DEF Boundaries
  <2> HIDE DEF again
  <2>2. /\ from \in Nat /\ from <= run.upTo
        /\ \A e \in Boundaries : e < from => e <= c.front /\ ~Stale(novel, e)
        /\ from <= c.front => Stale(novel, from)
    <3>1. CASE again = 0
      <4>1. from = c.front + 1 /\ c.front \in Nat /\ c.front < run.upTo
        BY <1>2, <1>10, <3>1
      <4> HIDE DEF from
      <4>2. \A e \in Boundaries : e < from => e <= c.front /\ e <= run.upTo
        BY <1>2, <4>1 DEF Boundaries
      <4>3. QED
        BY <1>2, <1>8, <1>10, <3>1, <4>1, <4>2
    <3>2. CASE again # 0
      BY <1>8, <1>10, <2>1, <3>2
    <3>3. QED
      BY <3>1, <3>2
  <2> HIDE DEF from
  <2>3. \A e \in Boundaries : e < from => c.src[e] # 0 /\ terms[novel].src[e] = c.src[e]
    BY <1>2, <1>8, <1>10, <2>2, SeedIsWhole DEF WholeInv
  <2>4. /\ run'.pc = "input" /\ SameJob /\ run'.fp = fp /\ novel' = novel
    BY <1>2, <1>10 DEF RunTypeOK, SameJob, novel
  <2>5. /\ fp.from = from /\ fp.chars = c.src /\ fp.terms = Below(terms[novel].src, from)
        /\ \A e \in Boundaries : fp.input[e] = 0
        /\ \A e \in Boundaries : e < from => fp.terms[e] = terms[novel].src[e]
    BY DEF Nothing, Below
  <2> HIDE DEF fp
  <2>6. \A e \in Boundaries : fp.input[e] <= content[novel][e]
    BY <1>2, <2>5 DEF RunInv, FilesTypeOK, Revisions
  <2>7. RunStarted'
    <3>1. \A e \in Boundaries : e < from => fp.chars[e] # 0 /\ fp.terms[e] = fp.chars[e]
      BY <2>3, <2>5
    <3>2. from <= c.front => chars[novel].etag[from] < content[novel][from]
      BY <2>2 DEF Stale
    <3>3. chars'[novel] = c /\ content'[novel] = content[novel] /\ terms'[novel] = terms[novel]
      BY <1>1
    <3> HIDE DEF c
    <3>5. /\ run'.fp.from <= run'.upTo /\ run'.pc # "events"
          /\ \A e \in Boundaries : run'.fp.input[e] <= content'[novel'][e]
      BY <2>2, <2>4, <2>5, <2>6, <3>3 DEF SameJob
    <3>6. /\ run'.fp.chars = chars'[novel'].src
          /\ run'.fp.terms = Below(terms'[novel'].src, run'.fp.from)
          /\ \A e \in Boundaries : e < run'.fp.from => run'.fp.chars[e] # 0 /\ run'.fp.terms[e] = run'.fp.chars[e]
      BY <2>4, <2>5, <3>1, <3>3
    <3>7. run'.fp.from <= chars'[novel'].front =>
            chars'[novel'].etag[run'.fp.from] < content'[novel'][run'.fp.from]
      BY <1>1, <2>4, <2>5, <3>2 DEF c
    <3>8. QED
      BY <3>5, <3>6, <3>7 DEF RunStarted, Stale
  <2>8. RunAsked' /\ RunCleared' /\ RunSaved'
    BY <1>1, <1>2, <1>6, <2>4 DEF WholeInv, RunAsked, RunCleared, RunSaved, SameJob
  <2>9. QED
    BY <1>1, <2>7, <2>8, FilesAsideFit DEF WholeInv
<1>11. QED
  BY <1>7, <1>9, <1>10 DEF Seed
-----------------------------------------------------------------------------
(* Texts, checkpoint and answers                                            *)

\* Where a run goes on in Seeded with another fingerprint of the same seed.
LEMMA WholeReads ==
  ASSUME RunInv, RunInv', WholeInv, FilesAside, UNCHANGED jobVars, SameJob,
         run.pc = "input", run'.pc \in {"input", "batch"},
         run'.fp.from = run.fp.from,
         \A e \in Boundaries : run'.fp.input[e] \in {run.fp.input[e], content[novel][e]},
         Present => run'.fp.chars = run.fp.chars /\ run'.fp.terms = run.fp.terms
  PROVE  WholeInv'
<1> USE DEF WholeInv
<1>1. /\ run.pc \in WithJob /\ novel' = novel /\ novel \in Novels
      /\ run.pc \in Seeded /\ run'.pc \in Seeded
      /\ content' = content /\ chars' = chars /\ terms' = terms
  BY DEF WithJob, Generating, Seeded, novel, SameJob, RunInv, RunSited, FilesAside
<1>2. /\ Present' <=> Present
      /\ Present => jobs'[run.job].novel = jobs[run.job].novel
                    /\ jobs'[run.job].upTo = jobs[run.job].upTo
  BY DEF Present, Exists, SameJob, jobVars
<1>3. FilesFit'
  BY FilesAsideFit DEF FilesAside
<1>4. RunAsked' /\ RunSaved'
  BY <1>1, <1>2 DEF RunAsked, RunSaved, SameJob
<1>5. RunCleared'
  BY <1>1, <1>2 DEF RunCleared
<1>6. RunStarted'
  <2>1. \A e \in Boundaries : run'.fp.input[e] <= content[novel][e]
    <3>1. SUFFICES ASSUME NEW e \in Boundaries PROVE run'.fp.input[e] <= content[novel][e]
      OBVIOUS
    <3>2. content[novel][e] \in Nat /\ run.fp.input[e] <= content[novel][e]
      BY <1>1 DEF RunStarted, RunInv, FilesTypeOK, Revisions
    <3>3. QED
      BY <3>2
  <2>2. Stale(novel, run.fp.from) => chars'[novel'].etag[run'.fp.from] < content'[novel'][run'.fp.from]
    BY <1>1 DEF Stale
  <2>3. ASSUME Present
        PROVE  /\ run'.fp.chars = chars'[novel'].src
               /\ \A e \in Boundaries : e < run'.fp.from =>
                    run'.fp.chars[e] # 0 /\ run'.fp.terms[e] = run'.fp.chars[e]
               /\ run'.fp.terms = Below(terms'[novel'].src, run'.fp.from)
               /\ run'.fp.from <= chars'[novel'].front =>
                    chars'[novel'].etag[run'.fp.from] < content'[novel'][run'.fp.from]
    BY <1>1, <2>2, <2>3 DEF RunStarted
  <2>4. run'.fp.from <= run'.upTo /\ run'.pc # "events"
    BY <1>1 DEF RunStarted, SameJob
  <2>5. QED
    BY <1>1, <1>2, <2>1, <2>3, <2>4 DEF RunStarted, Stale
<1>7. QED
  BY <1>3, <1>4, <1>5, <1>6

LEMMA LoadInputWhole ==
  ASSUME ExInv, RunInv', WholeInv, LoadInput
  PROVE  WholeInv'
<1> USE DEF ExInv, At
<1> DEFINE e == Min(Unread)
           w == content[novel][e]
<1>1. /\ run.pc = "input" /\ FilesAside /\ UNCHANGED <<content, chars, terms>> /\ UNCHANGED jobVars
      /\ Unread # {}
  BY DEF LoadInput, FilesAside, stateFiles
<1>2. CASE Error("canceled")
  BY <1>1, <1>2, ErrorWhole DEF WithJob, Generating
<1>3. CASE run' = [run EXCEPT !.fp.input[e] = w]
  <2>1. /\ run.fp \in Prints /\ run.upTo \in Boundaries /\ run.fp.from \in Nat \ {0} /\ RunTypeOK
    BY <1>1 DEF RunInv, RunSited, RunSeeded, RunTypeOK, WithJob, Generating, Seeded, Prints
  <2>2. e \in Unread
    BY <1>1, <2>1, MinIsLeast DEF Unread, Boundaries
  <2>3. e \in Boundaries
    BY <2>1, <2>2, JobAssumption DEF Unread, Boundaries
  <2> HIDE DEF e
  <2> DEFINE fp == [run.fp EXCEPT !.input = [run.fp.input EXCEPT ![e] = w]]
  <2>4. run' = [run EXCEPT !.fp = fp]
    BY <1>3
  <2>5. /\ fp.from = run.fp.from /\ fp.chars = run.fp.chars /\ fp.terms = run.fp.terms
        /\ \A i \in Boundaries : fp.input[i] \in {run.fp.input[i], content[novel][i]}
    BY <2>1, <2>3 DEF Prints, Revisions
  <2> HIDE DEF fp
  <2>6. run'.pc = "input" /\ run'.fp = fp /\ SameJob
    BY <1>1, <2>1, <2>4 DEF RunTypeOK, SameJob
  <2>7. QED
    BY <1>1, <2>5, <2>6, WholeReads
<1>4. QED
  BY <1>2, <1>3 DEF LoadInput

\* A second look at the seed finds it as it was, unless the novel was cleared.
LEMMA LoadCheckpointWhole ==
  ASSUME ExInv, RunInv', WholeInv, LoadCheckpoint
  PROVE  WholeInv'
<1> USE DEF ExInv, At
<1> DEFINE cp == checkpoint[novel][run.upTo]
           fp == Reseeded
<1>1. /\ run.pc = "input" /\ FilesAside /\ UNCHANGED <<content, chars, terms>> /\ UNCHANGED jobVars
      /\ RunTypeOK /\ run.fp \in Prints
  BY DEF LoadCheckpoint, FilesAside, RunInv, RunTypeOK
<1>2. CASE Error("incompatible")
  BY <1>1, <1>2, ErrorWhole DEF WithJob, Generating
<1>3. CASE run' = [run EXCEPT !.pc = "batch", !.fp = fp, !.res = cp.res]
  <2>1. /\ fp.from = run.fp.from /\ fp.input = run.fp.input
        /\ Present => fp.chars = run.fp.chars /\ fp.terms = run.fp.terms
    BY <1>1 DEF Reseeded, Prints, WholeInv, RunStarted, Seeded
  <2> HIDE DEF fp
  <2>2. run'.pc = "batch" /\ run'.fp = fp /\ SameJob
    BY <1>1, <1>3 DEF RunTypeOK, SameJob
  <2>3. QED
    BY <1>1, <2>1, <2>2, WholeReads
<1>4. QED
  BY <1>2, <1>3 DEF LoadCheckpoint

LEMMA BatchWhole ==
  ASSUME ExInv, RunInv', WholeInv, Send \/ Answer \/ SaveCheckpoint
  PROVE  WholeInv'
<1> USE DEF ExInv, At
<1>1. /\ FilesAside /\ UNCHANGED <<content, chars, terms>> /\ UNCHANGED jobVars /\ RunTypeOK
      /\ run.pc \in {"batch", "answer", "SaveCheckpoint"}
  BY DEF Send, Answer, SaveCheckpoint, FilesAside, stateFiles, RunInv
<1>2. CASE Error("canceled")
  BY <1>1, <1>2, ErrorWhole DEF WithJob, Generating
<1>3. CASE ~Error("canceled")
  <2>1. \/ run.pc = "batch" /\ run' = [run EXCEPT !.pc = "answer"]
        \/ run.pc = "answer" /\ run' = [run EXCEPT !.pc = "SaveCheckpoint",
                                                   !.res[Min(Remaining)] = run.fp.input[Min(Remaining)]]
        \/ run.pc = "SaveCheckpoint" /\ run' = [run EXCEPT !.pc = "batch"]
    BY <1>3 DEF Send, Answer, SaveCheckpoint, Go
  <2>2. SameJob /\ run'.fp = run.fp
    BY <1>1, <2>1 DEF RunTypeOK, SameJob
  <2>3. \/ run.pc = "batch" /\ run'.pc = "answer"
        \/ run.pc = "answer" /\ run'.pc = "SaveCheckpoint"
        \/ run.pc = "SaveCheckpoint" /\ run'.pc = "batch"
    BY <1>1, <2>1 DEF RunTypeOK
  <2>4. QED
    BY <1>1, <2>2, <2>3, WholeGoesOn, JobsStandStep
<1>4. QED
  BY <1>2, <1>3

-----------------------------------------------------------------------------
(* The saves                                                                *)

\* The terms, before the characters.
LEMMA SaveTermsWhole ==
  ASSUME ExInv, RunInv', WholeInv, SaveGeneratedTerms
  PROVE  WholeInv'
<1> USE DEF ExInv, At, WholeInv
<1>1. /\ run.pc = "batch" /\ Remaining = {} /\ UNCHANGED <<content, chars, profile>>
      /\ UNCHANGED jobVars /\ run' = [run EXCEPT !.pc = "events"]
      /\ terms' = [terms EXCEPT ![novel] = MergedTerms]
  BY DEF SaveGeneratedTerms, MergedTerms, Go
<1>2. /\ novel \in Novels /\ run.fp \in Prints /\ run.fp.from \in Nat \ {0} /\ run.upTo \in Boundaries
      /\ chars[novel] \in [front: Nat, src: Revisions, etag: Revisions] /\ terms \in [Novels -> [front: Nat, src: Revisions]]
      /\ RunTypeOK /\ run.pc \in Seeded /\ run.pc \in WithJob
  BY <1>1 DEF RunInv, RunSited, RunSeeded, RunTypeOK, FilesTypeOK, WithJob, Generating, Seeded, Prints, novel
<1>3. /\ run'.pc = "events" /\ SameJob /\ run'.fp = run.fp /\ run'.res = run.res /\ novel' = novel
      /\ MergedTerms' = MergedTerms
  BY <1>1, <1>2 DEF RunTypeOK, SameJob, novel, MergedTerms, Merged
<1>4. /\ Present' <=> Present
      /\ Present => jobs'[run.job].novel = jobs[run.job].novel
                    /\ jobs'[run.job].upTo = jobs[run.job].upTo
  BY <1>1, <1>3 DEF Present, Exists, SameJob, jobVars
<1>5. terms'[novel] = MergedTerms /\ \A n \in Novels : n # novel => terms'[n] = terms[n]
  BY <1>1, <1>2
<1>6. EtagsArePast' /\ \A n \in Novels, e \in Boundaries : Stale(n, e)' <=> Stale(n, e)
  BY <1>1 DEF FilesFit, EtagsArePast, Stale
<1>7. \A e \in Boundaries : e <= chars[novel].front =>
        \/ chars[novel].src[e] # 0 /\ MergedTerms.src[e] = chars[novel].src[e]
        \/ \E i \in Boundaries : i <= e /\ Stale(novel, i)
  <2>1. SUFFICES ASSUME NEW e \in Boundaries, e <= chars[novel].front
                 PROVE  \/ chars[novel].src[e] # 0 /\ MergedTerms.src[e] = chars[novel].src[e]
                        \/ \E i \in Boundaries : i <= e /\ Stale(novel, i)
    OBVIOUS
  <2>2. CASE ~Present
    <3>1. chars[novel].front = 0
      BY <1>2, <2>2 DEF RunCleared, NoChars
    <3>2. QED
      BY <2>1, <3>1 DEF Boundaries
  <2>3. CASE Present /\ e < run.fp.from
    <3>1. chars[novel].src[e] # 0 /\ run.fp.terms[e] = chars[novel].src[e]
      BY <1>1, <1>2, <2>3 DEF RunStarted
    <3>2. MergedTerms.src[e] = run.fp.terms[e]
      BY <2>3 DEF MergedTerms, Merged
    <3>3. QED
      BY <3>1, <3>2
  <2>4. CASE Present /\ ~(e < run.fp.from)
    <3>1. run.fp.from <= e /\ run.fp.from <= chars[novel].front /\ run.fp.from \in Boundaries
      BY <1>2, <2>1, <2>4, JobAssumption DEF Boundaries
    <3>2. Stale(novel, run.fp.from)
      BY <1>2, <2>4, <3>1 DEF RunStarted
    <3>3. QED
      BY <3>1, <3>2
  <2>5. QED
    BY <2>2, <2>3, <2>4
<1>8. TermsFit'
  <2>1. SUFFICES ASSUME NEW n \in Novels, terms'[n].front >= chars[n].front,
                        NEW e \in Boundaries, e <= chars[n].front
                 PROVE  \/ chars[n].src[e] # 0 /\ terms'[n].src[e] = chars[n].src[e]
                        \/ \E i \in Boundaries : i <= e /\ Stale(n, i)
    BY <1>1, <1>6 DEF TermsFit
  <2>2. CASE n = novel
    BY <1>5, <1>7, <2>1, <2>2
  <2>3. CASE n # novel
    BY <1>5, <2>1, <2>3 DEF FilesFit, TermsFit
  <2>4. QED
    BY <2>2, <2>3
<1>9. RunAsked' /\ RunSaved'
  BY <1>2, <1>3, <1>4 DEF RunAsked, RunSaved, SameJob
<1>10. RunCleared'
  BY <1>1, <1>2, <1>3, <1>4, <1>5 DEF RunCleared
<1>11. RunStarted'
  <2>1. Stale(novel, run.fp.from) => chars'[novel'].etag[run'.fp.from] < content'[novel'][run'.fp.from]
    BY <1>1, <1>3 DEF Stale
  <2>2. QED
    BY <1>1, <1>2, <1>3, <1>4, <1>5, <2>1 DEF RunStarted, SameJob, Stale
<1>12. QED
  BY <1>6, <1>8, <1>9, <1>10, <1>11 DEF FilesFit
\* The characters: what remains of the earlier ones is what the terms were
\* merged with, or is stale from the first episode on after a clear.
LEMMA SaveEventsWhole ==
  ASSUME ExInv, RunInv', WholeInv, SaveEvents
  PROVE  WholeInv'
<1> USE DEF ExInv, At, WholeInv
<1> DEFINE c == [front |-> run.upTo, src |-> Merged(run.fp.chars),
                 etag |-> [e \in Boundaries |->
                   IF e < run.fp.from THEN chars[novel].etag[e] ELSE run.fp.input[e]]]
<1>1. /\ run.pc = "events" /\ UNCHANGED <<content, terms, profile>> /\ UNCHANGED jobVars
      /\ run' = [run EXCEPT !.pc = "profile"] /\ chars' = [chars EXCEPT ![novel] = c]
  BY DEF SaveEvents, Go
<1>2. /\ novel \in Novels /\ run.fp \in Prints /\ run.fp.from \in Nat \ {0}
      /\ run.upTo \in Boundaries /\ run.upTo \in Nat
      /\ chars \in [Novels -> [front: Nat, src: Revisions, etag: Revisions]]
      /\ RunTypeOK /\ run.pc \in Seeded /\ run.pc \in WithJob /\ Remaining = {} /\ run.res \in Revisions
  BY <1>1 DEF RunInv, RunSited, RunSeeded, RunMerges, RunTypeOK, FilesTypeOK, WithJob, Generating,
     Seeded, Prints, novel
<1>3. run'.pc = "profile" /\ SameJob /\ novel' = novel
  BY <1>1, <1>2 DEF RunTypeOK, SameJob, novel
<1>4. /\ Present' <=> Present
      /\ Present => jobs'[run.job].novel = jobs[run.job].novel
                    /\ jobs'[run.job].upTo = jobs[run.job].upTo
  BY <1>1, <1>3 DEF Present, Exists, SameJob, jobVars
<1>5. chars'[novel] = c /\ \A n \in Novels : n # novel => chars'[n] = chars[n]
  BY <1>1, <1>2
<1>6. \A e \in Boundaries : run.fp.from <= e /\ e <= run.upTo => run.res[e] # 0
  BY <1>2 DEF Remaining, Boundaries
<1>7. EtagsArePast'
  <2>1. SUFFICES ASSUME NEW n \in Novels, NEW e \in Boundaries
                 PROVE  chars'[n].etag[e] <= content[n][e] /\ content[n][e] # 0
    BY <1>1 DEF EtagsArePast
  <2>2. chars[n].etag[e] <= content[n][e] /\ content[n][e] # 0
    BY DEF FilesFit, EtagsArePast
  <2>3. c.etag[e] = IF e < run.fp.from THEN chars[novel].etag[e] ELSE run.fp.input[e]
    OBVIOUS
  <2>4. run.fp.input[e] <= content[novel][e]
    BY <1>2 DEF RunStarted
  <2> HIDE DEF c
  <2>5. QED
    BY <1>5, <2>2, <2>3, <2>4
<1>8. terms[novel].front >= run.upTo => terms[novel] = MergedTerms
  <2>1. CASE Present
    BY <1>1, <1>2, <2>1 DEF RunStarted
  <2>2. CASE ~Present
    BY <1>1, <1>2, <2>2 DEF RunCleared, NoView, Boundaries
  <2>3. QED
    BY <2>1, <2>2
<1>9. ASSUME NEW e \in Boundaries, e <= run.upTo, terms[novel] = MergedTerms,
             Present \/ ~(e < run.fp.from)
      PROVE  c.src[e] # 0 /\ terms[novel].src[e] = c.src[e]
  <2>1. CASE e < run.fp.from
    <3>1. run.fp.chars[e] # 0 /\ run.fp.terms[e] = run.fp.chars[e]
      BY <1>2, <1>9, <2>1 DEF RunStarted
    <3>2. c.src[e] = run.fp.chars[e] /\ MergedTerms.src[e] = run.fp.terms[e]
      BY <2>1 DEF Merged, MergedTerms
    <3>3. QED
      BY <1>9, <3>1, <3>2
  <2>2. CASE ~(e < run.fp.from)
    <3>1. run.fp.from <= e /\ run.res[e] # 0
      BY <1>2, <1>6, <1>9, <2>2 DEF Boundaries
    <3>2. c.src[e] = run.res[e] /\ MergedTerms.src[e] = run.res[e]
      BY <2>2 DEF Merged, MergedTerms
    <3>3. QED
      BY <1>9, <3>1, <3>2
  <2>3. QED
    BY <2>1, <2>2
<1>10. ASSUME NEW e \in Boundaries, e < run.fp.from, ~Present
       PROVE  c.etag[e] < content[novel][e]
  <2>1. chars[novel].etag[e] = 0
    BY <1>2, <1>10 DEF RunCleared, NoChars, Nothing
  <2>2. content[novel][e] \in Nat /\ content[novel][e] # 0
    BY <1>2 DEF FilesFit, EtagsArePast, RunInv, FilesTypeOK, Revisions
  <2>3. c.etag[e] = 0
    BY <1>10, <2>1
  <2>4. QED
    BY <2>2, <2>3
<1>11. c.front = run.upTo
  OBVIOUS
<1> HIDE DEF c
<1>12. TermsFit'
  <2>1. SUFFICES ASSUME NEW n \in Novels, terms[n].front >= chars'[n].front,
                        NEW e \in Boundaries, e <= chars'[n].front
                 PROVE  \/ chars'[n].src[e] # 0 /\ terms[n].src[e] = chars'[n].src[e]
                        \/ \E i \in Boundaries : i <= e /\ chars'[n].etag[i] < content[n][i]
    BY <1>1 DEF TermsFit, Stale
  <2>2. CASE n = novel
    <3>1. terms[novel] = MergedTerms /\ e <= run.upTo
      BY <1>5, <1>8, <1>11, <2>1, <2>2
    <3>2. CASE Present \/ ~(e < run.fp.from)
      BY <1>5, <1>9, <2>2, <3>1, <3>2
    <3>3. CASE ~Present /\ e < run.fp.from
      <4>1. chars'[novel].etag[e] < content[novel][e]
        BY <1>5, <1>10, <3>3
      <4>2. e <= e
        BY DEF Boundaries
      <4>3. QED
        BY <2>2, <4>1, <4>2
    <3>4. QED
      BY <3>2, <3>3
  <2>3. CASE n # novel
    <3>1. \/ chars[n].src[e] # 0 /\ terms[n].src[e] = chars[n].src[e]
          \/ \E i \in Boundaries : i <= e /\ Stale(n, i)
      BY <1>5, <2>1, <2>3 DEF FilesFit, TermsFit
    <3>2. QED
      BY <1>5, <2>3, <3>1 DEF Stale
  <2>4. QED
    BY <2>2, <2>3
<1>13. RunAsked'
  BY <1>2, <1>3, <1>4 DEF RunAsked, SameJob
<1>14. RunCleared' /\ RunStarted'
  BY <1>3 DEF RunCleared, RunStarted, Seeded
<1>15. RunSaved'
  <2>1. SUFFICES ASSUME Present
                 PROVE  Whole(novel, run.upTo)'
    BY <1>3, <1>4 DEF RunSaved, SameJob
  <2>2. terms[novel] = MergedTerms /\ MergedTerms.front = run.upTo
    BY <1>1, <1>2, <2>1 DEF RunStarted, MergedTerms
  <2>3. \A e \in 1 .. run.upTo : terms[novel].src[e] = c.src[e] /\ c.src[e] # 0
    <3>1. 1 .. run.upTo \subseteq Boundaries /\ \A e \in 1 .. run.upTo : e <= run.upTo
      BY <1>2, JobAssumption DEF Boundaries
    <3>2. QED
      BY <1>9, <2>1, <2>2, <3>1
  <2>4. terms' = terms /\ novel' = novel /\ run'.upTo = run.upTo
    BY <1>1, <1>3 DEF SameJob
  <2>5. QED
    BY <1>2, <1>5, <1>11, <2>2, <2>3, <2>4 DEF Whole
<1>16. QED
  BY <1>7, <1>12, <1>13, <1>14, <1>15 DEF FilesFit

\* What remains of a run: the profile, the checkpoint, the end.
LEMMA LastWhole ==
  ASSUME ExInv, RunInv', WholeInv, ProfileTypeOK, SaveProfile \/ DeleteCheckpoint \/ Materialize
  PROVE  WholeInv'
<1> USE DEF ExInv, At, WholeInv
<1>1. /\ UNCHANGED <<content, chars, terms>> /\ UNCHANGED jobVars /\ RunTypeOK
      /\ run.pc \in {"profile", "delete", "materialize"} /\ run.pc \in WithJob /\ novel \in Novels
      /\ run.upTo \in Boundaries
  BY DEF SaveProfile, DeleteCheckpoint, Materialize, RunInv, RunSited, WithJob, Generating, novel
<1>2. /\ SameJob /\ novel' = novel
      /\ run'.pc = IF run.pc = "profile" THEN "delete" ELSE "complete"
  BY <1>1 DEF SaveProfile, DeleteCheckpoint, Materialize, Go, RunTypeOK, SameJob, novel
<1>3. /\ Present' <=> Present
      /\ Present => jobs'[run.job].novel = jobs[run.job].novel
                    /\ jobs'[run.job].upTo = jobs[run.job].upTo
  BY <1>1, <1>2 DEF Present, Exists, SameJob, jobVars
<1>4. RunAsked' /\ RunCleared' /\ RunStarted'
  BY <1>1, <1>2, <1>3 DEF RunAsked, RunCleared, RunStarted, Seeded, SameJob
<1>5. ASSUME Present PROVE Whole(novel, run.upTo) /\ profile'[novel] = View(chars[novel])
  <2>1. Whole(novel, run.upTo)
    BY <1>1, <1>5 DEF RunSaved
  <2>2. chars[novel].front # 0
    BY <1>1, <2>1 DEF Whole, Boundaries
  <2>4. CASE SaveProfile
    BY <1>1, <2>1, <2>4 DEF SaveProfile, ProfileTypeOK
  <2>5. CASE Materialize
    BY <1>1, <2>1, <2>2, <2>5 DEF Materialize, Materialized, ProfileTypeOK
  <2>6. CASE DeleteCheckpoint
    BY <1>5, <2>1, <2>6 DEF DeleteCheckpoint, RunSaved
  <2>7. QED
    BY <2>4, <2>5, <2>6
<1>6. RunSaved'
  BY <1>1, <1>2, <1>3, <1>5 DEF RunSaved, Whole, SameJob, View
<1>7. QED
  BY <1>1, <1>4, <1>6, FilesAsideFit

LEMMA ProfileStep ==
  ASSUME ExInv, ProfileTypeOK, [ExtractionNext]_exVars
  PROVE  ProfileTypeOK'
<1> DEFINE V == [front: Nat, src: Revisions]
<1>1. \A n \in Novels : View(chars[n]) \in V /\ NoView \in V /\ profile[n] \in V
  BY DEF ExInv, RunInv, FilesTypeOK, View, NoView, Nothing, Revisions, ProfileTypeOK
<1>2. \A n \in Novels : Materialized(n) \in V
  BY <1>1 DEF Materialized
<1>3. \/ UNCHANGED profile
      \/ \E n \in Novels : profile' = [profile EXCEPT ![n] = Materialized(n)]
      \/ \E n \in Novels : profile' = [profile EXCEPT ![n] = NoView]
      \/ profile' = [profile EXCEPT ![novel] = View(chars[novel])]
      \/ profile' = [profile EXCEPT ![novel] = Materialized(novel)]
  <2>1. CASE UNCHANGED exVars
    BY <2>1 DEF exVars, stateFiles
  <2>2. CASE \E n \in Novels, e \in Boundaries : Revise(n, e) \/ HandleEnqueue(n, e) \/ HandleRead(n, e)
    BY <2>2 DEF Revise, HandleEnqueue, HandleRead, stateFiles
  <2>3. CASE \/ \E j \in JobIDs, a \in JobActions : HandleControl(j, a)
             \/ Kick \/ (\E j \in JobIDs : Cancel(j)) \/ Shutdown \/ StartBackground
             \/ Unresolved \/ GenerationError \/ JobFault \/ Exit \/ Crash
             \/ (\E upgrade \in BOOLEAN : Restart(upgrade)) \/ Recover \/ Quarantine
    BY <2>3 DEF HandleControl, Kick, Cancel, Shutdown, StartBackground, Unresolved, GenerationError,
       JobFault, Exit, Crash, Restart, Recover, Quarantine, stateFiles
  <2>4. CASE \E n \in Novels : HandleClear(n)
    BY <2>4 DEF HandleClear
  <2>5. CASE Worker
    BY <2>5 DEF Worker, Begin, Load, Register, Recheck, Start, Failed, Completed, Seed, LoadInput,
       LoadCheckpoint, Send, Answer, SaveCheckpoint, SaveGeneratedTerms, SaveEvents, SaveProfile,
       DeleteCheckpoint, Materialize, Unregister, Finalize, stateFiles
  <2>6. QED
    BY <2>1, <2>2, <2>3, <2>4, <2>5 DEF ExtractionNext
<1> HIDE DEF V
<1>4. profile \in [Novels -> V]
  BY DEF ProfileTypeOK, V
<1>5. profile' \in [Novels -> V]
  BY <1>1, <1>2, <1>3, <1>4
<1>6. QED
  BY <1>5 DEF ProfileTypeOK, V

-----------------------------------------------------------------------------
(* Handlers, the library and the process                                    *)

LEMMA ReviseWhole ==
  ASSUME ExInv, RunInv', WholeInv, NEW n \in Novels, NEW e \in Boundaries, Revise(n, e)
  PROVE  WholeInv'
<1> USE DEF ExInv
<1>1. /\ run' = run /\ UNCHANGED <<chars, terms>> /\ profile' = profile /\ UNCHANGED jobVars
      /\ content' = [content EXCEPT ![n] = [content[n] EXCEPT ![e] = content[n][e] + 1]]
  BY DEF Revise, stateFiles
<1>2. content \in [Novels -> [Boundaries -> Nat]]
  BY DEF RunInv, FilesTypeOK, Revisions
<1>3. Grown
  <2>1. SUFFICES ASSUME NEW m \in Novels, NEW i \in Boundaries
                 PROVE  content'[m][i] >= content[m][i]
    BY DEF Grown
  <2>2. content'[m][i] \in {content[m][i], content[m][i] + 1} /\ content[m][i] \in Nat
    BY <1>1, <1>2
  <2>3. QED
    BY <2>2
<1>4. JobsStand /\ SameWork /\ run'.pc = run.pc
  BY <1>1, JobsStandStep DEF SameWork, SameJob
<1>5. QED
  BY <1>1, <1>3, <1>4, WholeStays

\* Whoever leaves the files alone, but for the profile, and the worker where it is.
LEMMA BesideWhole ==
  ASSUME ExInv, RunInv', WholeInv, ProfileTypeOK,
         \/ \E n \in Novels, u \in Boundaries : HandleEnqueue(n, u) \/ HandleRead(n, u)
         \/ \E j \in JobIDs, a \in JobActions : HandleControl(j, a)
         \/ Kick \/ Shutdown \/ StartBackground
         \/ \E j \in JobIDs : Cancel(j)
         \/ \E upgrade \in BOOLEAN : Restart(upgrade)
         \/ UNCHANGED exVars
  PROVE  WholeInv'
<1> USE DEF ExInv
<1>1. UNCHANGED <<content, chars, terms>>
  BY DEF HandleEnqueue, HandleRead, HandleControl, Kick, Shutdown, StartBackground, Cancel, Restart,
     exVars, stateFiles
<1>2. Grown
  BY <1>1 DEF Grown, RunInv, FilesTypeOK, Revisions
<1>3. \A n \in Novels : profile'[n] \in {profile[n], View(chars[n])}
  <2>1. CASE UNCHANGED profile
    BY <2>1
  <2>2. CASE \E n \in Novels : profile' = [profile EXCEPT ![n] = Materialized(n)]
    BY <2>2 DEF ProfileTypeOK, Materialized
  <2>3. QED
    BY <2>1, <2>2 DEF HandleEnqueue, HandleRead, HandleControl, Kick, Shutdown, StartBackground,
       Cancel, Restart, exVars, stateFiles
<1>4. JobsStand
  <2>1. \/ \E n \in Novels, u \in Boundaries : SaveJobIfNoActive(n, u)
        \/ \E j \in JobIDs, a \in JobActions : ControlJob(j, a)
        \/ UNCHANGED jobVars
    BY DEF HandleEnqueue, HandleRead, HandleControl, Kick, Shutdown, StartBackground, Cancel, Restart,
       exVars
  <2>2. QED
    BY <2>1, JobsStandStep
<1>5. SameWork /\ run'.pc = run.pc
  <2>1. run' = run \/ \E c : run' = [run EXCEPT !.canceled = c]
    BY DEF HandleEnqueue, HandleRead, HandleControl, Kick, Shutdown, StartBackground, Cancel, Restart,
       exVars
  <2>2. QED
    BY <2>1 DEF RunInv, RunTypeOK, SameWork, SameJob
<1>6. QED
  BY <1>1, <1>2, <1>3, <1>4, <1>5, WholeStays

LEMMA RecoverStands ==
  ASSUME ExInv, Recover
  PROVE  JobsStand
<1> USE DEF ExInv
<1>1. PICK j \in JobIDs : RecoverRunningJob(j, checkpoint[jobs[j].novel][jobs[j].upTo].fit)
  BY DEF Recover, RecoverRunningJob, Unrecovered
<1>2. checkpoint[jobs[j].novel][jobs[j].upTo].fit \in BOOLEAN
  BY <1>1 DEF RecoverRunningJob, Unrecovered, JobInv, JobTypeOK, NoJob, Job, RunInv, FilesTypeOK
<1>3. QED
  BY <1>1, <1>2, JobsStandStep

LEMMA RecoverWhole ==
  ASSUME ExInv, RunInv', WholeInv, Recover \/ Quarantine
  PROVE  WholeInv'
<1> USE DEF ExInv, At
<1>1. UNCHANGED <<content, chars, terms>>
  BY DEF Recover, Quarantine, stateFiles
<1>2. CASE Quarantine
  BY <1>1, <1>2, WholeLeaves, JobsStandStep DEF Quarantine, IdleRun
<1>3. CASE Recover
  <2>1. run.pc = "idle" /\ \E j \in JobIDs :
          LET fit == checkpoint[jobs[j].novel][jobs[j].upTo].fit IN
          /\ RecoverRunningJob(j, fit)
          /\ run' = IF fit THEN run
                    ELSE [IdleRun EXCEPT !.pc = "quarantine", !.novel = jobs[j].novel,
                                         !.upTo = jobs[j].upTo]
    BY <1>3 DEF Recover, RecoverRunningJob, Unrecovered
  <2>2. run'.pc \in {"idle", "quarantine"}
    BY <2>1 DEF IdleRun
  <2>3. QED
    BY <1>1, <1>3, <2>2, RecoverStands, WholeLeaves
<1>4. QED
  BY <1>2, <1>3

\* DELETE: of a novel with a worker, the job has no document from here on.
LEMMA ClearWhole ==
  ASSUME ExInv, RunInv', WholeInv, ProfileTypeOK, NEW n \in Novels, HandleClear(n)
  PROVE  WholeInv'
<1> USE DEF ExInv, WholeInv
<1>1. /\ run' = run /\ content' = content /\ PruneJobsIfNoActive(n)
      /\ chars' = [chars EXCEPT ![n] = NoChars] /\ terms' = [terms EXCEPT ![n] = NoView]
      /\ profile' = [profile EXCEPT ![n] = NoView] /\ ~StateLocked(n)
  BY DEF HandleClear
<1>2. /\ chars'[n] = NoChars /\ terms'[n] = NoView
      /\ \A m \in Novels : m # n => chars'[m] = chars[m] /\ terms'[m] = terms[m]
  BY <1>1 DEF RunInv, FilesTypeOK
<1>3. \A j \in JobIDs : jobs'[j] = IF j \in JobsOf(n) THEN NoJob ELSE jobs[j]
  BY <1>1 DEF PruneJobsIfNoActive
<1>4. EtagsArePast'
  <2>1. SUFFICES ASSUME NEW m \in Novels, NEW e \in Boundaries
                 PROVE  chars'[m].etag[e] <= content[m][e] /\ content[m][e] # 0
    BY <1>1 DEF EtagsArePast
  <2>2. chars[m].etag[e] <= content[m][e] /\ content[m][e] # 0 /\ content[m][e] \in Nat
    BY DEF FilesFit, EtagsArePast, RunInv, FilesTypeOK, Revisions
  <2>3. QED
    BY <1>2, <2>2 DEF NoChars, Nothing
<1>5. TermsFit'
  <2>1. SUFFICES ASSUME NEW m \in Novels, terms'[m].front >= chars'[m].front,
                        NEW e \in Boundaries, e <= chars'[m].front
                 PROVE  \/ chars'[m].src[e] # 0 /\ terms'[m].src[e] = chars'[m].src[e]
                        \/ \E i \in Boundaries : i <= e /\ chars'[m].etag[i] < content[m][i]
    BY <1>1 DEF TermsFit, Stale
  <2>2. m # n
    BY <1>2, <2>1 DEF NoChars, Boundaries
  <2>3. QED
    BY <1>2, <2>1, <2>2 DEF FilesFit, TermsFit, Stale
<1>6. ASSUME run.pc \in WithJob
      PROVE  /\ run.job \in JobIDs /\ novel \in Novels
             /\ Present' => Present /\ jobs'[run.job] = jobs[run.job] /\ novel # n
             /\ ~Present' => ~Present \/ novel = n
  <2>1. run.job \in JobIDs /\ novel \in Novels
    BY <1>6, JobAssumption DEF RunInv, RunSited, novel, JobInv, JobTypeOK, JobIDs
  <2>2. Present => jobs[run.job].novel = novel
    BY <1>6 DEF RunAsked, novel
  <2>3. CASE run.job \in JobsOf(n)
    <3>1. ~Present' /\ (Present => novel = n)
      BY <1>1, <1>3, <2>1, <2>2, <2>3 DEF Present, Exists, NoJob, JobsOf
    <3>2. Present
      BY <2>3 DEF JobsOf, Present
    <3>3. QED
      BY <2>1, <3>1, <3>2
  <2>4. CASE run.job \notin JobsOf(n)
    <3>1. jobs'[run.job] = jobs[run.job]
      BY <1>3, <2>1, <2>4
    <3>2. (Present' => Present) /\ (~Present' => ~Present)
      BY <1>1, <3>1 DEF Present, Exists
    <3>3. Present => novel # n
      BY <2>1, <2>2, <2>4 DEF Present, JobsOf
    <3>4. QED
      BY <2>1, <3>1, <3>2, <3>3
  <2>5. QED
    BY <2>3, <2>4
<1>7. novel' = novel /\ MergedTerms' = MergedTerms
  BY <1>1 DEF novel, MergedTerms, Merged
<1>8. RunAsked'
  BY <1>1, <1>6 DEF RunAsked
<1>9. RunCleared'
  <2>1. CASE run.pc \in WithJob
    <3>1. CASE novel = n
      BY <1>1, <1>2, <1>7, <3>1 DEF RunCleared
    <3>2. CASE novel # n
      BY <1>1, <1>2, <1>6, <1>7, <2>1, <3>2 DEF RunCleared
    <3>3. QED
      BY <3>1, <3>2
  <2>2. CASE run.pc \notin WithJob
    BY <1>1, <2>2 DEF RunCleared, WithJob, Generating, Seeded
  <2>3. QED
    BY <2>1, <2>2
<1>10. RunStarted'
  <2>1. SUFFICES ASSUME run.pc \in Seeded
                 PROVE  RunStarted'
    BY <1>1 DEF RunStarted
  <2>2. run.pc \in WithJob
    BY <2>1 DEF Seeded, WithJob, Generating
  <2>3. CASE Present'
    <3>1. Present /\ novel # n /\ novel \in Novels
      BY <1>6, <2>2, <2>3
    <3>2. chars'[novel] = chars[novel] /\ terms'[novel] = terms[novel]
      BY <1>2, <3>1
    <3>3. QED
      BY <1>1, <1>7, <2>1, <3>1, <3>2 DEF RunStarted, Stale
  <2>4. CASE ~Present'
    BY <1>1, <1>7, <2>1, <2>4 DEF RunStarted
  <2>5. QED
    BY <2>3, <2>4
<1>11. RunSaved'
  <2>1. SUFFICES ASSUME run.pc \in {"materialize", "profile", "delete", "complete"}, Present'
                 PROVE  RunSaved'
    BY <1>1 DEF RunSaved
  <2>2. run.pc \in WithJob
    BY <2>1 DEF WithJob, Generating
  <2>3. Present /\ novel # n /\ novel \in Novels
    BY <1>6, <2>1, <2>2
  <2>4. chars'[novel] = chars[novel] /\ terms'[novel] = terms[novel] /\ profile'[novel] = profile[novel]
    BY <1>1, <1>2, <2>3 DEF ProfileTypeOK
  <2>5. QED
    BY <1>1, <1>7, <2>1, <2>3, <2>4 DEF RunSaved, Whole
<1>12. QED
  BY <1>4, <1>5, <1>8, <1>9, <1>10, <1>11 DEF FilesFit

-----------------------------------------------------------------------------
LEMMA WholeStep ==
  ASSUME ExInv, WholeInv, ProfileTypeOK, [ExtractionNext]_exVars
  PROVE  WholeInv' /\ ProfileTypeOK'
<1>1. ExInv' /\ RunInv'
  BY ExtractionStepInv DEF ExInv
<1>2. SUFFICES WholeInv'
  BY ProfileStep
<1>3. CASE UNCHANGED exVars
  BY <1>1, <1>3, BesideWhole
<1>4. CASE \E n \in Novels, e \in Boundaries : Revise(n, e) \/ HandleEnqueue(n, e) \/ HandleRead(n, e)
  BY <1>1, <1>4, ReviseWhole, BesideWhole
<1>5. CASE \E n \in Novels : HandleClear(n)
  BY <1>1, <1>5, ClearWhole
<1>6. CASE \/ \E j \in JobIDs, a \in JobActions : HandleControl(j, a)
           \/ Kick \/ (\E j \in JobIDs : Cancel(j)) \/ Shutdown \/ StartBackground
           \/ \E upgrade \in BOOLEAN : Restart(upgrade)
  BY <1>1, <1>6, BesideWhole
<1>7. CASE Worker
  BY <1>1, <1>7, ProcessJobsWhole, LoadWhole, StatusWhole, SeedWhole, LoadInputWhole,
     LoadCheckpointWhole, BatchWhole, SaveTermsWhole, SaveEventsWhole, LastWhole DEF Worker
<1>8. CASE Unresolved \/ GenerationError \/ JobFault \/ Exit \/ Crash
  <2>1. CASE Unresolved
    BY <1>1, <2>1, StatusWhole
  <2>2. CASE GenerationError
    BY <1>1, <2>2, ErrorWhole DEF GenerationError, stateFiles, WithJob, Generating
  <2>3. CASE JobFault \/ Exit \/ Crash
    BY <1>1, <2>3, ErrorWhole DEF JobFault, Exit, Crash, stateFiles
  <2>4. QED
    BY <1>8, <2>1, <2>2, <2>3
<1>9. CASE Recover \/ Quarantine
  BY <1>1, <1>9, RecoverWhole
<1>10. QED
  BY <1>3, <1>4, <1>5, <1>6, <1>7, <1>8, <1>9 DEF ExtractionNext

LEMMA WholeInit == ExtractionInit => WholeInv /\ ProfileTypeOK
<1> SUFFICES ASSUME ExtractionInit PROVE WholeInv /\ ProfileTypeOK
  OBVIOUS
<1>1. ProfileTypeOK
  BY DEF ExtractionInit, ProfileTypeOK, NoView, Nothing, Revisions
<1>2. FilesFit
  <2>1. ASSUME NEW n \in Novels, NEW e \in Boundaries
        PROVE  /\ chars[n].etag[e] = 0 /\ chars[n].front = 0
               /\ content[n][e] = 1 /\ e \in Nat /\ e > 0
    BY JobAssumption DEF ExtractionInit, NoChars, Nothing, Boundaries
  <2>2. EtagsArePast
    BY <2>1 DEF EtagsArePast
  <2>3. TermsFit
    BY <2>1 DEF TermsFit
  <2>4. QED
    BY <2>2, <2>3 DEF FilesFit
<1>3. RunAsked /\ RunCleared /\ RunStarted /\ RunSaved
  BY DEF ExtractionInit, IdleRun, RunAsked, RunCleared, RunStarted, RunSaved, WithJob, Generating, Seeded
<1>4. QED
  BY <1>1, <1>2, <1>3 DEF WholeInv

\* Only the worker completes a job, and that is the job in hand.
LEMMA OnlyTheWorkerCompletes ==
  ASSUME ExInv, ExtractionNext, NEW j \in JobIDs,
         jobs[j].status # "completed", jobs'[j].status = "completed"
  PROVE  Completed /\ j = run.job /\ jobs[j].status = "running"
<1> DEFINE Saved(k, s) == jobs' = [jobs EXCEPT ![k].status = s]
<1>1. ASSUME NEW k \in JobIDs, NEW s, s # "completed", SaveJob(k, s)
      PROVE  FALSE
  BY <1>1 DEF SaveJob, ExInv, JobInv, JobTypeOK, Job, NoJob
<1>2. jobs' # jobs
  OBVIOUS
<1>3. ASSUME NEW k \in JobIDs, NEW s, NEW x, s # "completed", SaveJobIfCurrentStatus(k, s, x)
      PROVE  FALSE
  BY <1>1, <1>2, <1>3 DEF SaveJobIfCurrentStatus, jobVars
<1>4. ASSUME NEW n \in Novels, NEW u \in Boundaries, SaveJobIfNoActive(n, u)
      PROVE  FALSE
  BY <1>4 DEF SaveJobIfNoActive, ExInv, JobInv, JobTypeOK
<1>5. ASSUME NEW k \in JobIDs, NEW a \in JobActions, ControlJob(k, a)
      PROVE  FALSE
  <2>1. Controlled(jobs[k].status, a) # "completed"
    BY DEF Controlled
  <2>2. QED
    BY <1>1, <1>5, <2>1 DEF ControlJob
<1>6. ASSUME NEW n \in Novels, PruneJobsIfNoActive(n)
      PROVE  FALSE
  BY <1>6 DEF PruneJobsIfNoActive, NoJob
<1>7. ~(\E n \in Novels, e \in Boundaries : Revise(n, e) \/ HandleEnqueue(n, e) \/ HandleRead(n, e))
  BY <1>2, <1>4 DEF Revise, HandleEnqueue, HandleRead, jobVars
<1>8. /\ ~(\E k \in JobIDs, a \in JobActions : HandleControl(k, a))
      /\ ~(\E n \in Novels : HandleClear(n))
  BY <1>5, <1>6 DEF HandleControl, HandleClear
<1>9. /\ ~(Kick \/ (\E k \in JobIDs : Cancel(k)) \/ Shutdown \/ StartBackground)
      /\ ~(GenerationError \/ JobFault \/ Exit \/ Crash)
      /\ ~((\E upgrade \in BOOLEAN : Restart(upgrade)) \/ Quarantine)
  BY <1>2 DEF Kick, Cancel, Shutdown, StartBackground, GenerationError, JobFault, Exit, Crash,
     Restart, Quarantine, jobVars
<1>10. ~Recover
  <2>1. SUFFICES ASSUME Recover PROVE FALSE
    OBVIOUS
  <2>2. \E k \in Unrecovered, s \in {"interrupted", "incompatible"} : SaveJob(k, s)
    BY <2>1 DEF Recover, RecoverRunningJob
  <2>3. QED
    BY <1>1, <2>2 DEF Unrecovered
<1>11. run.pc \in WithJob => run.job \in JobIDs
  BY JobAssumption DEF ExInv, RunInv, RunSited, JobInv, JobTypeOK, JobIDs
<1>12. /\ ~(Begin \/ Load \/ Register \/ Recheck \/ Unregister \/ Seed \/ LoadInput \/ LoadCheckpoint)
       /\ ~(Send \/ Answer \/ SaveCheckpoint \/ SaveGeneratedTerms \/ SaveEvents \/ SaveProfile)
       /\ ~(DeleteCheckpoint \/ Materialize)
  BY <1>2 DEF Begin, Load, Register, Recheck, Unregister, Seed, LoadInput, LoadCheckpoint, Send, Answer,
     SaveCheckpoint, SaveGeneratedTerms, SaveEvents, SaveProfile, DeleteCheckpoint, Materialize, jobVars
<1>13. ~(Start \/ Unresolved \/ Failed)
  <2>1. SUFFICES ASSUME Start \/ Unresolved \/ Failed PROVE FALSE
    OBVIOUS
  <2>2. run.job \in JobIDs
    BY <1>11, <2>1 DEF Start, Unresolved, Failed, At, WithJob
  <2>3. \/ SaveJobIfCurrentStatus(run.job, "running", Executable)
        \/ SaveJobIfCurrentStatus(run.job, "failed", Executable)
        \/ SaveJobIfCurrentStatus(run.job, "failed", {"running"})
        \/ UNCHANGED jobVars
    BY <2>1 DEF Start, Unresolved, Failed
  <2>4. QED
    BY <1>2, <1>3, <2>2, <2>3 DEF jobVars
<1>14. ~Finalize
  BY <1>1, <1>2, <1>11 DEF Finalize, FinalizePausingJob, At, WithJob, jobVars
<1>15. Completed
  BY <1>7, <1>8, <1>9, <1>10, <1>12, <1>13, <1>14 DEF ExtractionNext, Worker
<1>16. j = run.job /\ Matches(run.job, {"running"})
  <2>1. run.job \in JobIDs
    BY <1>11, <1>15 DEF Completed, At, WithJob
  <2>2. Matches(run.job, {"running"}) /\ SaveJob(run.job, "completed")
    BY <1>2, <1>15 DEF Completed, SaveJobIfCurrentStatus, jobVars
  <2>3. QED
    BY <2>1, <2>2 DEF SaveJob, ExInv, JobInv, JobTypeOK
<1>17. QED
  BY <1>15, <1>16 DEF Matches

\* A job becomes completed only when everything up to its boundary is there,
\* whatever was interrupted, cleared, revised and taken up again before
\* (process, GenerateAndSave, SaveGeneratedSummary).
THEOREM CompletedStaysWhole == ExtractionSpec => CompletedIsWhole
<1> DEFINE Done ==
      \A j \in JobIDs :
        jobs[j].status # "completed" /\ jobs'[j].status = "completed" =>
          LET n == jobs[j].novel
              u == jobs[j].upTo IN
          /\ terms[n].front >= chars[n].front /\ chars[n].front >= u
          /\ profile[n] = View(chars[n])
          /\ \A e \in 1 .. u : terms[n].src[e] = chars[n].src[e] /\ chars[n].src[e] # 0
<1>1. ExInv /\ WholeInv /\ [ExtractionNext]_exVars => [Done]_exVars
  <2>1. SUFFICES ASSUME ExInv, WholeInv, ExtractionNext, NEW j \in JobIDs,
                        jobs[j].status # "completed", jobs'[j].status = "completed"
                 PROVE  /\ Whole(jobs[j].novel, jobs[j].upTo)
                        /\ profile[jobs[j].novel] = View(chars[jobs[j].novel])
    BY DEF Whole
  <2>2. run.pc = "complete" /\ j = run.job /\ jobs[j].status = "running"
    BY <2>1, OnlyTheWorkerCompletes DEF Completed, At
  <2>3. jobs[j].novel = novel /\ jobs[j].upTo = run.upTo /\ Present
    BY <2>1, <2>2 DEF WholeInv, RunAsked, Present, Exists, WithJob, novel
  <2>4. QED
    BY <2>1, <2>2, <2>3 DEF WholeInv, RunSaved
<1>2. ExInv /\ WholeInv /\ ProfileTypeOK /\ [ExtractionNext]_exVars => WholeInv' /\ ProfileTypeOK'
  BY WholeStep
<1>3. QED
  BY <1>1, <1>2, WholeInit, ExtractionSafe, PTL DEF ExtractionSpec, CompletedIsWhole

-----------------------------------------------------------------------------
(* What was paid for                                                        *)

KnownBelow(n, fp, i) == \A k \in Boundaries : k < i => chars[n].etag[k] = fp.chars[k]

\* The results of a print are in the files, or those of a later one are.
Overtaken(n, fp) ==
  \E i \in Boundaries :
    /\ i <= fp.from /\ KnownBelow(n, fp, i)
    /\ i < fp.from => chars[n].etag[i] > fp.chars[i]
    /\ i = fp.from => chars[n].etag[i] >= fp.input[i]

\* They are not: the first of its texts is newer than what the files are from.
Pending(n, fp) == KnownBelow(n, fp, fp.from) /\ chars[n].etag[fp.from] < fp.input[fp.from]

\* It is never taken again: an earlier episode comes first, or a text is an old one.
Passed(n, fp) ==
  \/ \E k \in Boundaries : k < fp.from /\ Stale(n, k)
  \/ \E i \in Boundaries : fp.input[i] # 0 /\ fp.input[i] < content[n][i]

InCheckpoint(n, u, fp, e) == checkpoint[n][u].fp = fp /\ checkpoint[n][u].res[e] # 0

\* It has the texts from its first episode to the boundary, and these are old by now.
PrintFits(n, u, fp) ==
  /\ fp.from \in 1..u
  /\ \A i \in Boundaries :
       /\ fp.input[i] # 0 <=> fp.from <= i /\ i <= u
       /\ fp.input[i] <= content[n][i]
       /\ i >= fp.from => fp.terms[i] = 0

Seeds(n, fp) == fp.from <= chars[n].front + 1 /\ fp.chars = chars[n].src

PaidTypeOK ==
  /\ paid \in [JobIDs -> SUBSET (Prints \X Boundaries)]
  /\ count \in [{"control", "clear", "stop", "upgrade", "error", "fault"} -> Nat]
  /\ \A j \in JobIDs : j > lastJob => paid[j] = {}

EtagsEnd == \A n \in Novels, e \in Boundaries : e > chars[n].front => chars[n].etag[e] = 0

PaidFits ==
  \A n \in Novels : \A j \in JobsOf(n) : \A p \in paid[j] :
    /\ PrintFits(n, jobs[j].upTo, p[1])
    /\ Overtaken(n, p[1]) \/ Pending(n, p[1])
    /\ Pending(n, p[1]) => Seeds(n, p[1])
    /\ Pending(n, p[1]) /\ ~Passed(n, p[1]) =>
         /\ p[1].terms = Below(terms[n].src, p[1].from)
         /\ InCheckpoint(n, jobs[j].upTo, p[1], p[2])

\* The print of the worker is newer than what is in the files.
RunNew ==
  run.pc \in Seeded /\ Present =>
    /\ run.fp.from <= chars[novel].front + 1
    /\ KnownBelow(novel, run.fp, run.fp.from) /\ Stale(novel, run.fp.from)
    /\ run.fp.input[run.fp.from] # 0 => chars[novel].etag[run.fp.from] < run.fp.input[run.fp.from]
    /\ \A i \in Boundaries : i >= run.fp.from => run.fp.terms[i] = 0
    /\ run.pc \in Merging => Unread = {}

\* What the worker has read, or will.
Reads(i) == IF run.fp.input[i] # 0 THEN run.fp.input[i] ELSE content[novel][i]

\* It is newer than what was paid for, or the checkpoint has that.
RunPays ==
  run.pc \in Seeded /\ Present =>
    \A j \in JobsOf(novel) : \A p \in paid[j] :
      /\ Pending(novel, p[1]) => run.fp.from <= p[1].from
      /\ \A i \in Boundaries : p[1].input[i] <= Reads(i)
      /\ jobs[j].upTo = run.upTo =>
           /\ run.pc = "input" /\ Pending(novel, p[1]) =>
                \/ run.fp.from < p[1].from
                \/ \E i \in Boundaries : p[1].input[i] # 0 /\ p[1].input[i] < Reads(i)
                \/ InCheckpoint(novel, run.upTo, p[1], p[2])
           /\ run.pc \in Merging /\ p[1] = run.fp => run.res[p[2]] # 0

\* After a clear there is nobody left who paid.
RunUnpaid ==
  run.pc \in WithJob /\ ~Present => \A j \in JobsOf(novel) : paid[j] = {}

\* Once the events are saved the checkpoint may go.
RunDone ==
  run.pc \in {"profile", "delete"} =>
    \A j \in JobsOf(novel) : \A p \in paid[j] : ~Pending(novel, p[1])

SameBuild ==
  /\ \A n \in Novels, u \in Boundaries : checkpoint[n][u].fit
  /\ run.pc # "quarantine"

PaidFiles == SameBuild /\ EtagsEnd /\ PaidFits
PaidRun   == RunNew /\ RunPays /\ RunUnpaid /\ RunDone
PaidInv   == PaidTypeOK /\ (count["upgrade"] = 0 => PaidFiles /\ PaidRun)

LEMMA PaidTyped ==
  ASSUME JobInv, PaidTypeOK, NEW j \in JobIDs, NEW p \in paid[j]
  PROVE  p[1] \in Prints /\ p[2] \in Boundaries /\ p = <<p[1], p[2]>> /\ j \in 1 .. lastJob
BY JobAssumption DEF PaidTypeOK, JobInv, JobTypeOK, JobIDs

\* Who paid for a novel before the step is who paid after it.
PayersStand ==
  \A n \in Novels : \A j \in JobsOf(n)' : paid[j] # {} => j \in JobsOf(n) /\ jobs'[j].upTo = jobs[j].upTo

LEMMA PayersStay ==
  ASSUME JobInv, PaidTypeOK, JobsStand
  PROVE  PayersStand
<1>1. SUFFICES ASSUME NEW n \in Novels, NEW j \in JobIDs, Exists(j)', jobs'[j].novel = n, paid[j] # {}
               PROVE  j \in JobsOf(n) /\ jobs'[j].upTo = jobs[j].upTo
  BY DEF PayersStand, JobsOf
<1>2. j \in 1 .. lastJob
  BY <1>1, PaidTyped
<1>3. QED
  BY <1>1, <1>2 DEF JobsStand, JobsOf

LEMMA PassedStays ==
  ASSUME RunInv, RunInv', UNCHANGED chars, Grown, NEW n \in Novels, NEW fp \in Prints, Passed(n, fp)
  PROVE  Passed(n, fp)'
<1>1. ASSUME NEW e \in Boundaries
      PROVE  /\ content[n][e] \in Nat /\ content'[n][e] \in Nat /\ chars[n].etag[e] \in Nat
             /\ fp.input[e] \in Nat /\ content'[n][e] >= content[n][e]
  BY DEF RunInv, FilesTypeOK, Revisions, Prints, Grown
<1>2. CASE \E k \in Boundaries : k < fp.from /\ Stale(n, k)
  BY <1>1, <1>2 DEF Passed, Stale
<1>3. CASE \E i \in Boundaries : fp.input[i] # 0 /\ fp.input[i] < content[n][i]
  <2>1. PICK i \in Boundaries : fp.input[i] # 0 /\ fp.input[i] < content[n][i]
    BY <1>3
  <2>2. fp.input[i] < content'[n][i]
    BY <1>1, <2>1
  <2>3. QED
    BY <2>1, <2>2 DEF Passed
<1>4. QED
  BY <1>2, <1>3 DEF Passed

\* What is in the checkpoint and may be taken again.
Kept(n, u, p) == Pending(n, p[1]) /\ ~Passed(n, p[1]) /\ InCheckpoint(n, u, p[1], p[2])

\* The files stay as they are, and so do the checkpoints that matter.
LEMMA PaidFilesStay ==
  ASSUME ExInv, RunInv', PaidTypeOK, PaidFits, EtagsEnd, UNCHANGED <<chars, terms, paid>>, Grown, PayersStand,
         \A n \in Novels : \A j \in JobsOf(n) : \A p \in paid[j] : \A u \in Boundaries :
           u = jobs[j].upTo /\ Kept(n, u, p) => InCheckpoint(n, u, p[1], p[2])'
  PROVE  PaidFits' /\ EtagsEnd'
<1>1. EtagsEnd'
  BY DEF EtagsEnd
<1>2. ASSUME NEW n \in Novels, NEW j \in JobsOf(n)', NEW p \in paid[j]
      PROVE  /\ PrintFits(n, jobs[j].upTo, p[1])'
             /\ Overtaken(n, p[1])' \/ Pending(n, p[1])'
             /\ Pending(n, p[1])' => Seeds(n, p[1])'
             /\ Pending(n, p[1])' /\ ~Passed(n, p[1])' =>
                  /\ p[1].terms = Below(terms[n].src, p[1].from)'
                  /\ InCheckpoint(n, jobs[j].upTo, p[1], p[2])'
  <2>1. /\ j \in JobsOf(n) /\ jobs'[j].upTo = jobs[j].upTo /\ j \in JobIDs
        /\ jobs[j].upTo \in Boundaries
    BY <1>2 DEF PayersStand, JobsOf, Exists, ExInv, JobInv, JobTypeOK, Job, NoJob
  <2>2. p[1] \in Prints
    BY <2>1, PaidTyped DEF ExInv
  <2>3. PrintFits(n, jobs[j].upTo, p[1])
    BY <2>1 DEF PaidFits
  <2>4. PrintFits(n, jobs[j].upTo, p[1])'
    <3>1. ASSUME NEW i \in Boundaries PROVE p[1].input[i] <= content'[n][i]
      <4>1. p[1].input[i] \in Nat /\ content[n][i] \in Nat /\ content'[n][i] \in Nat
        BY <2>2 DEF ExInv, RunInv, FilesTypeOK, Revisions, Prints
      <4>2. QED
        BY <2>3, <4>1 DEF PrintFits, Grown
    <3>2. QED
      BY <2>1, <2>3, <3>1 DEF PrintFits
  <2>5. /\ Overtaken(n, p[1])' <=> Overtaken(n, p[1])
        /\ Pending(n, p[1])' <=> Pending(n, p[1])
        /\ Seeds(n, p[1])' <=> Seeds(n, p[1])
        /\ Below(terms[n].src, p[1].from)' = Below(terms[n].src, p[1].from)
    BY DEF Overtaken, Pending, Seeds, KnownBelow, Below
  <2>6. Passed(n, p[1]) => Passed(n, p[1])'
    BY <2>2, PassedStays DEF ExInv
  <2>7. QED
    BY <2>1, <2>4, <2>5, <2>6 DEF PaidFits, Kept, InCheckpoint
<1>3. QED
  BY <1>1, <1>2 DEF PaidFits

-----------------------------------------------------------------------------
(* Steps that pay for nothing                                               *)

LEMMA UnpaidStays ==
  ASSUME RunInv, RunUnpaid, UNCHANGED paid, PayersStand, JobsStand, run.pc \in WithJob, SameJob
  PROVE  RunUnpaid'
<1>1. SUFFICES ASSUME ~Present', NEW j \in JobsOf(novel)'
               PROVE  paid'[j] = {}
  BY DEF RunUnpaid
<1>2. ~Present /\ novel' = novel /\ novel \in Novels
  BY <1>1, PresentStands DEF SameJob, novel, RunInv, RunSited
<1>3. paid[j] # {} => j \in JobsOf(novel)
  BY <1>1, <1>2 DEF PayersStand, JobsOf
<1>4. QED
  BY <1>2, <1>3 DEF RunUnpaid

\* The worker has nothing in hand, or a job it no longer extracts for.
LEMMA PaidLeaves ==
  ASSUME RunInv, RunUnpaid, UNCHANGED paid, PayersStand, JobsStand,
         run'.pc \notin Seeded \cup {"profile", "delete"},
         run'.pc \notin WithJob \/ Present' \/ (run.pc \in WithJob /\ SameJob)
  PROVE  PaidRun'
<1>1. RunNew' /\ RunPays' /\ RunDone'
  BY DEF RunNew, RunPays, RunDone
<1>2. RunUnpaid'
  <2>1. CASE run'.pc \notin WithJob \/ Present'
    BY <2>1 DEF RunUnpaid
  <2>2. CASE run.pc \in WithJob /\ SameJob
    BY <2>2, UnpaidStays
  <2>3. QED
    BY <2>1, <2>2
<1>3. QED
  BY <1>1, <1>2 DEF PaidRun

\* The worker stays with its print, while texts may change.
LEMMA PaidRunStays ==
  ASSUME ExInv, RunInv', RunStarted, PaidTypeOK, PaidRun, UNCHANGED <<chars, checkpoint, paid>>, Grown,
         PayersStand, JobsStand, SameJob, run'.fp = run.fp,
         \A e \in Boundaries : run.res[e] # 0 => run'.res[e] # 0,
         \/ run'.pc = run.pc
         \/ {run.pc, run'.pc} \subseteq Merging
         \/ {run.pc, run'.pc} \subseteq {"profile", "delete"}
  PROVE  PaidRun'
<1> USE DEF PaidRun
<1>1. /\ run.pc \in WithJob <=> run'.pc \in WithJob
      /\ run.pc \in Seeded <=> run'.pc \in Seeded
      /\ run.pc \in Merging <=> run'.pc \in Merging
      /\ run.pc \in {"profile", "delete"} <=> run'.pc \in {"profile", "delete"}
      /\ run'.pc = "input" => run.pc = "input"
      /\ run.pc \in Seeded \cup {"profile", "delete"} => run.pc \in WithJob
  BY DEF Merging, Seeded, WithJob, Generating
<1>2. run.pc \in WithJob => (Present' <=> Present) /\ novel' = novel /\ novel \in Novels
  BY PresentStands DEF SameJob, novel, ExInv, RunInv, RunSited
<1>3. RunUnpaid'
  <2>1. CASE run.pc \in WithJob
    BY <2>1, UnpaidStays DEF ExInv
  <2>2. CASE run.pc \notin WithJob
    BY <1>1, <2>2 DEF RunUnpaid
  <2>3. QED
    BY <2>1, <2>2
<1>4. RunDone'
  <2>1. SUFFICES ASSUME run.pc \in {"profile", "delete"}, NEW j \in JobsOf(novel)', NEW p \in paid[j]
                 PROVE  ~Pending(novel, p[1])'
    BY <1>1 DEF RunDone
  <2>2. j \in JobsOf(novel)
    BY <1>1, <1>2, <2>1 DEF PayersStand, JobsOf
  <2>3. ~Pending(novel, p[1])
    BY <2>1, <2>2 DEF RunDone
  <2>4. QED
    BY <1>1, <1>2, <2>1, <2>3 DEF Pending, KnownBelow
<1>5. SUFFICES ASSUME run.pc \in Seeded, Present
               PROVE  RunNew' /\ RunPays'
  BY <1>1, <1>2, <1>3, <1>4 DEF RunNew, RunPays
<1>6. run.pc \in WithJob /\ novel' = novel /\ novel \in Novels
  BY <1>1, <1>2, <1>5
<1>7. ASSUME NEW e \in Boundaries
      PROVE  /\ content[novel][e] \in Nat /\ content'[novel][e] \in Nat /\ chars[novel].etag[e] \in Nat
             /\ content'[novel][e] >= content[novel][e] /\ Reads(e) <= Reads(e)'
             /\ run.fp.input[e] \in Nat /\ Reads(e) \in Nat /\ Reads(e)' \in Nat
  BY <1>6 DEF ExInv, RunInv, RunTypeOK, FilesTypeOK, Revisions, Prints, Grown, Reads
<1>8. RunNew'
  <2>1. Stale(novel, run.fp.from) /\ run.fp.from \in Boundaries => Stale(novel, run.fp.from)'
    BY <1>6, <1>7 DEF Stale, novel, SameJob
  <2>2. run.fp.from \in Boundaries
    <3>1. /\ run.fp.from \in Nat /\ run.fp.from # 0 /\ run.upTo \in Boundaries
          /\ run.fp.from <= run.upTo
      BY <1>5, <1>6 DEF ExInv, RunInv, RunTypeOK, RunSited, RunSeeded, RunStarted, Prints
    <3>2. QED
      BY <3>1, JobAssumption DEF Boundaries
  <2>3. QED
    BY <1>1, <1>5, <1>6, <2>1, <2>2 DEF RunNew, KnownBelow, Stale, Unread, SameJob
<1>9. RunPays'
  <2>1. SUFFICES ASSUME NEW j \in JobsOf(novel)', NEW p \in paid[j]
                 PROVE  /\ Pending(novel, p[1])' => run'.fp.from <= p[1].from
                        /\ \A i \in Boundaries : p[1].input[i] <= Reads(i)'
                        /\ jobs'[j].upTo = run'.upTo =>
                             /\ run'.pc = "input" /\ Pending(novel, p[1])' =>
                                  \/ run'.fp.from < p[1].from
                                  \/ \E i \in Boundaries : p[1].input[i] # 0 /\ p[1].input[i] < Reads(i)'
                                  \/ InCheckpoint(novel, run.upTo, p[1], p[2])'
                             /\ run'.pc \in Merging /\ p[1] = run'.fp => run'.res[p[2]] # 0
    BY DEF RunPays
  <2>2. j \in JobsOf(novel) /\ jobs'[j].upTo = jobs[j].upTo /\ j \in JobIDs
    BY <1>6, <2>1 DEF PayersStand, JobsOf
  <2>3. p[1] \in Prints /\ p[2] \in Boundaries
    BY <2>2, PaidTyped DEF ExInv
  <2>4. /\ Pending(novel, p[1])' <=> Pending(novel, p[1])
        /\ InCheckpoint(novel, run.upTo, p[1], p[2])' <=> InCheckpoint(novel, run.upTo, p[1], p[2])
    BY <1>6 DEF Pending, KnownBelow, InCheckpoint, SameJob
  <2>5. ASSUME NEW i \in Boundaries
        PROVE  /\ p[1].input[i] <= Reads(i)'
               /\ p[1].input[i] < Reads(i) => p[1].input[i] < Reads(i)'
    <3>1. p[1].input[i] \in Nat /\ p[1].input[i] <= Reads(i)
      BY <1>5, <2>1, <2>2, <2>3 DEF Prints, Revisions, RunPays
    <3>2. QED
      BY <1>7, <3>1
  <2>6. /\ Pending(novel, p[1]) => run.fp.from <= p[1].from
        /\ jobs[j].upTo = run.upTo =>
             /\ run.pc = "input" /\ Pending(novel, p[1]) =>
                  \/ run.fp.from < p[1].from
                  \/ \E i \in Boundaries : p[1].input[i] # 0 /\ p[1].input[i] < Reads(i)
                  \/ InCheckpoint(novel, run.upTo, p[1], p[2])
             /\ run.pc \in Merging /\ p[1] = run.fp => run.res[p[2]] # 0
    BY <1>5, <2>1, <2>2 DEF RunPays
  <2>7. jobs'[j].upTo = run'.upTo <=> jobs[j].upTo = run.upTo
    BY <2>2 DEF SameJob
  <2>8. run.pc = "input" /\ Pending(novel, p[1]) /\ jobs[j].upTo = run.upTo =>
          \/ run'.fp.from < p[1].from
          \/ \E i \in Boundaries : p[1].input[i] # 0 /\ p[1].input[i] < Reads(i)'
          \/ InCheckpoint(novel, run.upTo, p[1], p[2])'
    BY <2>4, <2>5, <2>6
  <2>9. QED
    BY <1>1, <2>3, <2>4, <2>5, <2>6, <2>7, <2>8
<1>10. QED
  BY <1>8, <1>9
-----------------------------------------------------------------------------
(* What changes the payments, the counters and the jobs                     *)

LEMMA CountStep ==
  ASSUME PaidTypeOK, [ExtractionNext]_exVars
  PROVE  /\ count' \in [{"control", "clear", "stop", "upgrade", "error", "fault"} -> Nat]
         /\ count'["upgrade"] = 0 => count["upgrade"] = 0 /\ ~Restart(TRUE)
<1> DEFINE Added(k) == count' = [count EXCEPT ![k] = count[k] + 1]
<1>1. \/ UNCHANGED count
      \/ \E k \in {"control", "clear", "stop", "upgrade", "error", "fault"} : Added(k)
  <2>1. CASE UNCHANGED exVars
    BY <2>1 DEF exVars
  <2>2. CASE \E n \in Novels, e \in Boundaries : Revise(n, e) \/ HandleEnqueue(n, e) \/ HandleRead(n, e)
    BY <2>2 DEF Revise, HandleEnqueue, HandleRead
  <2>3. CASE \E j \in JobIDs, a \in JobActions : HandleControl(j, a)
    BY <2>3 DEF HandleControl, Counted
  <2>4. CASE \E n \in Novels : HandleClear(n)
    BY <2>4 DEF HandleClear, Counted
  <2>5. CASE \/ Kick \/ (\E j \in JobIDs : Cancel(j)) \/ Shutdown \/ StartBackground
             \/ Unresolved \/ GenerationError \/ JobFault \/ Exit \/ Crash
             \/ (\E upgrade \in BOOLEAN : Restart(upgrade)) \/ Recover \/ Quarantine
    BY <2>5 DEF Kick, Cancel, Shutdown, StartBackground, Unresolved, GenerationError,
       JobFault, Exit, Crash, Restart, Recover, Quarantine, Counted
  <2>6. CASE Worker
    BY <2>6 DEF Worker, Begin, Load, Register, Recheck, Start, Failed, Completed, Seed, LoadInput,
       LoadCheckpoint, Send, Answer, SaveCheckpoint, SaveGeneratedTerms, SaveEvents, SaveProfile,
       DeleteCheckpoint, Materialize, Unregister, Finalize, Counted
  <2>7. QED
    BY <2>1, <2>2, <2>3, <2>4, <2>5, <2>6 DEF ExtractionNext
<1>2. Restart(TRUE) => Added("upgrade")
  BY DEF Restart, Counted
<1>3. count' \in [{"control", "clear", "stop", "upgrade", "error", "fault"} -> Nat]
  BY <1>1 DEF PaidTypeOK
<1>4. count'["upgrade"] \in {count["upgrade"], count["upgrade"] + 1} /\ count["upgrade"] \in Nat
  BY <1>1 DEF PaidTypeOK
<1>5. Restart(TRUE) => count'["upgrade"] = count["upgrade"] + 1
  BY <1>2 DEF PaidTypeOK
<1>6. ASSUME count'["upgrade"] = 0
      PROVE  count["upgrade"] = 0 /\ ~Restart(TRUE)
  <2>1. count["upgrade"] = 0 /\ count'["upgrade"] # count["upgrade"] + 1
    BY <1>4, <1>6
  <2>2. QED
    BY <1>5, <2>1
<1>7. QED
  BY <1>3, <1>6

LEMMA OnlyCheckpointsPay ==
  ASSUME [ExtractionNext]_exVars
  PROVE  UNCHANGED paid \/ SaveCheckpoint
<1>1. CASE UNCHANGED exVars
  BY <1>1 DEF exVars
<1>2. CASE \E n \in Novels, e \in Boundaries : Revise(n, e) \/ HandleEnqueue(n, e) \/ HandleRead(n, e)
  BY <1>2 DEF Revise, HandleEnqueue, HandleRead
<1>3. CASE \/ \E j \in JobIDs, a \in JobActions : HandleControl(j, a)
           \/ \E n \in Novels : HandleClear(n)
  BY <1>3 DEF HandleControl, HandleClear
<1>4. CASE \/ Kick \/ (\E j \in JobIDs : Cancel(j)) \/ Shutdown \/ StartBackground
           \/ Unresolved \/ GenerationError \/ JobFault \/ Exit \/ Crash
           \/ (\E upgrade \in BOOLEAN : Restart(upgrade)) \/ Recover \/ Quarantine
  BY <1>4 DEF Kick, Cancel, Shutdown, StartBackground, Unresolved, GenerationError,
     JobFault, Exit, Crash, Restart, Recover, Quarantine
<1>5. CASE Worker
  BY <1>5 DEF Worker, Begin, Load, Register, Recheck, Start, Failed, Completed, Seed, LoadInput,
     LoadCheckpoint, Send, Answer, SaveGeneratedTerms, SaveEvents, SaveProfile,
     DeleteCheckpoint, Materialize, Unregister, Finalize
<1>6. QED
  BY <1>1, <1>2, <1>3, <1>4, <1>5 DEF ExtractionNext

LEMMA PaidTypeStep ==
  ASSUME ExInv, RunInv', PaidTypeOK, [ExtractionNext]_exVars
  PROVE  PaidTypeOK'
<1> USE DEF ExInv
<1>1. lastJob \in Nat /\ lastJob' \in Nat /\ lastJob' >= lastJob /\ JobIDs \subseteq Nat
  <2>1. [JobNext]_jobVars
    BY ExtractionStepInv
  <2>2. lastJob \in Nat /\ lastJob' \in {lastJob, lastJob + 1}
    <3>1. lastJob \in Nat
      BY JobAssumption DEF JobInv, JobTypeOK
    <3>2. CASE JobNext
      <4>1. lastJob' \in {lastJob, lastJob + 1}
        BY <3>2, JobSteps DEF SaveJobIfNoActive, SaveJob, PruneJobsIfNoActive, jobVars
      <4>2. QED
        BY <3>1, <4>1
    <3>3. CASE UNCHANGED jobVars
      BY <3>1, <3>3 DEF jobVars
    <3>4. QED
      BY <2>1, <3>2, <3>3
  <2>3. QED
    BY <2>2, JobAssumption DEF JobIDs
<1>2. paid' \in [JobIDs -> SUBSET (Prints \X Boundaries)] /\ \A j \in JobIDs : j > lastJob => paid'[j] = {}
  <2>1. CASE UNCHANGED paid
    BY <2>1 DEF PaidTypeOK
  <2>2. CASE SaveCheckpoint
    <3> DEFINE new == {<<run.fp, e>> : e \in {i \in Boundaries : run.res[i] # 0}}
    <3>1. paid' = [paid EXCEPT ![run.job] = paid[run.job] \cup new] /\ run.job <= lastJob /\ run.job \in Nat
      BY <2>2 DEF SaveCheckpoint, At, RunInv, RunSited, WithJob, Generating, JobInv, JobTypeOK
    <3>2. new \in SUBSET (Prints \X Boundaries)
      BY DEF RunInv, RunTypeOK
    <3> HIDE DEF new
    <3>3. paid' \in [JobIDs -> SUBSET (Prints \X Boundaries)]
      BY <3>1, <3>2 DEF PaidTypeOK
    <3>4. \A j \in JobIDs : j > lastJob => paid'[j] = {}
      BY <1>1, <3>1 DEF PaidTypeOK
    <3>5. QED
      BY <3>3, <3>4
  <2>3. QED
    BY <2>1, <2>2, OnlyCheckpointsPay
<1>3. \A j \in JobIDs : j > lastJob' => paid'[j] = {}
  BY <1>1, <1>2
<1>4. QED
  BY <1>2, <1>3, CountStep DEF PaidTypeOK

\* Only a clear takes documents away.
LEMMA OthersStand ==
  ASSUME ExInv, [ExtractionNext]_exVars, ~ \E n \in Novels : HandleClear(n)
  PROVE  JobsStand
<1>1. CASE \/ \E n \in Novels, u \in Boundaries : SaveJobIfNoActive(n, u)
           \/ \E j \in JobIDs, a \in JobActions : ControlJob(j, a)
           \/ UNCHANGED jobVars
  BY <1>1, JobsStandStep DEF ExInv
<1>2. CASE UNCHANGED exVars
  BY <1>1, <1>2 DEF exVars
<1>3. CASE \E n \in Novels, e \in Boundaries : Revise(n, e) \/ HandleEnqueue(n, e) \/ HandleRead(n, e)
  BY <1>1, <1>3 DEF Revise, HandleEnqueue, HandleRead
<1>4. CASE \E j \in JobIDs, a \in JobActions : HandleControl(j, a)
  BY <1>1, <1>4 DEF HandleControl
<1>5. CASE \/ Kick \/ (\E j \in JobIDs : Cancel(j)) \/ Shutdown \/ StartBackground
           \/ GenerationError \/ JobFault \/ Exit \/ Crash
           \/ (\E upgrade \in BOOLEAN : Restart(upgrade)) \/ Quarantine
  BY <1>1, <1>5 DEF Kick, Cancel, Shutdown, StartBackground, GenerationError, JobFault, Exit, Crash,
     Restart, Quarantine
<1>6. CASE Unresolved \/ Start \/ Failed \/ Completed \/ Finalize \/ Recover
  BY <1>6, StatusStands, RecoverStands
<1>7. CASE \/ Begin \/ Load \/ Register \/ Recheck \/ Seed \/ LoadInput \/ LoadCheckpoint
           \/ Send \/ Answer \/ SaveCheckpoint \/ SaveGeneratedTerms \/ SaveEvents \/ SaveProfile
           \/ DeleteCheckpoint \/ Materialize \/ Unregister
  BY <1>1, <1>7 DEF Begin, Load, Register, Recheck, Seed, LoadInput, LoadCheckpoint, Send, Answer,
     SaveCheckpoint, SaveGeneratedTerms, SaveEvents, SaveProfile, DeleteCheckpoint, Materialize, Unregister
<1>8. QED
  BY <1>2, <1>3, <1>4, <1>5, <1>6, <1>7 DEF ExtractionNext, Worker
-----------------------------------------------------------------------------
(* The process, the handlers and what the worker does around an extraction  *)

LEMMA FilesPaid ==
  ASSUME ExInv, RunInv', PaidTypeOK, PaidFiles, JobsStand, Grown,
         UNCHANGED <<chars, terms, checkpoint, paid>>, run'.pc # "quarantine"
  PROVE  PaidFiles' /\ PayersStand
<1>1. PayersStand
  BY PayersStay DEF ExInv
<1>2. \A n \in Novels : \A j \in JobsOf(n) : \A p \in paid[j] : \A u \in Boundaries :
        u = jobs[j].upTo /\ Kept(n, u, p) => InCheckpoint(n, u, p[1], p[2])'
  BY DEF Kept, InCheckpoint
<1>3. PaidFits' /\ EtagsEnd'
  BY <1>1, <1>2, PaidFilesStay DEF PaidFiles
<1>4. SameBuild'
  BY DEF PaidFiles, SameBuild
<1>5. QED
  BY <1>1, <1>3, <1>4 DEF PaidFiles

LEMMA LikeGrown ==
  ASSUME ExInv, UNCHANGED content
  PROVE  Grown
BY DEF Grown, ExInv, RunInv, FilesTypeOK, Revisions

LEMMA ReviseGrows ==
  ASSUME ExInv, NEW n \in Novels, NEW e \in Boundaries, Revise(n, e)
  PROVE  Grown
<1>1. content' = [content EXCEPT ![n] = [content[n] EXCEPT ![e] = content[n][e] + 1]]
  BY DEF Revise
<1>2. content \in [Novels -> [Boundaries -> Nat]]
  BY DEF ExInv, RunInv, FilesTypeOK, Revisions
<1>3. SUFFICES ASSUME NEW m \in Novels, NEW i \in Boundaries
               PROVE  content'[m][i] >= content[m][i]
  BY DEF Grown
<1>4. content'[m][i] \in {content[m][i], content[m][i] + 1} /\ content[m][i] \in Nat
  BY <1>1, <1>2
<1>5. QED
  BY <1>4

LEMMA BesidePaid ==
  ASSUME ExInv, RunInv', WholeInv, PaidTypeOK, PaidFiles, PaidRun, JobsStand,
         \/ \E n \in Novels, u \in Boundaries : Revise(n, u) \/ HandleEnqueue(n, u) \/ HandleRead(n, u)
         \/ \E j \in JobIDs, a \in JobActions : HandleControl(j, a)
         \/ Kick \/ Shutdown \/ StartBackground
         \/ \E j \in JobIDs : Cancel(j)
         \/ Restart(FALSE)
         \/ UNCHANGED exVars
  PROVE  PaidFiles' /\ PaidRun'
<1>1. UNCHANGED <<chars, terms, checkpoint, paid>>
  BY DEF Revise, HandleEnqueue, HandleRead, HandleControl, Kick, Shutdown, StartBackground, Cancel, Restart,
     exVars, stateFiles
<1>2. Grown
  <2>1. UNCHANGED content \/ \E n \in Novels, u \in Boundaries : Revise(n, u)
    BY DEF HandleEnqueue, HandleRead, HandleControl, Kick, Shutdown, StartBackground, Cancel, Restart, exVars
  <2>2. QED
    BY <2>1, LikeGrown, ReviseGrows
<1>3. SameWork /\ run'.pc = run.pc
  <2>1. run' = run \/ \E c : run' = [run EXCEPT !.canceled = c]
    BY DEF Revise, HandleEnqueue, HandleRead, HandleControl, Kick, Shutdown, StartBackground, Cancel, Restart,
       exVars
  <2>2. QED
    BY <2>1 DEF ExInv, RunInv, RunTypeOK, SameWork, SameJob
<1>4. run'.pc # "quarantine"
  BY <1>3 DEF PaidFiles, SameBuild
<1>5. PaidFiles' /\ PayersStand
  BY <1>1, <1>2, <1>4, FilesPaid
<1>6. PaidRun'
  BY <1>1, <1>2, <1>3, <1>5, PaidRunStays DEF SameWork, WholeInv
<1>7. QED
  BY <1>5, <1>6

\* No file changes, and the worker is where it extracts nothing.
LEMMA AwayPaid ==
  ASSUME ExInv, RunInv', PaidTypeOK, PaidFiles, PaidRun, JobsStand,
         UNCHANGED <<content, chars, terms, checkpoint, paid>>,
         \/ run'.pc \in {"idle", "load"}
         \/ /\ run'.pc \in {"register", "recheck", "start", "seed", "error", "complete", "end", "finalize",
                            "materialize"}
            /\ Present' \/ (run.pc \in WithJob /\ SameJob)
  PROVE  PaidFiles' /\ PaidRun'
<1>1. Grown
  BY LikeGrown
<1>2. run'.pc \notin Seeded \cup {"profile", "delete", "quarantine"}
  BY DEF Seeded
<1>3. run'.pc \notin WithJob \/ Present' \/ (run.pc \in WithJob /\ SameJob)
  BY DEF WithJob, Generating
<1>4. PaidFiles' /\ PayersStand
  BY <1>1, <1>2, FilesPaid
<1>5. PaidRun'
  BY <1>2, <1>3, <1>4, PaidLeaves DEF ExInv, PaidRun
<1>6. QED
  BY <1>4, <1>5

LEMMA LoadPaid ==
  ASSUME ExInv, RunInv', PaidTypeOK, PaidFiles, PaidRun, JobsStand, Load
  PROVE  PaidFiles' /\ PaidRun'
<1>1. UNCHANGED <<content, chars, terms, checkpoint, paid>> /\ UNCHANGED jobVars
  BY DEF Load, stateFiles
<1>2. CASE run' = IdleRun
  <2>1. run'.pc = "idle"
    BY <1>2 DEF IdleRun
  <2>2. QED
    BY <1>1, <2>1, AwayPaid
<1>3. CASE run' # IdleRun
  <2> DEFINE j == Min(ForExecution)
  <2>1. /\ ForExecution # {}
        /\ run' = [IdleRun EXCEPT !.pc = "register", !.job = j, !.novel = jobs[j].novel,
                                  !.upTo = jobs[j].upTo, !.status = jobs[j].status]
    BY <1>3 DEF Load
  <2>2. j \in ForExecution
    BY <2>1, MinIsLeast, JobAssumption DEF ForExecution, JobIDs
  <2> HIDE DEF j
  <2>3. run'.pc = "register" /\ run'.job = j
    BY <2>1 DEF IdleRun
  <2>4. Present'
    BY <1>1, <2>2, <2>3 DEF ForExecution, Exists, Executable, Present, jobVars
  <2>5. QED
    BY <1>1, <2>3, <2>4, AwayPaid
<1>4. QED
  BY <1>2, <1>3

LEMMA AroundPaid ==
  ASSUME ExInv, RunInv', PaidTypeOK, PaidFiles, PaidRun, JobsStand,
         \/ Begin \/ Register \/ Recheck \/ Unregister
         \/ Start \/ Unresolved \/ Failed \/ Completed \/ Finalize
         \/ GenerationError \/ JobFault \/ Exit \/ Crash \/ Materialize
  PROVE  PaidFiles' /\ PaidRun'
<1> USE DEF At
<1>1. UNCHANGED <<content, chars, terms, checkpoint, paid>>
  BY DEF Begin, Register, Recheck, Unregister, Start, Unresolved, Failed, Completed, Finalize,
     GenerationError, JobFault, Exit, Crash, Materialize, stateFiles
<1>2. \/ run' = IdleRun \/ run' = [IdleRun EXCEPT !.pc = "load"]
      \/ run' = [run EXCEPT !.pc = "load"]
      \/ /\ run.pc \in WithJob
         /\ \/ \E p \in {"start", "seed", "end", "complete"} : run' = [run EXCEPT !.pc = p]
            \/ run' = [run EXCEPT !.pc = "error", !.err = "failure"]
            \/ run' = [run EXCEPT !.pc = "finalize", !.registered = FALSE]
            \/ run' = [run EXCEPT !.pc = "recheck", !.registered = TRUE, !.canceled = server = "stopping"]
  BY DEF Begin, Register, Recheck, Unregister, Start, Unresolved, Failed, Completed, Finalize,
     GenerationError, JobFault, Exit, Crash, Stopped, Materialize, Go, Error, WithJob, Generating
<1>3. \/ run'.pc \in {"idle", "load"}
      \/ /\ run'.pc \in {"register", "recheck", "start", "seed", "error", "complete", "end", "finalize",
                         "materialize"}
         /\ run.pc \in WithJob /\ SameJob
  <2>1. RunTypeOK
    BY DEF ExInv, RunInv
  <2>2. CASE run' = IdleRun \/ run' = [IdleRun EXCEPT !.pc = "load"]
    BY <2>2 DEF IdleRun
  <2>3. CASE run' = [run EXCEPT !.pc = "load"]
    BY <2>1, <2>3 DEF RunTypeOK
  <2>4. CASE run.pc \in WithJob /\ \E p \in {"start", "seed", "end", "complete"} : run' = [run EXCEPT !.pc = p]
    BY <2>1, <2>4 DEF RunTypeOK, SameJob
  <2>5. CASE run.pc \in WithJob /\ run' = [run EXCEPT !.pc = "error", !.err = "failure"]
    BY <2>1, <2>5 DEF RunTypeOK, SameJob
  <2>6. CASE run.pc \in WithJob /\ run' = [run EXCEPT !.pc = "finalize", !.registered = FALSE]
    BY <2>1, <2>6 DEF RunTypeOK, SameJob
  <2>7. CASE /\ run.pc \in WithJob
             /\ run' = [run EXCEPT !.pc = "recheck", !.registered = TRUE, !.canceled = server = "stopping"]
    BY <2>1, <2>7 DEF RunTypeOK, SameJob
  <2>8. QED
    BY <1>2, <2>2, <2>3, <2>4, <2>5, <2>6, <2>7
<1>4. QED
  BY <1>1, <1>3, AwayPaid

LEMMA RecoverPaid ==
  ASSUME ExInv, RunInv', PaidTypeOK, PaidFiles, PaidRun, JobsStand, Recover \/ Quarantine
  PROVE  PaidFiles' /\ PaidRun'
<1> USE DEF At
<1>1. ~Quarantine
  BY DEF Quarantine, PaidFiles, SameBuild
<1>2. UNCHANGED <<content, chars, terms, checkpoint, paid>> /\ run.pc = "idle"
  BY <1>1 DEF Recover, stateFiles
<1>3. PICK j \in JobIDs :
        /\ RecoverRunningJob(j, checkpoint[jobs[j].novel][jobs[j].upTo].fit)
        /\ checkpoint[jobs[j].novel][jobs[j].upTo].fit => run' = run
  BY <1>1 DEF Recover, RecoverRunningJob, Unrecovered
<1>4. jobs[j].novel \in Novels /\ jobs[j].upTo \in Boundaries
  BY <1>3 DEF RecoverRunningJob, Unrecovered, ExInv, JobInv, JobTypeOK, NoJob, Job
<1>5. run' = run
  BY <1>3, <1>4 DEF PaidFiles, SameBuild
<1>6. QED
  BY <1>2, <1>5, AwayPaid
-----------------------------------------------------------------------------
(* The seed, the texts and the checkpoint                                   *)

\* Where a generation begins: there is nothing stale before it.
LEMMA SeedFrom ==
  ASSUME ExInv, WholeInv, Seed, run'.pc = "input"
  PROVE  /\ run.pc = "seed" /\ SameJob /\ novel \in Novels
         /\ run'.fp.from \in Boundaries /\ run'.fp.from <= chars[novel].front + 1
         /\ \A e \in Boundaries : e < run'.fp.from => ~Stale(novel, e)
         /\ run'.fp.from <= chars[novel].front => Stale(novel, run'.fp.from)
         /\ run'.fp.chars = chars[novel].src /\ run'.fp.input = Nothing
         /\ run'.fp.terms = Below(terms[novel].src, run'.fp.from)
<1> USE DEF ExInv, At
<1> DEFINE c == chars[novel]
           stale == {e \in Boundaries : /\ e <= c.front /\ e <= run.upTo
                                        /\ c.etag[e] # content[novel][e]}
           again == ReprocessFrom(c)
           from == IF again # 0 THEN again ELSE c.front + 1
           fp == [from |-> from, chars |-> c.src, terms |-> Below(terms[novel].src, from),
                  input |-> Nothing]
<1>1. /\ run.pc = "seed" /\ novel \in Novels /\ c.front \in Nat
      /\ run.upTo \in Boundaries /\ run.upTo \in Nat /\ RunTypeOK
  BY JobAssumption DEF Seed, novel, RunInv, RunSited, RunTypeOK, WithJob, Generating, FilesTypeOK, Boundaries
<1>2. /\ again = 0 => c.front < run.upTo
      /\ run' = [run EXCEPT !.pc = "input", !.again = again # 0, !.fp = fp]
  <2>1. ~Error("canceled") /\ ~Error("legacy") /\ ~Go("materialize")
    BY <1>1 DEF Error, Go, RunTypeOK
  <2>2. QED
    BY <1>1, <2>1 DEF Seed
<1>3. /\ stale \in SUBSET Nat /\ again = IF stale = {} THEN 0 ELSE Min(stale)
      /\ \A e \in stale : e \in Boundaries /\ e <= c.front /\ e <= run.upTo /\ Stale(novel, e)
      /\ \A e \in Boundaries : e <= c.front /\ e <= run.upTo /\ e \notin stale => ~Stale(novel, e)
  BY <1>1, OtherEtagIsStale, JobAssumption DEF ReprocessFrom, Boundaries, WholeInv
<1> HIDE DEF stale
<1>4. stale # {} => again \in stale /\ \A e \in stale : again <= e
  BY <1>3, MinIsLeast
<1> HIDE DEF again
<1>5. /\ from \in Boundaries /\ from <= c.front + 1 /\ from <= run.upTo
      /\ from <= c.front => Stale(novel, from)
      /\ \A e \in stale : from <= e
  <2>1. CASE stale = {}
    <3>1. again = 0 /\ from = c.front + 1
      BY <1>3, <2>1
    <3>2. QED
      BY <1>1, <1>2, <2>1, <3>1, JobAssumption DEF Boundaries
  <2>2. CASE stale # {}
    <3>1. again \in stale /\ again \in Boundaries /\ again # 0
      BY <1>3, <1>4, <2>2 DEF Boundaries
    <3>2. QED
      BY <1>1, <1>3, <1>4, <2>2, <3>1, JobAssumption DEF Boundaries
  <2>3. QED
    BY <2>1, <2>2
<1> HIDE DEF from
<1>6. \A e \in Boundaries : e < from => ~Stale(novel, e)
  <2>1. SUFFICES ASSUME NEW e \in Boundaries, e < from PROVE ~Stale(novel, e)
    OBVIOUS
  <2>2. e <= c.front /\ e <= run.upTo /\ ~(from <= e)
    BY <1>1, <1>5, <2>1, JobAssumption DEF Boundaries
  <2>3. QED
    BY <1>3, <1>5, <2>2
<1>7. SameJob /\ run'.fp = fp
  BY <1>1, <1>2 DEF RunTypeOK, SameJob
<1>8. QED
  BY <1>1, <1>5, <1>6, <1>7

\* The print a generation begins with is newer than all that is paid for and
\* not saved, or the checkpoint has that.
LEMMA SeedPaid ==
  ASSUME ExInv, RunInv', WholeInv, PaidTypeOK, PaidFiles, PaidRun, JobsStand, Seed
  PROVE  PaidFiles' /\ PaidRun'
<1> USE DEF ExInv, At
<1>1. UNCHANGED <<content, chars, terms, checkpoint, paid>> /\ UNCHANGED jobVars /\ run.pc \in WithJob
  BY DEF Seed, stateFiles, WithJob, Generating
<1>2. CASE run'.pc # "input"
  <2>1. run' = [run EXCEPT !.pc = "error", !.err = "canceled"] \/ run' = [run EXCEPT !.pc = "error", !.err = "legacy"]
        \/ run' = [run EXCEPT !.pc = "materialize"]
    <3>1. ASSUME NEW a, NEW f, run' = [run EXCEPT !.pc = "input", !.again = a, !.fp = f]
          PROVE  FALSE
      BY <1>2, <3>1 DEF RunInv, RunTypeOK
    <3>2. QED
      BY <3>1 DEF Seed, Error, Go
  <2>2. run'.pc \in {"error", "materialize"} /\ SameJob
    BY <2>1 DEF RunInv, RunTypeOK, SameJob
  <2>3. QED
    BY <1>1, <2>2, AwayPaid
<1>3. CASE run'.pc = "input"
  <2> DEFINE fp == run'.fp
             from == run'.fp.from
  <2>1. /\ SameJob /\ novel \in Novels /\ from \in Boundaries /\ from <= chars[novel].front + 1
        /\ \A e \in Boundaries : e < from => ~Stale(novel, e)
        /\ from <= chars[novel].front => Stale(novel, from)
        /\ fp.chars = chars[novel].src /\ fp.input = Nothing
        /\ fp.terms = Below(terms[novel].src, from)
    BY <1>3, SeedFrom
  <2>2. PaidFiles' /\ PayersStand
    BY <1>1, <1>3, FilesPaid, LikeGrown
  <2>3. novel' = novel /\ (Present' <=> Present) /\ JobsOf(novel)' = JobsOf(novel)
    BY <1>1, <2>1, PresentStands DEF SameJob, novel, JobsOf, Exists, jobVars
  <2>4. RunUnpaid' /\ RunDone'
    BY <1>1, <1>3, <2>1, <2>2, UnpaidStays DEF PaidRun, RunDone
  <2>5. ASSUME NEW e \in Boundaries
        PROVE  /\ content[novel][e] \in Nat /\ content[novel][e] # 0 /\ chars[novel].etag[e] \in Nat
               /\ chars[novel].etag[e] <= content[novel][e] /\ e \in Nat
               /\ fp.input[e] = 0 /\ Reads(e)' = content[novel][e]
               /\ e < from => chars[novel].etag[e] = content[novel][e] /\ chars[novel].etag[e] = fp.chars[e]
               /\ e >= from => fp.terms[e] = 0
    <3>1. /\ content[novel][e] \in Nat /\ content[novel][e] # 0 /\ chars[novel].etag[e] \in Nat
          /\ chars[novel].etag[e] <= content[novel][e] /\ e \in Nat /\ from \in Nat
      <4>1. content[novel][e] \in Nat /\ chars[novel].etag[e] \in Nat
        BY <2>1 DEF FilesTypeOK, RunInv, Revisions
      <4>2. content[novel][e] # 0 /\ chars[novel].etag[e] <= content[novel][e]
        BY <2>1 DEF WholeInv, FilesFit, EtagsArePast
      <4>3. Boundaries \subseteq Nat
        BY JobAssumption DEF Boundaries
      <4>4. QED
        BY <2>1, <4>1, <4>2, <4>3
    <3>2. fp.input[e] = 0 /\ Reads(e)' = content[novel][e]
      BY <1>1, <2>1, <2>3 DEF Nothing, Reads
    <3>3. e < from => chars[novel].etag[e] = content[novel][e]
      BY <2>1, <3>1 DEF Stale
    <3>4. chars[novel].etag[e] # 0 => chars[novel].etag[e] = chars[novel].src[e]
      BY <2>1 DEF RunInv, DigestIsTrue
    <3>5. e >= from => fp.terms[e] = 0
      BY <2>1, <3>1 DEF Below
    <3>6. QED
      BY <2>1, <3>1, <3>2, <3>3, <3>4, <3>5
  <2>6. Stale(novel, from)
    <3>1. from > chars[novel].front => chars[novel].etag[from] = 0
      BY <2>1 DEF PaidFiles, EtagsEnd
    <3>2. chars[novel].front \in Nat /\ from \in Nat
      BY <2>1, <2>5 DEF RunInv, FilesTypeOK
    <3>3. QED
      BY <2>1, <2>5, <3>1, <3>2 DEF Stale
  <2>7. RunNew'
    <3>1. KnownBelow(novel, run.fp, run.fp.from)'
      BY <1>1, <2>3, <2>5 DEF KnownBelow
    <3>2. Stale(novel, run.fp.from)'
      BY <1>1, <2>3, <2>6 DEF Stale
    <3>3. QED
      BY <1>1, <1>3, <2>1, <2>3, <2>5, <3>1, <3>2 DEF RunNew, Merging
  <2>8. ASSUME Present, NEW j \in JobsOf(novel), NEW p \in paid[j]
        PROVE  /\ Pending(novel, p[1]) => from <= p[1].from
               /\ \A i \in Boundaries : p[1].input[i] <= Reads(i)'
               /\ Pending(novel, p[1]) =>
                    \/ from < p[1].from
                    \/ \E i \in Boundaries : p[1].input[i] # 0 /\ p[1].input[i] < Reads(i)'
                    \/ InCheckpoint(novel, jobs[j].upTo, p[1], p[2])
    <3>1. /\ PrintFits(novel, jobs[j].upTo, p[1])
          /\ Pending(novel, p[1]) /\ ~Passed(novel, p[1]) => InCheckpoint(novel, jobs[j].upTo, p[1], p[2])
      BY <2>1, <2>8 DEF PaidFiles, PaidFits
    <3>2. p[1] \in Prints /\ jobs[j].upTo \in Boundaries
      BY <2>8, PaidTyped DEF JobsOf, Exists, JobInv, JobTypeOK, Job, NoJob
    <3>3. p[1].from \in Boundaries
      BY <3>1, <3>2, JobAssumption DEF PrintFits, Boundaries
    <3>4. \A i \in Boundaries : p[1].input[i] <= content[novel][i] /\ p[1].input[i] \in Nat
      BY <3>1, <3>2 DEF PrintFits, Prints, Revisions
    <3>5. Pending(novel, p[1]) => from <= p[1].from
      BY <2>1, <2>5, <3>3, <3>4 DEF Pending
    <3>6. ASSUME Passed(novel, p[1])
          PROVE  \/ from < p[1].from
                 \/ \E i \in Boundaries : p[1].input[i] # 0 /\ p[1].input[i] < Reads(i)'
      <4>1. CASE \E k \in Boundaries : k < p[1].from /\ Stale(novel, k)
        <5>1. PICK k \in Boundaries : k < p[1].from /\ Stale(novel, k)
          BY <4>1
        <5>2. ~(k < from) /\ k \in Nat /\ from \in Nat /\ p[1].from \in Nat
          BY <2>1, <2>5, <3>3, <5>1
        <5>3. QED
          BY <5>1, <5>2
      <4>2. CASE \E i \in Boundaries : p[1].input[i] # 0 /\ p[1].input[i] < content[novel][i]
        BY <2>5, <4>2
      <4>3. QED
        BY <3>6, <4>1, <4>2 DEF Passed
    <3>7. QED
      BY <2>5, <3>1, <3>4, <3>5, <3>6
  <2>9. RunPays'
    <3>1. SUFFICES ASSUME Present, NEW j \in JobsOf(novel), NEW p \in paid[j]
                   PROVE  /\ Pending(novel, p[1])' => from <= p[1].from
                          /\ \A i \in Boundaries : p[1].input[i] <= Reads(i)'
                          /\ jobs'[j].upTo = run'.upTo /\ Pending(novel, p[1])' =>
                               \/ from < p[1].from
                               \/ \E i \in Boundaries : p[1].input[i] # 0 /\ p[1].input[i] < Reads(i)'
                               \/ InCheckpoint(novel, run.upTo, p[1], p[2])'
      BY <1>1, <1>3, <2>3 DEF RunPays, Merging
    <3>2. /\ Pending(novel, p[1])' <=> Pending(novel, p[1])
          /\ InCheckpoint(novel, run.upTo, p[1], p[2])' <=> InCheckpoint(novel, run.upTo, p[1], p[2])
          /\ jobs' = jobs /\ run'.upTo = run.upTo
      BY <1>1, <2>1, <2>3 DEF Pending, KnownBelow, InCheckpoint, SameJob, jobVars
    <3>3. QED
      BY <2>8, <3>1, <3>2
  <2>10. QED
    BY <2>2, <2>4, <2>7, <2>9 DEF PaidRun
<1>4. QED
  BY <1>2, <1>3

\* What others or earlier runs paid for, and is not done for, was paid for with this print.
LEMMA OnlyThisPrint ==
  ASSUME ExInv, WholeInv, PaidTypeOK, PaidFiles, PaidRun, run.pc \in Seeded \ {"events"}, Present, Unread = {},
         NEW j \in JobsOf(novel), jobs[j].upTo = run.upTo, NEW p \in paid[j],
         Pending(novel, p[1]), ~Passed(novel, p[1])
  PROVE  p[1] = run.fp
<1> USE DEF ExInv
<1>1. /\ novel \in Novels /\ run.upTo \in Boundaries /\ run.fp \in Prints
  BY DEF novel, RunInv, RunSited, RunTypeOK, WithJob, Generating, Seeded
<1>2. p[1] \in Prints /\ p[2] \in Boundaries
  BY PaidTyped DEF JobsOf
<1>3. /\ PrintFits(novel, run.upTo, p[1]) /\ Seeds(novel, p[1])
      /\ p[1].terms = Below(terms[novel].src, p[1].from)
  BY <1>1 DEF PaidFiles, PaidFits
<1>4. /\ run.fp.chars = chars[novel].src /\ run.fp.terms = Below(terms[novel].src, run.fp.from)
      /\ run.fp.from <= run.upTo /\ run.fp.from # 0 /\ run.fp.from \in Nat
      /\ Stale(novel, run.fp.from) /\ run.fp.from <= p[1].from
  BY <1>1, <1>2 DEF WholeInv, RunStarted, PaidRun, RunNew, RunPays, RunInv, RunSeeded, Prints
<1>5. p[1].from = run.fp.from
  <2>1. run.fp.from \in Boundaries
    BY <1>1, <1>4, JobAssumption DEF Boundaries
  <2>2. ~(run.fp.from < p[1].from)
    BY <1>4, <2>1 DEF Passed
  <2>3. p[1].from \in Nat
    BY <1>2 DEF Prints
  <2>4. QED
    BY <1>4, <2>2, <2>3
<1>6. ASSUME NEW i \in Boundaries PROVE p[1].input[i] = run.fp.input[i]
  <2>1. /\ p[1].input[i] \in Nat /\ run.fp.input[i] \in Nat /\ content[novel][i] \in Nat
        /\ i \in Nat /\ run.upTo \in Nat
    <3>1. Boundaries \subseteq Nat
      BY JobAssumption DEF Boundaries
    <3>2. p[1].input[i] \in Nat /\ run.fp.input[i] \in Nat /\ content[novel][i] \in Nat
      BY <1>1, <1>2 DEF Prints, Revisions, RunInv, FilesTypeOK
    <3>3. QED
      BY <1>1, <3>1, <3>2
  <2>2. CASE run.fp.from <= i /\ i <= run.upTo
    <3>1. run.fp.input[i] # 0
      BY <1>4, <2>1, <2>2 DEF Unread
    <3>2. p[1].input[i] <= run.fp.input[i] /\ run.fp.input[i] <= content[novel][i]
      BY <3>1 DEF PaidRun, RunPays, Reads, WholeInv, RunStarted
    <3>3. p[1].input[i] # 0 /\ ~(p[1].input[i] < content[novel][i])
      BY <1>3, <1>5, <2>2 DEF PrintFits, Passed
    <3>4. QED
      BY <2>1, <3>2, <3>3
  <2>3. CASE ~(run.fp.from <= i /\ i <= run.upTo)
    <3>1. p[1].input[i] = 0
      BY <1>3, <1>5, <2>3 DEF PrintFits
    <3>2. run.fp.input[i] # 0 => i \in run.fp.from .. run.upTo
      BY DEF RunInv, RunSeeded
    <3>3. QED
      BY <1>4, <2>1, <2>3, <3>1, <3>2
  <2>4. QED
    BY <2>2, <2>3
<1>7. p[1].chars = run.fp.chars /\ p[1].terms = run.fp.terms
  BY <1>3, <1>4, <1>5 DEF Seeds
<1>8. p[1].input = run.fp.input
  BY <1>1, <1>2, <1>6 DEF Prints, Revisions
<1>9. QED
  BY <1>1, <1>2, <1>5, <1>7, <1>8 DEF Prints

LEMMA LoadInputPaid ==
  ASSUME ExInv, RunInv', WholeInv, PaidTypeOK, PaidFiles, PaidRun, JobsStand, LoadInput
  PROVE  PaidFiles' /\ PaidRun'
<1> USE DEF ExInv, At
<1> DEFINE e == Min(Unread)
           w == content[novel][e]
<1>1. /\ run.pc = "input" /\ run.pc \in WithJob /\ run.pc \in Seeded /\ Unread # {}
      /\ UNCHANGED <<content, chars, terms, checkpoint, paid>> /\ UNCHANGED jobVars
      /\ RunTypeOK /\ run.fp \in Prints /\ novel \in Novels /\ run.upTo \in Boundaries
      /\ run.fp.from \in Nat \ {0}
  BY DEF LoadInput, stateFiles, WithJob, Generating, Seeded, RunInv, RunTypeOK, RunSited, RunSeeded, Prints, novel
<1>2. CASE Error("canceled")
  <2>1. run'.pc = "error" /\ SameJob
    BY <1>1, <1>2, Erred DEF SameWork
  <2>2. QED
    BY <1>1, <2>1, AwayPaid
<1>3. CASE run' = [run EXCEPT !.fp.input[e] = w]
  <2>1. e \in Unread
    BY <1>1, MinIsLeast DEF Unread
  <2>2. e \in Boundaries /\ run.fp.input[e] = 0
    BY <1>1, <2>1, JobAssumption DEF Unread, Boundaries
  <2> HIDE DEF e
  <2> DEFINE fp == [run.fp EXCEPT !.input = [run.fp.input EXCEPT ![e] = w]]
  <2>3. run' = [run EXCEPT !.fp = fp]
    BY <1>3
  <2>4. /\ fp.from = run.fp.from /\ fp.chars = run.fp.chars /\ fp.terms = run.fp.terms
        /\ \A i \in Boundaries : fp.input[i] = IF i = e THEN content[novel][e] ELSE run.fp.input[i]
    BY <1>1, <2>2 DEF Prints, Revisions
  <2> HIDE DEF fp
  <2>5. run'.pc = "input" /\ run'.fp = fp /\ SameJob
    BY <1>1, <2>3 DEF RunTypeOK, SameJob
  <2>6. PaidFiles' /\ PayersStand
    BY <1>1, <2>5, FilesPaid, LikeGrown
  <2>7. /\ novel' = novel /\ (Present' <=> Present) /\ JobsOf(novel)' = JobsOf(novel)
    BY <1>1, <2>5, PresentStands DEF SameJob, novel, JobsOf, Exists, jobVars
  <2>8. RunUnpaid' /\ RunDone'
    BY <1>1, <2>5, <2>6, UnpaidStays DEF PaidRun, RunDone
  <2>9. \A i \in Boundaries : Reads(i)' = Reads(i)
    BY <1>1, <2>2, <2>4, <2>5, <2>7 DEF Reads
  <2>10. RunNew'
    <3>1. SUFFICES ASSUME Present PROVE RunNew'
      BY <2>7 DEF RunNew
    <3>2. /\ run.fp.from <= chars[novel].front + 1
          /\ KnownBelow(novel, run.fp, run.fp.from) /\ Stale(novel, run.fp.from)
          /\ run.fp.input[run.fp.from] # 0 => chars[novel].etag[run.fp.from] < run.fp.input[run.fp.from]
          /\ \A i \in Boundaries : i >= run.fp.from => run.fp.terms[i] = 0
      BY <1>1, <3>1 DEF PaidRun, RunNew
    <3>3. run.fp.from \in Boundaries
      BY <1>1, JobAssumption DEF WholeInv, RunStarted, Boundaries
    <3>4. fp.input[run.fp.from] # 0 => chars[novel].etag[run.fp.from] < fp.input[run.fp.from]
      BY <2>4, <3>2, <3>3 DEF Stale
    <3>5. KnownBelow(novel, run.fp, run.fp.from)' /\ Stale(novel, run.fp.from)'
      BY <1>1, <2>4, <2>5, <2>7, <3>2 DEF KnownBelow, Stale
    <3>6. run'.pc \notin Merging
      BY <2>5 DEF Merging
    <3>7. QED
      BY <1>1, <2>4, <2>5, <2>7, <3>2, <3>4, <3>5, <3>6 DEF RunNew
  <2>11. RunPays'
    <3>1. SUFFICES ASSUME Present, NEW j \in JobsOf(novel), NEW p \in paid[j]
                   PROVE  /\ Pending(novel, p[1])' => run.fp.from <= p[1].from
                          /\ \A i \in Boundaries : p[1].input[i] <= Reads(i)'
                          /\ jobs[j].upTo = run.upTo /\ Pending(novel, p[1])' =>
                               \/ run.fp.from < p[1].from
                               \/ \E i \in Boundaries : p[1].input[i] # 0 /\ p[1].input[i] < Reads(i)'
                               \/ InCheckpoint(novel, run.upTo, p[1], p[2])'
      BY <1>1, <2>4, <2>5, <2>7 DEF RunPays, Merging, SameJob, jobVars
    <3>2. /\ Pending(novel, p[1])' <=> Pending(novel, p[1])
          /\ InCheckpoint(novel, run.upTo, p[1], p[2])' <=> InCheckpoint(novel, run.upTo, p[1], p[2])
      BY <1>1, <2>5, <2>7 DEF Pending, KnownBelow, InCheckpoint, SameJob
    <3>3. /\ Pending(novel, p[1]) => run.fp.from <= p[1].from
          /\ \A i \in Boundaries : p[1].input[i] <= Reads(i)
          /\ jobs[j].upTo = run.upTo /\ Pending(novel, p[1]) =>
               \/ run.fp.from < p[1].from
               \/ \E i \in Boundaries : p[1].input[i] # 0 /\ p[1].input[i] < Reads(i)
               \/ InCheckpoint(novel, run.upTo, p[1], p[2])
      BY <1>1, <3>1 DEF PaidRun, RunPays
    <3>4. QED
      BY <2>9, <3>1, <3>2, <3>3
  <2>12. QED
    BY <2>6, <2>8, <2>10, <2>11 DEF PaidRun
<1>4. QED
  BY <1>2, <1>3 DEF LoadInput

\* A checkpoint of another print holds nothing that is paid for and may come again.
LEMMA LoadCheckpointPaid ==
  ASSUME ExInv, RunInv', WholeInv, PaidTypeOK, PaidFiles, PaidRun, JobsStand, LoadCheckpoint
  PROVE  PaidFiles' /\ PaidRun'
<1> USE DEF ExInv, At
<1> DEFINE cp == checkpoint[novel][run.upTo]
           fp == Reseeded
<1>1. /\ run.pc = "input" /\ run.pc \in WithJob /\ run.pc \in Seeded /\ Unread = {}
      /\ UNCHANGED <<content, chars, terms, paid>> /\ UNCHANGED jobVars
      /\ RunTypeOK /\ run.fp \in Prints /\ novel \in Novels /\ run.upTo \in Boundaries
  BY DEF LoadCheckpoint, WithJob, Generating, Seeded, RunInv, RunTypeOK, RunSited, novel
<1>2. cp.fit /\ cp.res \in Revisions /\ cp.fp \in Prints
  BY <1>1 DEF PaidFiles, SameBuild, RunInv, FilesTypeOK
<1>3. /\ fp.from = run.fp.from /\ fp.input = run.fp.input
      /\ Present => fp = run.fp
  BY <1>1 DEF Reseeded, Prints, WholeInv, RunStarted
<1> HIDE DEF fp
<1>4. ASSUME Present, NEW j \in JobsOf(novel), jobs[j].upTo = run.upTo, NEW p \in paid[j],
             Pending(novel, p[1]), ~Passed(novel, p[1])
      PROVE  p[1] = fp /\ cp.fp = fp /\ cp.res[p[2]] # 0
  <2>1. p[1] = run.fp
    BY <1>1, <1>4, OnlyThisPrint
  <2>2. InCheckpoint(novel, run.upTo, p[1], p[2])
    BY <1>1, <1>4 DEF PaidFiles, PaidFits
  <2>3. QED
    BY <1>3, <1>4, <2>1, <2>2 DEF InCheckpoint
<1>5. PayersStand /\ Grown
  BY <1>1, PayersStay, LikeGrown
<1>6. CASE /\ ~(cp.fit /\ Fingerprint(cp.fp) = Fingerprint(fp))
           /\ checkpoint' = [checkpoint EXCEPT ![novel][run.upTo] = NoCheckpoint]
           /\ Error("incompatible")
  <2>1. run'.pc = "error" /\ SameJob
    BY <1>1, <1>6, Erred DEF SameWork
  <2>2. \A n \in Novels, u \in Boundaries :
          checkpoint'[n][u] = IF n = novel /\ u = run.upTo THEN NoCheckpoint ELSE checkpoint[n][u]
    BY <1>1, <1>6 DEF RunInv, FilesTypeOK
  <2>3. SameBuild'
    BY <2>1, <2>2 DEF PaidFiles, SameBuild, NoCheckpoint
  <2>4. ASSUME NEW n \in Novels, NEW j \in JobsOf(n), NEW p \in paid[j], NEW u \in Boundaries,
               u = jobs[j].upTo, Kept(n, u, p)
        PROVE  InCheckpoint(n, u, p[1], p[2])'
    <3>1. ~(n = novel /\ u = run.upTo)
      <4>1. SUFFICES ASSUME n = novel, u = run.upTo PROVE FALSE
        OBVIOUS
      <4>2. Present
        BY <1>1, <2>4, <4>1 DEF PaidRun, RunUnpaid
      <4>3. cp.fp = fp
        BY <1>4, <2>4, <4>1, <4>2 DEF Kept
      <4>4. QED
        BY <1>2, <1>6, <4>3
    <3>2. QED
      BY <2>2, <2>4, <3>1 DEF Kept, InCheckpoint
  <2>5. PaidFits' /\ EtagsEnd'
    BY <1>1, <1>5, <2>4, PaidFilesStay DEF PaidFiles
  <2>6. PaidRun'
    BY <1>1, <1>5, <2>1, PaidLeaves DEF PaidRun, Seeded
  <2>7. QED
    BY <2>3, <2>5, <2>6 DEF PaidFiles
<1>7. CASE run' = [run EXCEPT !.pc = "batch", !.fp = fp, !.res = cp.res] /\ UNCHANGED checkpoint
  <2>1. run'.pc = "batch" /\ run'.fp = fp /\ run'.res = cp.res /\ SameJob
    BY <1>1, <1>7 DEF RunTypeOK, SameJob
  <2>2. PaidFiles'
    BY <1>1, <1>5, <1>7, <2>1, FilesPaid
  <2>3. novel' = novel /\ (Present' <=> Present) /\ JobsOf(novel)' = JobsOf(novel)
    BY <1>1, <2>1, PresentStands DEF SameJob, novel, JobsOf, Exists, jobVars
  <2>4. RunUnpaid' /\ RunDone'
    BY <1>1, <1>5, <2>1, UnpaidStays DEF PaidRun, RunDone
  <2>5. Unread' = {}
    BY <1>1, <1>3, <2>1 DEF Unread, SameJob
  <2>6. Present => run'.fp = run.fp
    BY <1>3, <2>1
  <2>7. RunNew'
    BY <1>1, <2>1, <2>3, <2>5, <2>6 DEF PaidRun, RunNew, KnownBelow, Stale
  <2>8. RunPays'
    <3>1. SUFFICES ASSUME Present, NEW j \in JobsOf(novel), NEW p \in paid[j]
                   PROVE  /\ Pending(novel, p[1])' => run.fp.from <= p[1].from
                          /\ \A i \in Boundaries : p[1].input[i] <= Reads(i)'
                          /\ jobs[j].upTo = run.upTo /\ p[1] = run.fp => cp.res[p[2]] # 0
      BY <1>1, <2>1, <2>3, <2>6 DEF RunPays, SameJob, jobVars
    <3>2. Pending(novel, p[1])' <=> Pending(novel, p[1])
      BY <1>1, <2>3 DEF Pending, KnownBelow
    <3>3. \A i \in Boundaries : Reads(i)' = Reads(i)
      BY <1>1, <2>3, <2>6, <3>1 DEF Reads
    <3>4. ASSUME jobs[j].upTo = run.upTo, p[1] = run.fp
          PROVE  cp.res[p[2]] # 0
      <4>1. /\ KnownBelow(novel, run.fp, run.fp.from)
            /\ run.fp.input[run.fp.from] # 0 => chars[novel].etag[run.fp.from] < run.fp.input[run.fp.from]
        BY <1>1, <3>1 DEF PaidRun, RunNew
      <4>2. run.fp.input[run.fp.from] # 0
        <5>1. PrintFits(novel, run.upTo, run.fp)
          BY <1>1, <3>1, <3>4 DEF PaidFiles, PaidFits
        <5>2. run.fp.from \in Boundaries /\ run.fp.from \in Nat /\ run.fp.from <= run.upTo
          BY <1>1, <5>1, JobAssumption DEF PrintFits, Boundaries
        <5>3. QED
          BY <5>1, <5>2 DEF PrintFits
      <4>3. Pending(novel, p[1])
        BY <3>4, <4>1, <4>2 DEF Pending
      <4>4. \/ run.fp.from < p[1].from
            \/ \E i \in Boundaries : p[1].input[i] # 0 /\ p[1].input[i] < Reads(i)
            \/ InCheckpoint(novel, run.upTo, p[1], p[2])
        BY <1>1, <3>1, <3>4, <4>3 DEF PaidRun, RunPays
      <4>5. ASSUME NEW i \in Boundaries, p[1].input[i] # 0, p[1].input[i] < Reads(i)
            PROVE  FALSE
        BY <1>1, <3>4, <4>5 DEF Reads, Prints, Revisions
      <4>6. ~(run.fp.from < p[1].from)
        BY <1>1, <3>4 DEF Prints
      <4>7. QED
        BY <4>4, <4>5, <4>6 DEF InCheckpoint
    <3>5. QED
      BY <1>1, <3>1, <3>2, <3>3, <3>4 DEF PaidRun, RunPays
  <2>9. QED
    BY <2>2, <2>4, <2>7, <2>8 DEF PaidRun
<1>8. QED
  BY <1>6, <1>7 DEF LoadCheckpoint, fp

-----------------------------------------------------------------------------
(* The batches                                                              *)

LEMMA BatchPaid ==
  ASSUME ExInv, RunInv', WholeInv, PaidTypeOK, PaidFiles, PaidRun, JobsStand, Send \/ Answer
  PROVE  PaidFiles' /\ PaidRun'
<1> USE DEF ExInv, At
<1>1. /\ run.pc \in {"batch", "answer"} /\ run.pc \in WithJob /\ run.pc \in Seeded /\ run.pc \in Merging
      /\ UNCHANGED <<content, chars, terms, checkpoint, paid>> /\ UNCHANGED jobVars
      /\ RunTypeOK /\ run.fp \in Prints /\ run.upTo \in Boundaries /\ run.fp.from \in Nat \ {0}
      /\ run.res \in Revisions
  BY DEF Send, Answer, stateFiles, WithJob, Generating, Seeded, Merging, RunInv, RunTypeOK, RunSited,
     RunSeeded, Prints
<1>2. PayersStand /\ Grown
  BY <1>1, PayersStay, LikeGrown
<1>3. CASE Error("canceled")
  <2>1. run'.pc = "error" /\ SameJob
    BY <1>1, <1>3, Erred DEF SameWork
  <2>2. QED
    BY <1>1, <2>1, AwayPaid
<1>4. CASE Send /\ Go("answer")
  <2>1. run'.pc = "answer" /\ SameJob /\ run'.fp = run.fp /\ run'.res = run.res
    BY <1>1, <1>4 DEF Go, RunTypeOK, SameJob
  <2>2. PaidFiles'
    BY <1>1, <1>2, <2>1, FilesPaid
  <2>3. {run.pc, run'.pc} \subseteq Merging
    BY <1>1, <2>1 DEF Merging, Seeded
  <2>4. PaidRun'
    BY <1>1, <1>2, <2>1, <2>3, PaidRunStays DEF WholeInv
  <2>5. QED
    BY <2>2, <2>4
<1>5. CASE /\ run.pc = "answer"
           /\ run' = [run EXCEPT !.pc = "SaveCheckpoint", !.res[Min(Remaining)] = run.fp.input[Min(Remaining)]]
  <2> DEFINE e == Min(Remaining)
  <2>1. e \in Remaining
    BY <1>1, <1>5, MinIsLeast DEF RunInv, RunMerges, Remaining
  <2>2. e \in Boundaries /\ run.res[e] = 0
    BY <1>1, <2>1, JobAssumption DEF Remaining, Boundaries
  <2> HIDE DEF e
  <2> DEFINE res == [run.res EXCEPT ![e] = run.fp.input[e]]
  <2>3. run' = [run EXCEPT !.pc = "SaveCheckpoint", !.res = res]
    BY <1>5 DEF e
  <2>4. \A i \in Boundaries : run.res[i] # 0 => res[i] # 0
    BY <1>1, <2>2 DEF Revisions
  <2> HIDE DEF res
  <2>5. run'.pc = "SaveCheckpoint" /\ SameJob /\ run'.fp = run.fp /\ run'.res = res
    BY <1>1, <2>3 DEF RunTypeOK, SameJob
  <2>6. PaidFiles'
    BY <1>1, <1>2, <2>5, FilesPaid
  <2>7. {run.pc, run'.pc} \subseteq Merging
    BY <1>1, <2>5 DEF Merging, Seeded
  <2>8. \A i \in Boundaries : run.res[i] # 0 => run'.res[i] # 0
    BY <2>4, <2>5
  <2>9. PaidRun'
    BY <1>1, <1>2, <2>5, <2>7, <2>8, PaidRunStays DEF WholeInv
  <2>10. QED
    BY <2>6, <2>9
<1>6. QED
  BY <1>3, <1>4, <1>5 DEF Send, Answer

\* The job pays, and what it paid for is in its checkpoint.
LEMMA SaveCheckpointPaid ==
  ASSUME ExInv, RunInv', WholeInv, PaidTypeOK, PaidFiles, PaidRun, JobsStand, SaveCheckpoint
  PROVE  PaidFiles' /\ PaidRun'
<1> USE DEF ExInv, At
<1> DEFINE cp == [fit |-> TRUE, fp |-> run.fp, res |-> run.res]
           new == {<<run.fp, e>> : e \in {i \in Boundaries : run.res[i] # 0}}
<1>1. /\ run.pc = "SaveCheckpoint" /\ run.pc \in WithJob /\ run.pc \in Seeded /\ run.pc \in Merging
      /\ UNCHANGED <<content, chars, terms>> /\ UNCHANGED jobVars
      /\ RunTypeOK /\ run.fp \in Prints /\ novel \in Novels /\ run.upTo \in Boundaries
      /\ run.fp.from \in Nat \ {0} /\ run.fp.from <= run.upTo /\ run.res \in Revisions /\ run.job \in JobIDs
  BY JobAssumption DEF SaveCheckpoint, WithJob, Generating, Seeded, Merging, RunInv, RunTypeOK, RunSited,
     RunSeeded, Prints, novel, WholeInv, RunStarted, JobInv, JobTypeOK, JobIDs
<1>2. run' = [run EXCEPT !.pc = "batch"]
  BY DEF SaveCheckpoint, Go
<1>3. run'.pc = "batch" /\ SameJob /\ run'.fp = run.fp /\ run'.res = run.res
  BY <1>1, <1>2 DEF RunTypeOK, SameJob
<1>4. \A n \in Novels, u \in Boundaries :
        checkpoint'[n][u] = IF n = novel /\ u = run.upTo THEN cp ELSE checkpoint[n][u]
  BY <1>1 DEF SaveCheckpoint, RunInv, FilesTypeOK
<1>5. \A j \in JobIDs : paid'[j] = IF j = run.job THEN paid[j] \cup new ELSE paid[j]
  BY <1>1 DEF SaveCheckpoint, PaidTypeOK
<1>6. /\ novel' = novel /\ (Present' <=> Present) /\ \A n \in Novels : JobsOf(n)' = JobsOf(n)
  BY <1>1, <1>3, PresentStands DEF SameJob, novel, JobsOf, Exists, jobVars
<1>7. \A n \in Novels : \A j \in JobsOf(n) :
        j = run.job => Present /\ n = novel /\ jobs[j].upTo = run.upTo
  BY <1>1 DEF JobsOf, Present, WholeInv, RunAsked, novel
<1>8. Grown
  BY <1>1, LikeGrown
<1>9. ASSUME Present, NEW q \in new
      PROVE  /\ q[1] = run.fp /\ q[2] \in Boundaries /\ run.res[q[2]] # 0
             /\ PrintFits(novel, run.upTo, run.fp)
             /\ Pending(novel, run.fp) /\ Seeds(novel, run.fp)
             /\ run.fp.terms = Below(terms[novel].src, run.fp.from)
  <2>1. q[1] = run.fp /\ q[2] \in Boundaries /\ run.res[q[2]] # 0
    BY <1>9
  <2>2. /\ run.fp.from <= chars[novel].front + 1
        /\ KnownBelow(novel, run.fp, run.fp.from)
        /\ run.fp.input[run.fp.from] # 0 => chars[novel].etag[run.fp.from] < run.fp.input[run.fp.from]
        /\ \A i \in Boundaries : i >= run.fp.from => run.fp.terms[i] = 0
        /\ Unread = {}
    BY <1>1, <1>9 DEF PaidRun, RunNew
  <2>3. /\ run.fp.chars = chars[novel].src
        /\ run.fp.terms = Below(terms[novel].src, run.fp.from)
        /\ \A i \in Boundaries : run.fp.input[i] <= content[novel][i]
    BY <1>1, <1>9 DEF WholeInv, RunStarted
  <2>4. ASSUME NEW i \in Boundaries
        PROVE  run.fp.input[i] # 0 <=> run.fp.from <= i /\ i <= run.upTo
    <3>1. run.fp.input[i] # 0 => i \in run.fp.from .. run.upTo
      BY <1>1 DEF RunInv, RunSeeded
    <3>2. i \in Nat /\ run.upTo \in Nat
      BY <1>1, JobAssumption DEF Boundaries
    <3>3. QED
      BY <1>1, <2>2, <3>1, <3>2 DEF Unread
  <2>5. run.fp.from \in Boundaries /\ run.fp.from \in 1 .. run.upTo
    BY <1>1, JobAssumption DEF Boundaries
  <2>6. PrintFits(novel, run.upTo, run.fp)
    BY <2>2, <2>3, <2>4, <2>5 DEF PrintFits
  <2>7. run.fp.input[run.fp.from] # 0
    BY <1>1, <2>4, <2>5
  <2>8. QED
    BY <2>1, <2>2, <2>3, <2>6, <2>7 DEF Pending, Seeds
<1> HIDE DEF new
<1>10. SameBuild' /\ EtagsEnd'
  BY <1>1, <1>3, <1>4 DEF PaidFiles, SameBuild, EtagsEnd
<1>11. ASSUME NEW n \in Novels, NEW j \in JobsOf(n), NEW p \in paid'[j]
       PROVE  /\ PrintFits(n, jobs[j].upTo, p[1])
              /\ Overtaken(n, p[1]) \/ Pending(n, p[1])
              /\ Pending(n, p[1]) => Seeds(n, p[1])
              /\ Pending(n, p[1]) /\ ~Passed(n, p[1]) =>
                   /\ p[1].terms = Below(terms[n].src, p[1].from)
                   /\ InCheckpoint(n, jobs[j].upTo, p[1], p[2])'
  <2>1. j \in JobIDs /\ jobs[j].upTo \in Boundaries
    BY <1>11 DEF JobsOf, Exists, JobInv, JobTypeOK, Job, NoJob
  <2>2. CASE p \in paid[j]
    <3>1. /\ PrintFits(n, jobs[j].upTo, p[1])
          /\ Overtaken(n, p[1]) \/ Pending(n, p[1])
          /\ Pending(n, p[1]) => Seeds(n, p[1])
          /\ Pending(n, p[1]) /\ ~Passed(n, p[1]) =>
               /\ p[1].terms = Below(terms[n].src, p[1].from)
               /\ InCheckpoint(n, jobs[j].upTo, p[1], p[2])
      BY <1>11, <2>2 DEF PaidFiles, PaidFits
    <3>2. ASSUME Pending(n, p[1]), ~Passed(n, p[1])
          PROVE  InCheckpoint(n, jobs[j].upTo, p[1], p[2])'
      <4>1. CASE n = novel /\ jobs[j].upTo = run.upTo
        <5>1. Present
          BY <1>1, <1>11, <2>2, <4>1 DEF PaidRun, RunUnpaid
        <5>2. Unread = {}
          BY <1>1, <5>1 DEF PaidRun, RunNew
        <5>3. p[1] = run.fp
          BY <1>1, <1>11, <2>2, <3>2, <4>1, <5>1, <5>2, OnlyThisPrint
        <5>4. run.res[p[2]] # 0
          BY <1>1, <1>11, <2>2, <4>1, <5>1, <5>3 DEF PaidRun, RunPays
        <5>5. QED
          BY <1>1, <1>4, <4>1, <5>3, <5>4 DEF InCheckpoint, jobVars
      <4>2. CASE ~(n = novel /\ jobs[j].upTo = run.upTo)
        BY <1>1, <1>4, <2>1, <3>1, <3>2, <4>2 DEF InCheckpoint, jobVars
      <4>3. QED
        BY <4>1, <4>2
    <3>3. QED
      BY <3>1, <3>2
  <2>3. CASE p \notin paid[j]
    <3>1. p \in new /\ j = run.job /\ Present /\ n = novel /\ jobs[j].upTo = run.upTo
      BY <1>5, <1>7, <1>11, <2>1, <2>3
    <3>2. InCheckpoint(n, jobs[j].upTo, p[1], p[2])'
      BY <1>1, <1>4, <1>9, <3>1 DEF InCheckpoint, jobVars
    <3>3. QED
      BY <1>9, <3>1, <3>2
  <2>4. QED
    BY <2>2, <2>3
<1>12. PaidFits'
  <2>1. SUFFICES ASSUME NEW n \in Novels, NEW j \in JobsOf(n), NEW p \in paid'[j]
                 PROVE  /\ PrintFits(n, jobs[j].upTo, p[1])'
                        /\ Overtaken(n, p[1])' \/ Pending(n, p[1])'
                        /\ Pending(n, p[1])' => Seeds(n, p[1])'
                        /\ Pending(n, p[1])' /\ ~Passed(n, p[1])' =>
                             /\ p[1].terms = Below(terms[n].src, p[1].from)'
                             /\ InCheckpoint(n, jobs[j].upTo, p[1], p[2])'
    BY <1>6 DEF PaidFits
  <2>2. /\ PrintFits(n, jobs[j].upTo, p[1])' <=> PrintFits(n, jobs[j].upTo, p[1])
        /\ Overtaken(n, p[1])' <=> Overtaken(n, p[1])
        /\ Pending(n, p[1])' <=> Pending(n, p[1])
        /\ Seeds(n, p[1])' <=> Seeds(n, p[1])
        /\ Passed(n, p[1])' <=> Passed(n, p[1])
        /\ Below(terms[n].src, p[1].from)' = Below(terms[n].src, p[1].from)
    BY <1>1 DEF PrintFits, Overtaken, Pending, Seeds, KnownBelow, Passed, Stale, Below, jobVars
  <2>3. QED
    BY <1>11, <2>1, <2>2
<1>13. RunNew'
  BY <1>1, <1>3, <1>6 DEF PaidRun, RunNew, KnownBelow, Stale, Unread, SameJob
<1>14. RunPays'
  <2>1. SUFFICES ASSUME Present, NEW j \in JobsOf(novel), NEW p \in paid'[j]
                 PROVE  /\ Pending(novel, p[1]) => run.fp.from <= p[1].from
                        /\ \A i \in Boundaries : p[1].input[i] <= Reads(i)
                        /\ jobs[j].upTo = run.upTo /\ p[1] = run.fp => run.res[p[2]] # 0
    <3>1. \A p \in UNION {paid'[j] : j \in JobsOf(novel)} : Pending(novel, p[1])' <=> Pending(novel, p[1])
      BY <1>1, <1>6 DEF Pending, KnownBelow
    <3>2. \A i \in Boundaries : Reads(i)' = Reads(i)
      BY <1>1, <1>3, <1>6 DEF Reads
    <3>3. QED
      BY <1>1, <1>3, <1>6, <3>1, <3>2 DEF RunPays, SameJob, jobVars
  <2>2. CASE p \in paid[j]
    BY <1>1, <2>1, <2>2 DEF PaidRun, RunPays
  <2>3. CASE p \notin paid[j]
    <3>1. p \in new
      BY <1>5, <2>1, <2>3 DEF JobsOf
    <3>2. p[1] = run.fp /\ run.res[p[2]] # 0 /\ PrintFits(novel, run.upTo, run.fp)
      BY <1>9, <2>1, <3>1
    <3>3. ASSUME NEW i \in Boundaries PROVE run.fp.input[i] <= Reads(i)
      <4>1. run.fp.input[i] \in Nat /\ content[novel][i] \in Nat
        BY <1>1 DEF Prints, Revisions, RunInv, FilesTypeOK
      <4>2. QED
        BY <3>2, <4>1 DEF PrintFits, Reads
    <3>4. QED
      BY <1>1, <3>2, <3>3
  <2>4. QED
    BY <2>2, <2>3
<1>15. RunUnpaid'
  <2>1. SUFFICES ASSUME ~Present, NEW j \in JobsOf(novel)
                 PROVE  paid'[j] = {}
    BY <1>1, <1>6 DEF RunUnpaid
  <2>2. j # run.job /\ paid[j] = {}
    BY <1>1, <1>7, <2>1 DEF PaidRun, RunUnpaid
  <2>3. QED
    BY <1>5, <2>2 DEF JobsOf
<1>16. RunDone'
  BY <1>3 DEF RunDone
<1>17. QED
  BY <1>10, <1>12, <1>13, <1>14, <1>15, <1>16 DEF PaidFiles, PaidRun

-----------------------------------------------------------------------------
(* The saves, and the clear                                                 *)

\* The terms come to say the same below the first episode of the print.
LEMMA SaveTermsPaid ==
  ASSUME ExInv, RunInv', WholeInv, PaidTypeOK, PaidFiles, PaidRun, JobsStand, SaveGeneratedTerms
  PROVE  PaidFiles' /\ PaidRun'
<1> USE DEF ExInv, At
<1>1. /\ run.pc = "batch" /\ run.pc \in WithJob /\ run.pc \in Seeded /\ run.pc \in Merging
      /\ UNCHANGED <<content, chars, checkpoint, paid>> /\ UNCHANGED jobVars
      /\ RunTypeOK /\ run.fp \in Prints /\ novel \in Novels /\ run.upTo \in Boundaries
      /\ run.fp.from \in Nat \ {0} /\ run.fp.from <= run.upTo
  BY DEF SaveGeneratedTerms, WithJob, Generating, Seeded, Merging, RunInv, RunTypeOK, RunSited,
     RunSeeded, Prints, novel, WholeInv, RunStarted
<1>2. run' = [run EXCEPT !.pc = "events"] /\ terms' = [terms EXCEPT ![novel] = MergedTerms]
  BY DEF SaveGeneratedTerms, Go, MergedTerms
<1>3. run'.pc = "events" /\ SameJob /\ run'.fp = run.fp /\ run'.res = run.res
  BY <1>1, <1>2 DEF RunTypeOK, SameJob
<1>4. terms'[novel] = MergedTerms /\ \A n \in Novels : n # novel => terms'[n] = terms[n]
  BY <1>1, <1>2 DEF RunInv, FilesTypeOK
<1>5. PayersStand /\ Grown /\ \A n \in Novels : JobsOf(n)' = JobsOf(n)
  BY <1>1, PayersStay, LikeGrown DEF JobsOf, Exists, jobVars
<1>6. ASSUME Present, NEW p, p \in Prints, Pending(novel, p), ~Passed(novel, p),
             run.fp.from <= p.from, p.terms = Below(terms[novel].src, p.from)
      PROVE  p.terms = Below(terms'[novel].src, p.from)
  <2>1. Stale(novel, run.fp.from) /\ run.fp.from \in Boundaries
    BY <1>1, <1>6, JobAssumption DEF PaidRun, RunNew, Boundaries
  <2>2. p.from = run.fp.from
    <3>1. ~(run.fp.from < p.from)
      BY <1>6, <2>1 DEF Passed
    <3>2. QED
      BY <1>1, <1>6, <3>1 DEF Prints
  <2>3. run.fp.terms = Below(terms[novel].src, run.fp.from)
    BY <1>1, <1>6 DEF WholeInv, RunStarted
  <2>4. terms'[novel].src = Merged(run.fp.terms)
    BY <1>4 DEF MergedTerms
  <2>5. ASSUME NEW i \in Boundaries, i < run.fp.from
        PROVE  terms'[novel].src[i] = terms[novel].src[i]
    BY <2>3, <2>4, <2>5 DEF Merged, Below
  <2>6. Below(terms'[novel].src, run.fp.from) = Below(terms[novel].src, run.fp.from)
    BY <2>5 DEF Below
  <2>7. QED
    BY <1>6, <2>2, <2>6
<1>7. ASSUME NEW n \in Novels, NEW j \in JobsOf(n), NEW p \in paid[j],
             Pending(n, p[1]), ~Passed(n, p[1])
      PROVE  p[1].terms = Below(terms'[n].src, p[1].from)
  <2>1. p[1].terms = Below(terms[n].src, p[1].from) /\ p[1] \in Prints
    BY <1>7, PaidTyped DEF PaidFiles, PaidFits, JobsOf
  <2>2. CASE n = novel
    <3>1. Present
      BY <1>1, <1>7, <2>2 DEF PaidRun, RunUnpaid
    <3>2. run.fp.from <= p[1].from
      BY <1>1, <1>7, <2>2, <3>1 DEF PaidRun, RunPays
    <3>3. QED
      BY <1>6, <1>7, <2>1, <2>2, <3>1, <3>2
  <2>3. CASE n # novel
    BY <1>4, <2>1, <2>3
  <2>4. QED
    BY <2>2, <2>3
<1>8. PaidFits'
  <2>1. SUFFICES ASSUME NEW n \in Novels, NEW j \in JobsOf(n), NEW p \in paid[j]
                 PROVE  /\ PrintFits(n, jobs[j].upTo, p[1])'
                        /\ Overtaken(n, p[1])' \/ Pending(n, p[1])'
                        /\ Pending(n, p[1])' => Seeds(n, p[1])'
                        /\ Pending(n, p[1])' /\ ~Passed(n, p[1])' =>
                             /\ p[1].terms = Below(terms'[n].src, p[1].from)
                             /\ InCheckpoint(n, jobs[j].upTo, p[1], p[2])'
    BY <1>1, <1>5 DEF PaidFits, Below
  <2>2. /\ PrintFits(n, jobs[j].upTo, p[1])' <=> PrintFits(n, jobs[j].upTo, p[1])
        /\ Overtaken(n, p[1])' <=> Overtaken(n, p[1])
        /\ Pending(n, p[1])' <=> Pending(n, p[1])
        /\ Seeds(n, p[1])' <=> Seeds(n, p[1])
        /\ Passed(n, p[1])' <=> Passed(n, p[1])
        /\ InCheckpoint(n, jobs[j].upTo, p[1], p[2])' <=> InCheckpoint(n, jobs[j].upTo, p[1], p[2])
    BY <1>1 DEF PrintFits, Overtaken, Pending, Seeds, KnownBelow, Passed, Stale, InCheckpoint, jobVars
  <2>3. QED
    BY <1>7, <2>1, <2>2 DEF PaidFiles, PaidFits
<1>9. SameBuild' /\ EtagsEnd'
  BY <1>1, <1>3 DEF PaidFiles, SameBuild, EtagsEnd
<1>10. PaidRun'
  <2>1. {run.pc, run'.pc} \subseteq Merging
    BY <1>1, <1>3 DEF Merging, Seeded
  <2>2. QED
    BY <1>1, <1>3, <1>5, <2>1, PaidRunStays DEF WholeInv
<1>11. QED
  BY <1>8, <1>9, <1>10 DEF PaidFiles

\* The files overtake everything that was paid for up to here.
LEMMA SaveEventsPaid ==
  ASSUME ExInv, RunInv', WholeInv, PaidTypeOK, PaidFiles, PaidRun, JobsStand, SaveEvents
  PROVE  PaidFiles' /\ PaidRun'
<1> USE DEF ExInv, At
<1> DEFINE c == [front |-> run.upTo, src |-> Merged(run.fp.chars),
                 etag |-> [e \in Boundaries |->
                   IF e < run.fp.from THEN chars[novel].etag[e] ELSE run.fp.input[e]]]
<1>1. /\ run.pc = "events" /\ run.pc \in WithJob /\ run.pc \in Seeded /\ run.pc \in Merging
      /\ UNCHANGED <<content, terms, checkpoint, paid>> /\ UNCHANGED jobVars
      /\ run' = [run EXCEPT !.pc = "profile"] /\ chars' = [chars EXCEPT ![novel] = c]
  BY DEF SaveEvents, Go, WithJob, Generating, Seeded, Merging
<1>2. /\ RunTypeOK /\ run.fp \in Prints /\ novel \in Novels /\ run.upTo \in Boundaries
      /\ run.fp.from \in Nat \ {0} /\ run.fp.from <= run.upTo
      /\ \A e \in Boundaries : run.fp.input[e] # 0 => e \in run.fp.from .. run.upTo
  BY <1>1 DEF RunInv, RunTypeOK, RunSited, RunSeeded, Prints, novel, WholeInv, RunStarted
<1>3. run.fp.from \in Boundaries /\ Boundaries \subseteq Nat
  BY <1>2, JobAssumption DEF Boundaries
<1>4. run'.pc = "profile" /\ SameJob /\ novel' = novel
  BY <1>1, <1>2 DEF RunTypeOK, SameJob, novel
<1>5. chars'[novel] = c /\ \A n \in Novels : n # novel => chars'[n] = chars[n]
  BY <1>1, <1>2 DEF RunInv, FilesTypeOK
<1>6. /\ c.front = run.upTo
      /\ \A e \in Boundaries : c.etag[e] = IF e < run.fp.from THEN chars[novel].etag[e] ELSE run.fp.input[e]
  OBVIOUS
<1> HIDE DEF c
<1>7. /\ PayersStand /\ Grown /\ (Present' <=> Present)
      /\ \A n \in Novels : JobsOf(n)' = JobsOf(n)
  BY <1>1, <1>4, PayersStay, LikeGrown, PresentStands DEF JobsOf, Exists, jobVars
<1>8. SameBuild'
  BY <1>1, <1>4 DEF PaidFiles, SameBuild
<1>9. EtagsEnd'
  <2>1. SUFFICES ASSUME NEW n \in Novels, NEW e \in Boundaries, e > chars'[n].front
                 PROVE  chars'[n].etag[e] = 0
    BY DEF EtagsEnd
  <2>2. CASE n = novel
    <3>1. e > run.upTo /\ run.upTo \in Nat /\ e \in Nat
      BY <1>2, <1>3, <1>5, <1>6, <2>1, <2>2
    <3>2. ~(e < run.fp.from) /\ e \notin run.fp.from .. run.upTo
      BY <1>2, <3>1
    <3>3. QED
      BY <1>2, <1>5, <1>6, <2>2, <3>2
  <2>3. CASE n # novel
    BY <1>5, <2>1, <2>3 DEF PaidFiles, EtagsEnd
  <2>4. QED
    BY <2>2, <2>3
<1>10. ASSUME Present, NEW j \in JobsOf(novel), NEW p \in paid[j]
       PROVE  Overtaken(novel, p[1])'
  <2> DEFINE f == run.fp.from
             q == p[1]
  <2>1. /\ q \in Prints /\ q.from \in Nat
    BY <1>10, PaidTyped DEF JobsOf, Prints
  <2>2. /\ Overtaken(novel, q) \/ Pending(novel, q)
        /\ Pending(novel, q) => f <= q.from
        /\ \A i \in Boundaries : q.input[i] <= Reads(i)
    BY <1>1, <1>2, <1>10 DEF PaidFiles, PaidFits, PaidRun, RunPays
  <2>3. ASSUME NEW e \in Boundaries
        PROVE  /\ chars[novel].etag[e] \in Nat /\ chars'[novel].etag[e] \in Nat /\ e \in Nat
               /\ q.chars[e] \in Nat /\ q.input[e] \in Nat /\ run.fp.input[e] \in Nat
    BY <1>2, <1>3, <2>1 DEF RunInv, FilesTypeOK, Revisions, Prints
  <2>4. \A e \in Boundaries : e < f => chars'[novel].etag[e] = chars[novel].etag[e]
    BY <1>5, <1>6
  <2>5. /\ chars'[novel].etag[f] = run.fp.input[f] /\ chars[novel].etag[f] < run.fp.input[f]
        /\ q.input[f] <= run.fp.input[f]
    <3>1. run.fp.input[f] # 0
      BY <1>1, <1>2, <1>10 DEF PaidRun, RunNew, Unread
    <3>2. chars[novel].etag[f] < run.fp.input[f]
      BY <1>1, <1>10, <3>1 DEF PaidRun, RunNew
    <3>3. q.input[f] <= run.fp.input[f]
      BY <1>3, <2>2, <3>1 DEF Reads
    <3>4. QED
      BY <1>2, <1>3, <1>5, <1>6, <3>2, <3>3
  <2> HIDE DEF f, q
  <2>6. f \in Boundaries /\ f \in Nat /\ novel \in Novels
    BY <1>2, <1>3 DEF f
  <2>7. SUFFICES \E i \in Boundaries :
                   /\ i <= q.from /\ \A k \in Boundaries : k < i => chars'[novel].etag[k] = q.chars[k]
                   /\ i < q.from => chars'[novel].etag[i] > q.chars[i]
                   /\ i = q.from => chars'[novel].etag[i] >= q.input[i]
    BY <1>4 DEF Overtaken, KnownBelow, q
  <2>8. ASSUME NEW i \in Boundaries, KnownBelow(novel, q, i), f < i, i <= q.from
        PROVE  /\ f <= q.from /\ \A k \in Boundaries : k < f => chars'[novel].etag[k] = q.chars[k]
               /\ f < q.from => chars'[novel].etag[f] > q.chars[f]
               /\ f = q.from => chars'[novel].etag[f] >= q.input[f]
    <3>1. i \in Nat /\ f < q.from
      BY <2>1, <2>3, <2>6, <2>8
    <3>2. chars[novel].etag[f] = q.chars[f]
      BY <2>6, <2>8 DEF KnownBelow
    <3>3. chars'[novel].etag[f] > q.chars[f]
      BY <2>3, <2>5, <2>6, <3>2
    <3>4. ASSUME NEW k \in Boundaries, k < f PROVE chars'[novel].etag[k] = q.chars[k]
      BY <2>3, <2>4, <2>6, <2>8, <3>1, <3>4 DEF KnownBelow
    <3>5. f <= q.from /\ f # q.from
      BY <2>1, <2>6, <3>1
    <3>6. QED
      BY <3>3, <3>4, <3>5
  <2>9. CASE Overtaken(novel, q)
    <3>1. PICK i \in Boundaries :
            /\ i <= q.from /\ KnownBelow(novel, q, i)
            /\ i < q.from => chars[novel].etag[i] > q.chars[i]
            /\ i = q.from => chars[novel].etag[i] >= q.input[i]
      BY <2>9 DEF Overtaken
    <3>2. CASE f < i
      BY <2>6, <2>8, <3>1, <3>2
    <3>3. CASE ~(f < i)
      <4>1. chars'[novel].etag[i] >= chars[novel].etag[i]
        <5>1. i < f \/ i = f
          BY <2>3, <2>6, <3>3
        <5>2. QED
          BY <2>3, <2>4, <2>5, <5>1
      <4>2. ASSUME NEW k \in Boundaries, k < i PROVE chars'[novel].etag[k] = q.chars[k]
        <5>1. k < f
          <6>1. i \in Nat /\ k \in Nat
            BY <2>3
          <6>2. QED
            BY <2>6, <3>3, <4>2, <6>1
        <5>2. QED
          BY <2>4, <3>1, <4>2, <5>1 DEF KnownBelow
      <4>3. /\ i < q.from => chars'[novel].etag[i] > q.chars[i]
            /\ i = q.from => chars'[novel].etag[i] >= q.input[i]
        BY <2>3, <3>1, <4>1
      <4>4. QED
        BY <3>1, <4>2, <4>3
    <3>4. QED
      BY <3>2, <3>3
  <2>10. CASE Pending(novel, q)
    <3>1. f <= q.from /\ KnownBelow(novel, q, q.from)
      BY <2>2, <2>10 DEF Pending, f, q
    <3>2. CASE f < q.from
      <4>1. q.from \in Boundaries
        <5>1. PrintFits(novel, jobs[j].upTo, q) /\ jobs[j].upTo \in Boundaries
          BY <1>2, <1>10 DEF PaidFiles, PaidFits, q, JobsOf, Exists, JobInv, JobTypeOK, Job, NoJob
        <5>2. QED
          BY <2>1, <5>1, JobAssumption DEF PrintFits, Boundaries
      <4>2. QED
        BY <2>1, <2>6, <2>8, <3>1, <3>2, <4>1
    <3>3. CASE ~(f < q.from)
      <4>1. q.from = f
        BY <2>1, <2>6, <3>1, <3>3
      <4>2. \A k \in Boundaries : k < f => chars'[novel].etag[k] = q.chars[k]
        BY <2>4, <3>1, <4>1 DEF KnownBelow
      <4>3. chars'[novel].etag[f] >= q.input[f]
        BY <2>3, <2>5, <2>6, <4>1 DEF q
      <4>4. f <= q.from /\ ~(f < q.from)
        BY <2>6, <4>1
      <4>5. QED
        BY <2>6, <4>2, <4>3, <4>4
    <3>4. QED
      BY <3>2, <3>3
  <2>11. QED
    BY <2>2, <2>9, <2>10 DEF q
<1>11. ASSUME NEW j \in JobsOf(novel), NEW p \in paid[j]
       PROVE  Overtaken(novel, p[1])' /\ ~Pending(novel, p[1])'
  <2>1. Overtaken(novel, p[1])'
    BY <1>1, <1>10, <1>11 DEF PaidRun, RunUnpaid
  <2>2. p[1] \in Prints
    BY <1>11, PaidTyped DEF JobsOf
  <2>3. QED
    <3>1. PICK i \in Boundaries :
            /\ i <= p[1].from
            /\ i < p[1].from => chars'[novel].etag[i] > p[1].chars[i]
            /\ i = p[1].from => chars'[novel].etag[i] >= p[1].input[i]
      BY <1>4, <2>1 DEF Overtaken
    <3>2. /\ p[1].from \in Nat /\ chars'[novel].etag[i] \in Nat
          /\ p[1].chars[i] \in Nat /\ p[1].input[i] \in Nat /\ i \in Nat
      BY <1>2, <1>3, <2>2 DEF RunInv, FilesTypeOK, Prints, Revisions
    <3>3. CASE i < p[1].from
      <4>1. chars'[novel].etag[i] # p[1].chars[i]
        BY <3>1, <3>2, <3>3
      <4>2. QED
        BY <1>4, <2>1, <3>3, <4>1 DEF Pending, KnownBelow
    <3>4. CASE i = p[1].from
      <4>1. ~(chars'[novel].etag[p[1].from] < p[1].input[p[1].from])
        BY <3>1, <3>2, <3>4
      <4>2. QED
        BY <1>4, <2>1, <4>1 DEF Pending
    <3>5. QED
      BY <3>1, <3>2, <3>3, <3>4
<1>12. PaidFits'
  <2>1. SUFFICES ASSUME NEW n \in Novels, NEW j \in JobsOf(n), NEW p \in paid[j]
                 PROVE  /\ PrintFits(n, jobs[j].upTo, p[1])'
                        /\ Overtaken(n, p[1])' \/ Pending(n, p[1])'
                        /\ Pending(n, p[1])' => Seeds(n, p[1])'
                        /\ Pending(n, p[1])' /\ ~Passed(n, p[1])' =>
                             /\ p[1].terms = Below(terms[n].src, p[1].from)'
                             /\ InCheckpoint(n, jobs[j].upTo, p[1], p[2])'
    BY <1>1, <1>7 DEF PaidFits
  <2>2. /\ PrintFits(n, jobs[j].upTo, p[1])
        /\ PrintFits(n, jobs[j].upTo, p[1])' <=> PrintFits(n, jobs[j].upTo, p[1])
    BY <1>1, <2>1 DEF PaidFiles, PaidFits, PrintFits, jobVars
  <2>3. CASE n = novel
    <3>1. Overtaken(n, p[1])' /\ ~Pending(n, p[1])'
      BY <1>4, <1>11, <2>1, <2>3 DEF Overtaken, Pending, KnownBelow
    <3>2. QED
      BY <2>2, <3>1
  <2>4. CASE n # novel
    <3>1. /\ Overtaken(n, p[1])' <=> Overtaken(n, p[1])
          /\ Pending(n, p[1])' <=> Pending(n, p[1])
          /\ Seeds(n, p[1])' <=> Seeds(n, p[1])
          /\ Passed(n, p[1])' <=> Passed(n, p[1])
          /\ Below(terms[n].src, p[1].from)' = Below(terms[n].src, p[1].from)
          /\ InCheckpoint(n, jobs[j].upTo, p[1], p[2])' <=> InCheckpoint(n, jobs[j].upTo, p[1], p[2])
      BY <1>1, <1>5, <2>4 DEF Overtaken, Pending, Seeds, KnownBelow, Passed, Stale, Below, InCheckpoint, jobVars
    <3>2. QED
      BY <2>1, <2>2, <3>1 DEF PaidFiles, PaidFits
  <2>5. QED
    BY <2>3, <2>4
<1>13. PaidRun'
  <2>1. RunNew' /\ RunPays'
    BY <1>4 DEF RunNew, RunPays, Seeded
  <2>2. RunUnpaid'
    BY <1>1, <1>4, <1>7, UnpaidStays DEF PaidRun
  <2>3. RunDone'
    <3>1. \A j \in JobsOf(novel) : \A p \in paid[j] : ~Pending(novel, p[1])'
      BY <1>11
    <3>2. JobsOf(novel)' = JobsOf(novel)
      BY <1>1, <1>4 DEF JobsOf, Exists, jobVars
    <3>3. QED
      BY <1>1, <3>1, <3>2 DEF RunDone
  <2>4. QED
    BY <2>1, <2>2, <2>3 DEF PaidRun
<1>14. QED
  BY <1>8, <1>9, <1>12, <1>13 DEF PaidFiles

LEMMA SaveProfilePaid ==
  ASSUME ExInv, RunInv', WholeInv, PaidTypeOK, PaidFiles, PaidRun, JobsStand, SaveProfile
  PROVE  PaidFiles' /\ PaidRun'
<1> USE DEF ExInv, At
<1>1. /\ run.pc = "profile" /\ run' = [run EXCEPT !.pc = "delete"]
      /\ UNCHANGED <<content, chars, terms, checkpoint, paid>>
  BY DEF SaveProfile, Go
<1>2. run'.pc = "delete" /\ SameJob /\ run'.fp = run.fp /\ run'.res = run.res
  BY <1>1 DEF RunInv, RunTypeOK, SameJob
<1>3. Grown
  BY <1>1, LikeGrown
<1>4. PaidFiles' /\ PayersStand
  BY <1>1, <1>2, <1>3, FilesPaid
<1>5. PaidRun'
  BY <1>1, <1>2, <1>3, <1>4, PaidRunStays DEF WholeInv
<1>6. QED
  BY <1>4, <1>5

LEMMA DeleteCheckpointPaid ==
  ASSUME ExInv, RunInv', WholeInv, PaidTypeOK, PaidFiles, PaidRun, JobsStand, DeleteCheckpoint
  PROVE  PaidFiles' /\ PaidRun'
<1> USE DEF ExInv, At
<1>1. /\ run.pc = "delete" /\ run.pc \in WithJob /\ run' = [run EXCEPT !.pc = "complete"]
      /\ UNCHANGED <<content, chars, terms, paid>> /\ UNCHANGED jobVars
      /\ RunTypeOK /\ novel \in Novels /\ run.upTo \in Boundaries
  BY DEF DeleteCheckpoint, Go, WithJob, Generating, RunInv, RunSited, novel
<1>2. run'.pc = "complete" /\ SameJob
  BY <1>1 DEF RunTypeOK, SameJob
<1>3. PayersStand /\ Grown
  BY <1>1, PayersStay, LikeGrown
<1>4. \A n \in Novels, u \in Boundaries :
        checkpoint'[n][u] = checkpoint[n][u] \/ (n = novel /\ u = run.upTo /\ checkpoint'[n][u] = NoCheckpoint)
  BY <1>1 DEF DeleteCheckpoint, RunInv, FilesTypeOK
<1>5. SameBuild'
  BY <1>2, <1>4 DEF PaidFiles, SameBuild, NoCheckpoint
<1>6. ASSUME NEW n \in Novels, NEW j \in JobsOf(n), NEW p \in paid[j], NEW u \in Boundaries,
             u = jobs[j].upTo, Kept(n, u, p)
      PROVE  InCheckpoint(n, u, p[1], p[2])'
  <2>1. n # novel
    BY <1>1, <1>6 DEF Kept, PaidRun, RunDone
  <2>2. QED
    BY <1>4, <1>6, <2>1 DEF Kept, InCheckpoint
<1>7. PaidFits' /\ EtagsEnd'
  BY <1>1, <1>3, <1>6, PaidFilesStay DEF PaidFiles
<1>8. PaidRun'
  BY <1>1, <1>2, <1>3, PaidLeaves DEF PaidRun, Seeded
<1>9. QED
  BY <1>5, <1>7, <1>8 DEF PaidFiles

\* DELETE: who paid for the novel is gone.  What is left of the others is as it was.
LEMMA ClearPaid ==
  ASSUME ExInv, RunInv', WholeInv, PaidTypeOK, PaidFiles, PaidRun, NEW n \in Novels, HandleClear(n)
  PROVE  PaidFiles' /\ PaidRun'
<1> USE DEF ExInv
<1>1. /\ run' = run /\ UNCHANGED <<content, paid>> /\ PruneJobsIfNoActive(n)
      /\ chars' = [chars EXCEPT ![n] = NoChars] /\ terms' = [terms EXCEPT ![n] = NoView]
      /\ checkpoint' = [checkpoint EXCEPT ![n] = [u \in Boundaries |-> NoCheckpoint]]
  BY DEF HandleClear
<1>2. /\ chars'[n] = NoChars /\ checkpoint'[n] = [u \in Boundaries |-> NoCheckpoint]
      /\ \A m \in Novels : m # n =>
           chars'[m] = chars[m] /\ terms'[m] = terms[m] /\ checkpoint'[m] = checkpoint[m]
  BY <1>1 DEF RunInv, FilesTypeOK
<1>3. \A j \in JobIDs : jobs'[j] = IF j \in JobsOf(n) THEN NoJob ELSE jobs[j]
  BY <1>1 DEF PruneJobsIfNoActive
<1>4. JobsOf(n)' = {}
  BY <1>3 DEF JobsOf, Exists, NoJob
<1>5. ASSUME NEW m \in Novels, m # n
      PROVE  /\ JobsOf(m)' = JobsOf(m)
             /\ \A j \in JobsOf(m) : jobs'[j] = jobs[j]
  BY <1>3, <1>5 DEF JobsOf, Exists, NoJob
<1>6. SameBuild'
  BY <1>1, <1>2 DEF PaidFiles, SameBuild, NoCheckpoint
<1>7. EtagsEnd'
  <2>1. SUFFICES ASSUME NEW m \in Novels, NEW e \in Boundaries, e > chars'[m].front
                 PROVE  chars'[m].etag[e] = 0
    BY DEF EtagsEnd
  <2>2. QED
    BY <1>2, <2>1 DEF PaidFiles, EtagsEnd, NoChars, Nothing
<1>8. PaidFits'
  <2>1. SUFFICES ASSUME NEW m \in Novels, m # n, NEW j \in JobsOf(m), NEW p \in paid[j]
                 PROVE  /\ PrintFits(m, jobs[j].upTo, p[1])'
                        /\ Overtaken(m, p[1])' \/ Pending(m, p[1])'
                        /\ Pending(m, p[1])' => Seeds(m, p[1])'
                        /\ Pending(m, p[1])' /\ ~Passed(m, p[1])' =>
                             /\ p[1].terms = Below(terms[m].src, p[1].from)'
                             /\ InCheckpoint(m, jobs[j].upTo, p[1], p[2])'
    BY <1>1, <1>4, <1>5 DEF PaidFits
  <2>2. jobs'[j].upTo = jobs[j].upTo
    BY <1>5, <2>1
  <2>3. /\ PrintFits(m, jobs[j].upTo, p[1])' <=> PrintFits(m, jobs[j].upTo, p[1])
        /\ Overtaken(m, p[1])' <=> Overtaken(m, p[1])
        /\ Pending(m, p[1])' <=> Pending(m, p[1])
        /\ Seeds(m, p[1])' <=> Seeds(m, p[1])
        /\ Passed(m, p[1])' <=> Passed(m, p[1])
        /\ Below(terms[m].src, p[1].from)' = Below(terms[m].src, p[1].from)
        /\ InCheckpoint(m, jobs[j].upTo, p[1], p[2])' <=> InCheckpoint(m, jobs[j].upTo, p[1], p[2])
    BY <1>1, <1>2, <2>1, <2>2 DEF PrintFits, Overtaken, Pending, Seeds, KnownBelow, Passed, Stale, Below,
       InCheckpoint
  <2>4. QED
    BY <2>1, <2>3 DEF PaidFiles, PaidFits
<1>9. novel' = novel /\ (run.pc \in WithJob => novel \in Novels)
  BY <1>1 DEF novel, RunInv, RunSited
<1>10. ASSUME run.pc \in WithJob, Present'
       PROVE  Present /\ novel # n
  <2>1. run.job \in JobIDs
    BY <1>10, JobAssumption DEF RunInv, RunSited, JobInv, JobTypeOK, JobIDs
  <2>2. run.job \notin JobsOf(n) /\ jobs'[run.job] = jobs[run.job]
    BY <1>1, <1>3, <1>10, <2>1 DEF Present, Exists, NoJob
  <2>3. Present
    BY <1>1, <1>10, <2>2 DEF Present, Exists
  <2>4. QED
    BY <1>10, <2>1, <2>2, <2>3 DEF WholeInv, RunAsked, Present, JobsOf, novel
<1>11. ASSUME run.pc \in WithJob, ~Present', novel # n
       PROVE  ~Present
  <2>1. run.job \in JobIDs
    BY <1>11, JobAssumption DEF RunInv, RunSited, JobInv, JobTypeOK, JobIDs
  <2>2. SUFFICES ASSUME Present PROVE FALSE
    OBVIOUS
  <2>3. run.job \notin JobsOf(n)
    BY <1>11, <2>2 DEF WholeInv, RunAsked, JobsOf, novel
  <2>4. QED
    BY <1>1, <1>3, <1>11, <2>1, <2>2, <2>3 DEF Present, Exists
<1>12. RunUnpaid'
  <2>1. SUFFICES ASSUME run.pc \in WithJob, ~Present', NEW j \in JobsOf(novel)'
                 PROVE  paid[j] = {}
    BY <1>1 DEF RunUnpaid
  <2>2. novel # n
    BY <1>4, <1>9, <2>1
  <2>3. j \in JobsOf(novel) /\ ~Present
    BY <1>5, <1>9, <1>11, <2>1, <2>2
  <2>4. QED
    BY <2>1, <2>3 DEF PaidRun, RunUnpaid
<1>13. RunDone'
  <2>1. SUFFICES ASSUME run.pc \in {"profile", "delete"}, NEW j \in JobsOf(novel)', NEW p \in paid[j]
                 PROVE  ~Pending(novel, p[1])'
    BY <1>1 DEF RunDone
  <2>2. novel # n /\ novel \in Novels
    BY <1>4, <1>9, <2>1 DEF WithJob, Generating
  <2>3. j \in JobsOf(novel)
    BY <1>5, <1>9, <2>1, <2>2
  <2>4. QED
    BY <1>2, <1>9, <2>1, <2>2, <2>3 DEF PaidRun, RunDone, Pending, KnownBelow
<1>14. ASSUME run.pc \in Seeded, Present'
       PROVE  RunNew' /\ RunPays'
  <2>1. /\ run.pc \in WithJob /\ Present /\ novel # n /\ novel \in Novels
    BY <1>9, <1>10, <1>14 DEF Seeded, WithJob, Generating
  <2>2. /\ chars'[novel] = chars[novel] /\ checkpoint'[novel] = checkpoint[novel]
    BY <1>2, <2>1
  <2>3. /\ JobsOf(novel)' = JobsOf(novel)
        /\ \A j \in JobsOf(novel) : jobs'[j] = jobs[j]
    <3>1. PICK m \in Novels : m = novel /\ m # n
      BY <2>1
    <3>2. JobsOf(m)' = JobsOf(m) /\ \A j \in JobsOf(m) : jobs'[j] = jobs[j]
      BY <1>5, <3>1
    <3>3. QED
      BY <1>9, <3>1, <3>2 DEF JobsOf, Exists
  <2>4. RunNew'
    BY <1>1, <1>9, <1>14, <2>1, <2>2 DEF PaidRun, RunNew, KnownBelow, Stale, Unread
  <2>5. RunPays'
    <3>1. SUFFICES ASSUME NEW j \in JobsOf(novel), NEW p \in paid[j]
                   PROVE  /\ Pending(novel, p[1]) => run.fp.from <= p[1].from
                          /\ \A i \in Boundaries : p[1].input[i] <= Reads(i)
                          /\ jobs[j].upTo = run.upTo =>
                               /\ run.pc = "input" /\ Pending(novel, p[1]) =>
                                    \/ run.fp.from < p[1].from
                                    \/ \E i \in Boundaries : p[1].input[i] # 0 /\ p[1].input[i] < Reads(i)
                                    \/ InCheckpoint(novel, run.upTo, p[1], p[2])
                               /\ run.pc \in Merging /\ p[1] = run.fp => run.res[p[2]] # 0
      BY <1>1, <1>9, <2>2, <2>3 DEF RunPays, Reads, Pending, KnownBelow, InCheckpoint
    <3>2. QED
      BY <1>14, <2>1, <3>1 DEF PaidRun, RunPays
  <2>6. QED
    BY <2>4, <2>5
<1>15. RunNew' /\ RunPays'
  <2>1. CASE run.pc \in Seeded /\ Present'
    BY <1>14, <2>1
  <2>2. CASE ~(run.pc \in Seeded /\ Present')
    BY <1>1, <2>2 DEF RunNew, RunPays
  <2>3. QED
    BY <2>1, <2>2
<1>16. QED
  BY <1>6, <1>7, <1>8, <1>12, <1>13, <1>15 DEF PaidFiles, PaidRun

-----------------------------------------------------------------------------
LEMMA PaidStep ==
  ASSUME ExInv, WholeInv, PaidInv, [ExtractionNext]_exVars
  PROVE  PaidInv'
<1>1. ExInv' /\ RunInv'
  BY ExtractionStepInv DEF ExInv
<1>2. PaidTypeOK /\ PaidTypeOK'
  BY <1>1, PaidTypeStep DEF PaidInv
<1>3. SUFFICES ASSUME count'["upgrade"] = 0
               PROVE  PaidFiles' /\ PaidRun'
  BY <1>2 DEF PaidInv
<1>4. PaidFiles /\ PaidRun /\ ~Restart(TRUE)
  BY <1>2, <1>3, CountStep DEF PaidInv
<1>5. CASE \E n \in Novels : HandleClear(n)
  BY <1>1, <1>2, <1>4, <1>5, ClearPaid
<1>6. CASE ~ \E n \in Novels : HandleClear(n)
  <2>1. JobsStand
    BY <1>6, OthersStand
  <2>2. CASE \/ \E n \in Novels, e \in Boundaries : Revise(n, e) \/ HandleEnqueue(n, e) \/ HandleRead(n, e)
             \/ \E j \in JobIDs, a \in JobActions : HandleControl(j, a)
             \/ Kick \/ (\E j \in JobIDs : Cancel(j)) \/ Shutdown \/ StartBackground
             \/ \E upgrade \in BOOLEAN : Restart(upgrade)
             \/ UNCHANGED exVars
    <3>1. (\E upgrade \in BOOLEAN : Restart(upgrade)) => Restart(FALSE)
      BY <1>4
    <3>2. QED
      BY <1>1, <1>2, <1>4, <2>1, <2>2, <3>1, BesidePaid
  <2>3. CASE Worker
    BY <1>1, <1>2, <1>4, <2>1, <2>3, AroundPaid, LoadPaid, SeedPaid, LoadInputPaid, LoadCheckpointPaid,
       BatchPaid, SaveCheckpointPaid, SaveTermsPaid, SaveEventsPaid, SaveProfilePaid, DeleteCheckpointPaid
       DEF Worker
  <2>4. CASE Unresolved \/ GenerationError \/ JobFault \/ Exit \/ Crash
    BY <1>1, <1>2, <1>4, <2>1, <2>4, AroundPaid
  <2>5. CASE Recover \/ Quarantine
    BY <1>1, <1>2, <1>4, <2>1, <2>5, RecoverPaid
  <2>6. QED
    BY <1>6, <2>2, <2>3, <2>4, <2>5 DEF ExtractionNext
<1>7. QED
  BY <1>5, <1>6

LEMMA PaidInit == ExtractionInit => PaidInv
<1> SUFFICES ASSUME ExtractionInit PROVE PaidInv
  OBVIOUS
<1>1. PaidTypeOK
  BY DEF ExtractionInit, PaidTypeOK
<1>2. \A n \in Novels : \A j \in JobsOf(n) : paid[j] = {}
  BY DEF ExtractionInit, JobsOf
<1>3. PaidFiles
  <2>1. SameBuild
    BY DEF ExtractionInit, SameBuild, NoCheckpoint, IdleRun
  <2>2. EtagsEnd
    BY DEF ExtractionInit, EtagsEnd, NoChars, Nothing
  <2>3. PaidFits
    BY <1>2 DEF PaidFits
  <2>4. QED
    BY <2>1, <2>2, <2>3 DEF PaidFiles
<1>4. PaidRun
  BY DEF ExtractionInit, IdleRun, PaidRun, RunNew, RunPays, RunUnpaid, RunDone, WithJob, Generating, Seeded
<1>5. QED
  BY <1>1, <1>3, <1>4 DEF PaidInv

LEMMA OnlySendAsks ==
  ASSUME ExInv, [ExtractionNext]_exVars, run.pc = "batch", run'.pc = "answer"
  PROVE  Remaining # {}
<1> USE DEF At, Go
<1>1. RunTypeOK
  BY DEF ExInv, RunInv
<1>2. \A c : run' # run /\ run' # [run EXCEPT !.canceled = c]
  BY <1>1 DEF RunTypeOK
<1>3. \A p, e : p # "answer" => run' # [run EXCEPT !.pc = p] /\ run' # [run EXCEPT !.pc = p, !.err = e]
  BY <1>1 DEF RunTypeOK
<1>4. CASE UNCHANGED exVars
  BY <1>2, <1>4 DEF exVars
<1>5. CASE \/ \E n \in Novels, e \in Boundaries : Revise(n, e) \/ HandleEnqueue(n, e) \/ HandleRead(n, e)
           \/ \E j \in JobIDs, a \in JobActions : HandleControl(j, a)
           \/ \E n \in Novels : HandleClear(n)
           \/ Kick \/ (\E j \in JobIDs : Cancel(j)) \/ Shutdown \/ StartBackground
           \/ \E upgrade \in BOOLEAN : Restart(upgrade)
  BY <1>2, <1>5 DEF Revise, HandleEnqueue, HandleRead, HandleControl, HandleClear, Kick, Cancel, Shutdown,
     StartBackground, Restart
<1>6. CASE Unresolved \/ GenerationError \/ JobFault \/ Exit \/ Crash \/ Recover \/ Quarantine
  <2>1. ~(Unresolved \/ JobFault \/ Recover \/ Quarantine)
    BY DEF Unresolved, JobFault, Recover, Quarantine
  <2>2. ~GenerationError
    BY <1>3 DEF GenerationError, Error
  <2>3. ~(Exit \/ Crash)
    BY DEF Exit, Crash, Stopped, IdleRun
  <2>4. QED
    BY <1>6, <2>1, <2>2, <2>3
<1>7. CASE Worker
  BY <1>3, <1>7 DEF Worker, Begin, Load, Register, Recheck, Start, Failed, Completed, Seed, LoadInput,
     LoadCheckpoint, Send, Answer, SaveCheckpoint, SaveGeneratedTerms, SaveEvents, SaveProfile,
     DeleteCheckpoint, Materialize, Unregister, Finalize
<1>8. QED
  BY <1>4, <1>5, <1>6, <1>7 DEF ExtractionNext

\* As long as the build stays the same, a job that was not cleared never sends
\* again what it had in a checkpoint, whatever became of it, of the texts and
\* of the other jobs of the novel in between (loadCheckpointForGeneration,
\* ReprocessFromEpisode, DeleteCheckpoint).
THEOREM NeverPaysTwice == ExtractionSpec => NeverPaidTwice
<1> DEFINE Free == PaysAgain => count["upgrade"] > 0
<1>1. ExInv /\ WholeInv /\ PaidInv /\ [ExtractionNext]_exVars => [Free]_exVars
  <2>1. SUFFICES ASSUME ExInv, WholeInv, PaidInv, [ExtractionNext]_exVars, PaysAgain
                 PROVE  count["upgrade"] > 0
    OBVIOUS
  <2>2. /\ run.pc = "batch" /\ run.pc \in WithJob /\ run.pc \in Seeded /\ run.pc \in Merging
        /\ Present /\ <<run.fp, Min(Remaining)>> \in paid[run.job]
    BY <2>1 DEF PaysAgain, At, WithJob, Generating, Seeded, Merging, Present
  <2>3. run.job \in JobIDs /\ run.job \in JobsOf(novel) /\ jobs[run.job].upTo = run.upTo
    BY <2>1, <2>2, JobAssumption DEF ExInv, RunInv, RunSited, JobInv, JobTypeOK, JobIDs, JobsOf, Present,
       WholeInv, RunAsked, novel
  <2>4. count["upgrade"] = 0 => run.res[Min(Remaining)] # 0
    BY <2>1, <2>2, <2>3 DEF PaidInv, PaidRun, RunPays
  <2>5. run.res[Min(Remaining)] = 0
    <3>1. Remaining # {} /\ Remaining \in SUBSET Nat
      <4>1. Remaining # {}
        BY <2>1, <2>2, OnlySendAsks DEF PaysAgain
      <4>2. run.fp.from \in Nat /\ run.upTo \in Nat
        BY <2>1 DEF ExInv, RunInv, RunTypeOK, Prints
      <4>3. QED
        BY <4>1, <4>2 DEF Remaining
    <3>2. Min(Remaining) \in Remaining
      BY <3>1, MinIsLeast
    <3>3. QED
      BY <3>2 DEF Remaining
  <2>6. count["upgrade"] \in Nat
    BY <2>1 DEF PaidInv, PaidTypeOK
  <2>7. QED
    BY <2>4, <2>5, <2>6
<1>2. ExInv /\ WholeInv /\ PaidInv /\ [ExtractionNext]_exVars => PaidInv'
  BY PaidStep
<1>3. ExInv /\ WholeInv /\ ProfileTypeOK /\ [ExtractionNext]_exVars => WholeInv' /\ ProfileTypeOK'
  BY WholeStep
<1>4. QED
  BY <1>1, <1>2, <1>3, WholeInit, PaidInit, ExtractionSafe, PTL DEF ExtractionSpec, NeverPaidTwice
=============================================================================
