--------------------------- MODULE ParallelIdentity ---------------------------
(***************************************************************************)
(* The parallel generation strategies of the extraction (application/      *)
(* extractionruntime/parallel_identity.go): runtime batches are sent by    *)
(* goroutines bounded by a semaphore, started one after the other by a     *)
(* limiter and numbered by worker slots. parallel_identity saves each      *)
(* answer in the checkpoint at once and resumes from it; discovery_        *)
(* parallel_correction first looks for names, then extracts, and saves     *)
(* nothing. A round is one run of the job; it may be halted (pause,        *)
(* cancel) or crash, and be run again after the inputs or the provider's   *)
(* limits changed.                                                         *)
(***************************************************************************)
EXTENDS Integers, FiniteSets, Sequences

CONSTANTS
  Prints,       \* the fingerprints of the runtime batches, for each way to plan them
  Concurrency,  \* ExtractionParallelConcurrency
  MaxRounds,    \* bound: runs of the job
  MaxInputs,    \* bound: revisions of the inputs
  MaxSaveFaults \* bound: checkpoint writes that fail

Plans == DOMAIN Prints

ASSUME ParallelAssumption ==
  /\ \A p \in Plans : Len(Prints[p]) \in Nat \ {0}
  /\ \E p \in Plans : \A q \in Plans : Len(Prints[q]) <= Len(Prints[p])
  /\ Concurrency \in Nat \ {0}
  /\ MaxRounds \in Nat /\ MaxInputs \in Nat /\ MaxSaveFaults \in Nat

MaxBatch == CHOOSE n \in {Len(Prints[p]) : p \in Plans} : \A p \in Plans : Len(Prints[p]) <= n
Identity == "parallel_identity"
Discovery == "discovery_parallel_correction"

VARIABLES
  strategy,   \* GenerationStrategy of the job
  inputs,     \* the revision of all that the generation fingerprint covers
  saved,      \* the checkpoint file: the revision it is for, and its batches
  round,      \* the run
  work,       \* [batch -> where its goroutine is, and its worker slot]
  published,  \* what the last finished round handed to the workflow
  saveFaults  \* checkpoint writes that failed

parallel == <<strategy, inputs, saved, round, work, published, saveFaults>>

NoFile == [of |-> 0, items |-> {}]
NotPublished == [of |-> 0, plan |-> "none", items |-> {}]
AtRest == [at |-> "pending", slot |-> 0]

\* held is checkpoint.ParallelBatchResults, the session's copy in memory;
\* results what the reduce will read.
NewRound(n) == [number |-> n, stage |-> "idle", of |-> 0, plan |-> "none", halted |-> FALSE,
                failed |-> FALSE, held |-> {}, results |-> {}]

ParallelInit ==
  /\ strategy \in {Identity, Discovery}
  /\ inputs = 1
  /\ saved = NoFile
  /\ round = NewRound(0)
  /\ work = [b \in 1..MaxBatch |-> AtRest]
  /\ published = NotPublished
  /\ saveFaults = 0

-----------------------------------------------------------------------------
(* The round up to its goroutines *)

PlannedBatches == 1..Len(Prints[round.plan])
BatchPrint(p, b) == Prints[p][b]
Item(p, b, of) == [batch |-> b, print |-> BatchPrint(p, b), text |-> of]
Jobs == round.stage \in {"discover", "extract"}
Checkpointed == strategy = Identity /\ round.stage = "extract"

FileFits == saved.of \in {0, inputs}

\* loadCheckpointForGeneration: a file of another generation is moved away and
\* the run ends as incompatible.
BeginRound ==
  /\ round.stage = "idle" /\ round.number < MaxRounds
  /\ LET opened == [NewRound(round.number + 1) EXCEPT !.of = inputs] IN
     IF strategy = Identity /\ ~FileFits
     THEN /\ saved' = NoFile
          /\ round' = [opened EXCEPT !.stage = "over", !.failed = TRUE]
     ELSE /\ UNCHANGED saved
          /\ round' = [opened EXCEPT !.stage = "plan",
                         !.held = IF strategy = Identity THEN saved.items ELSE {}]
  /\ work' = [b \in 1..MaxBatch |-> AtRest]
  /\ UNCHANGED <<strategy, inputs, published, saveFaults>>

\* The batches are cut to what the model takes at this moment, which the
\* provider says, not the fingerprint; it may say nothing useful.
PlanBatches ==
  /\ round.stage = "plan"
  /\ \/ \E p \in Plans :
          round' = [round EXCEPT !.plan = p,
                      !.stage = IF strategy = Identity THEN "resume" ELSE "discover"]
     \/ round' = [round EXCEPT !.stage = "over", !.failed = TRUE]
  /\ UNCHANGED <<strategy, inputs, saved, work, published, saveFaults>>

\* A saved batch is taken by its number alone.
Resumable_ByIndex(i) == i.batch \in PlannedBatches

\* A saved batch stands for the runtime batch of its number and fingerprint.
Resumable(i) == i.batch \in PlannedBatches /\ i.print = BatchPrint(round.plan, i.batch)

\* Saved batches are sent again although they are taken over.
Resumed_Again == [b \in 1..MaxBatch |-> AtRest]

\* Saved batches have no goroutine.
Resumed == [b \in 1..MaxBatch |->
  IF \E i \in round.held : i.batch = b THEN [AtRest EXCEPT !.at = "done"] ELSE AtRest]

\* One saved batch that does not fit and the whole file is moved away.
Resume ==
  /\ round.stage = "resume"
  /\ IF \A i \in round.held : Resumable(i)
     THEN /\ round' = [round EXCEPT !.stage = "extract", !.results = round.held]
          /\ work' = Resumed
          /\ UNCHANGED saved
     ELSE /\ round' = [round EXCEPT !.stage = "over", !.failed = TRUE]
          /\ saved' = NoFile
          /\ UNCHANGED work
  /\ UNCHANGED <<strategy, inputs, published, saveFaults>>

-----------------------------------------------------------------------------
(* runParallelIdentityLLMJobs and its goroutines *)

At(S) == {b \in 1..MaxBatch : work[b].at \in S}
Started == At({"launched", "turn", "ready", "sent", "answered", "broken", "saved"})
Slots == 1..Concurrency
FreeSlots == Slots \ {work[b].slot : b \in 1..MaxBatch}
Pending == At({"pending"}) \cap PlannedBatches

Moves(b, to) == work' = [work EXCEPT ![b].at = to]

\* The deferred calls return the worker slot and the semaphore.
GiveBack(b, to) == work' = [work EXCEPT ![b] = [at |-> to, slot |-> 0]]

\* The loop starts the next batch when the semaphore has room.
Launch(b) ==
  /\ Jobs
  /\ b \in Pending /\ \A c \in Pending : b <= c
  /\ Cardinality(Started) < Concurrency
  /\ Moves(b, "launched")
  /\ UNCHANGED <<strategy, inputs, saved, round, published, saveFaults>>

\* The goroutines of started batches end the loop.
MayStop_OnError == round.halted \/ round.failed

\* Only the context ends the loop early; an error of a batch does not.
MayStop == round.halted

StopLaunching ==
  /\ Jobs /\ MayStop
  /\ Pending # {}
  /\ work' = [b \in 1..MaxBatch |-> IF b \in Pending THEN [AtRest EXCEPT !.at = "never"] ELSE work[b]]
  /\ round' = [round EXCEPT !.failed = TRUE]
  /\ UNCHANGED <<strategy, inputs, saved, published, saveFaults>>

\* Wait holds the limiter's mutex while its timer runs.
TakeTurn(b) ==
  /\ work[b].at = "launched"
  /\ At({"turn"}) = {}
  /\ Moves(b, "turn")
  /\ UNCHANGED <<strategy, inputs, saved, round, published, saveFaults>>

\* The timer fires, or the context ends first: then the goroutine is over
\* without a worker slot.
PassTurn(b) ==
  /\ work[b].at = "turn"
  /\ \/ /\ Moves(b, "ready")
        /\ UNCHANGED round
     \/ /\ round.halted
        /\ GiveBack(b, "failed")
        /\ round' = [round EXCEPT !.failed = TRUE]
  /\ UNCHANGED <<strategy, inputs, saved, published, saveFaults>>

\* The worker takes a slot, reports its start and sends the request.
SendBatch(b) ==
  /\ work[b].at = "ready"
  /\ FreeSlots # {}
  /\ \E s \in FreeSlots : work' = [work EXCEPT ![b] = [at |-> "sent", slot |-> s]]
  /\ UNCHANGED <<strategy, inputs, saved, round, published, saveFaults>>

\* generateOpenRouterChatWithOutputRetry: an answer that keeps the contract, or
\* an error, after as many attempts as there are.
AnswerBatch(b) ==
  /\ work[b].at = "sent"
  /\ Moves(b, "answered") \/ Moves(b, "broken")
  /\ UNCHANGED <<strategy, inputs, saved, round, published, saveFaults>>

HeldWith(i) == IF \E j \in round.held : j.batch = i.batch THEN round.held ELSE round.held \cup {i}

\* A failed write is the batch's error; its result stays in the session.
SaveFault(b) == Moves(b, "broken")

\* OnBatchComplete, under saveMu.
SaveBatch(b) ==
  /\ work[b].at = "answered"
  /\ IF ~Checkpointed
     THEN Moves(b, "saved") /\ UNCHANGED <<saved, round, saveFaults>>
     ELSE /\ round' = [round EXCEPT !.held = HeldWith(Item(round.plan, b, round.of))]
          /\ \/ /\ saved' = [of |-> round.of, items |-> HeldWith(Item(round.plan, b, round.of))]
                /\ Moves(b, "saved")
                /\ UNCHANGED saveFaults
             \/ /\ saveFaults < MaxSaveFaults
                /\ saveFaults' = saveFaults + 1
                /\ SaveFault(b)
                /\ UNCHANGED saved
  /\ UNCHANGED <<strategy, inputs, published>>

\* The result is stored, reported, and the slot and the semaphore given back.
ReportBatch(b) ==
  /\ work[b].at \in {"saved", "broken"}
  /\ IF work[b].at = "saved"
     THEN /\ round' = [round EXCEPT !.results = @ \cup {Item(round.plan, b, round.of)}]
          /\ GiveBack(b, "done")
     ELSE /\ round' = [round EXCEPT !.failed = TRUE]
          /\ GiveBack(b, "failed")
  /\ UNCHANGED <<strategy, inputs, saved, published, saveFaults>>

-----------------------------------------------------------------------------
(* The round after its goroutines *)

\* All of them returned. Any error ends the round; else the names found are
\* used to plan the details, or the candidates are resolved.
Reduce ==
  /\ Jobs /\ Pending = {} /\ Started = {}
  /\ IF round.failed
     THEN round' = [round EXCEPT !.stage = "over"] /\ UNCHANGED work
     ELSE IF round.stage = "extract"
     THEN round' = [round EXCEPT !.stage = "resolve"] /\ UNCHANGED work
     ELSE /\ \E p \in Plans :
               round' = [round EXCEPT !.stage = "extract", !.plan = p, !.results = {}]
          /\ work' = [b \in 1..MaxBatch |-> AtRest]
  /\ UNCHANGED <<strategy, inputs, saved, published, saveFaults>>

\* The requests that decide who is the same person, and in the discovery
\* strategy those that correct the names: nothing of them is saved.
ResolveIdentities ==
  /\ round.stage \in {"resolve", "correct"}
  /\ round' = [round EXCEPT !.stage =
       IF round.stage = "resolve" /\ strategy = Discovery THEN "correct" ELSE "publish"]
  /\ UNCHANGED <<strategy, inputs, saved, work, published, saveFaults>>

ResolveFails ==
  /\ round.stage \in {"resolve", "correct"}
  /\ round' = [round EXCEPT !.stage = "over", !.failed = TRUE]
  /\ UNCHANGED <<strategy, inputs, saved, work, published, saveFaults>>

\* The workflow saves terms and characters and deletes the checkpoint.
Publish ==
  /\ round.stage = "publish"
  /\ published' = [of |-> round.of, plan |-> round.plan, items |-> round.results]
  /\ saved' = IF strategy = Identity THEN NoFile ELSE saved
  /\ round' = [round EXCEPT !.stage = "over"]
  /\ UNCHANGED <<strategy, inputs, work, saveFaults>>

\* Pause, cancel or shutdown ends the context of the run.
HaltRound ==
  /\ round.stage \notin {"idle", "over"} /\ ~round.halted
  /\ round' = [round EXCEPT !.halted = TRUE]
  /\ UNCHANGED <<strategy, inputs, saved, work, published, saveFaults>>

\* The process ends at any moment; only the file stays.
CrashRound ==
  /\ round.stage \notin {"idle", "over"}
  /\ round' = NewRound(round.number)
  /\ work' = [b \in 1..MaxBatch |-> AtRest]
  /\ UNCHANGED <<strategy, inputs, saved, published, saveFaults>>

\* The job is run again.
CloseRound ==
  /\ round.stage = "over" /\ round.number < MaxRounds
  /\ round' = NewRound(round.number)
  /\ work' = [b \in 1..MaxBatch |-> AtRest]
  /\ UNCHANGED <<strategy, inputs, saved, published, saveFaults>>

\* An episode, the seed or the settings change between runs or during one.
ReviseInputs ==
  /\ inputs < MaxInputs
  /\ inputs' = inputs + 1
  /\ UNCHANGED <<strategy, saved, round, work, published, saveFaults>>

ParallelNext ==
  \/ BeginRound \/ PlanBatches \/ Resume \/ StopLaunching \/ Reduce
  \/ ResolveIdentities \/ ResolveFails \/ Publish
  \/ HaltRound \/ CrashRound \/ CloseRound \/ ReviseInputs
  \/ \E b \in 1..MaxBatch :
       \/ Launch(b) \/ TakeTurn(b) \/ PassTurn(b) \/ SendBatch(b)
       \/ AnswerBatch(b) \/ SaveBatch(b) \/ ReportBatch(b)

\* All the runs are over: nothing is left to do.
ParallelAtEnd == round.stage \in {"idle", "over"} /\ round.number = MaxRounds

ParallelSpec == ParallelInit /\ [][ParallelNext]_parallel
-----------------------------------------------------------------------------
(* Properties *)

\* What is handed on is complete and of one piece: the result of each batch of
\* the plan, each extracted from the inputs the round began with, although some
\* came from the checkpoints of earlier rounds and in any order.
PublishedIsWhole == published # NotPublished =>
  published.items = {Item(published.plan, b, published.of) : b \in 1..Len(Prints[published.plan])}

\* A batch whose answer the checkpoint has for these inputs is not sent to the
\* provider again, by whatever number of pauses, errors and crashes in between
\* (docs/extraction.md:61).
SavedIsNotResent == \A b \in At({"ready", "sent"}) :
  ~ (Checkpointed /\ saved.of = round.of /\ Item(round.plan, b, round.of) \in saved.items)

\* One batch that fails does not keep the others from being sent: unless the
\* run was halted, no batch is left out (docs/extraction.md:62).
FailureSparesOthers == ~round.halted => At({"never"}) = {}

=============================================================================
