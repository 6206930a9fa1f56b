-------------------------- MODULE GenerationProofs --------------------------
(***************************************************************************)
(* Proofs about what a generation leaves behind, for every value of the    *)
(* constants: the parallel generation of identities (ParallelIdentity),    *)
(* the histories of terms (TermHistory), the usage of calls (AIUsage), and *)
(* the keys they are made with (AISettings). They share no state, and each *)
(* has its own invariant.                                                  *)
(***************************************************************************)
EXTENDS ParallelIdentity, TermHistory, AIUsage, AISettings, Integers, WellFoundedInduction,
        TLAPS

(***************************************************************************)
(* A round of parallel generation.                                         *)
(***************************************************************************)

Batches == 1..MaxBatch
ResultsFor(of) == UNION {{Item(p, b, of) : b \in 1..Len(Prints[p])} : p \in Plans}
Results == UNION {ResultsFor(of) : of \in Nat}

RoundStages == {"idle", "plan", "resume", "discover", "extract", "resolve", "correct", "publish", "over"}
OnTheirWay == {"launched", "turn", "ready", "sent", "answered", "broken", "saved"}
WorkPlaces == OnTheirWay \cup {"pending", "done", "failed", "never"}

RoundTypes ==
  /\ strategy \in {Identity, Discovery}
  /\ inputs \in Nat
  /\ saved \in [of: Nat, items: SUBSET Results]
  /\ round \in [number: Nat, stage: RoundStages, of: Nat, plan: Plans \cup {"none"},
                halted: BOOLEAN, failed: BOOLEAN, held: SUBSET Results, results: SUBSET Results]
  /\ work \in [Batches -> [at: WorkPlaces, slot: 0..Concurrency]]

\* What is in the file, and in the session, is of one revision of the inputs.
OfOneRevision ==
  /\ saved.items \subseteq ResultsFor(saved.of)
  /\ round.held \subseteq ResultsFor(round.of)
  /\ saved.of = 0 => saved.items = {}
  /\ inputs # 0 /\ (round.stage # "idle" => round.of # 0)

\* Goroutines are about planned batches of a round that sends; a batch that is
\* done has its result, a result is that of a planned batch, and a batch is only
\* given up when the round has failed.
Gathered ==
  /\ round.stage \in {"resume", "discover", "extract", "resolve", "correct", "publish"} =>
       round.plan \in Plans
  /\ round.stage \in {"plan", "resume"} =>
       round.results = {} /\ \A b \in Batches : work[b].at = "pending"
  /\ \A b \in Batches : work[b].at \in OnTheirWay => Jobs /\ b \in PlannedBatches
  /\ Jobs =>
       /\ \A i \in round.results : i.batch \in PlannedBatches /\ i = Item(round.plan, i.batch, round.of)
       /\ \A b \in Batches :
            /\ work[b].at # "pending" => b \in PlannedBatches
            /\ work[b].at = "done" => Item(round.plan, b, round.of) \in round.results
            /\ work[b].at \in {"failed", "never"} => round.failed
  /\ round.stage = "discover" => strategy = Discovery
  /\ round.stage \in {"resolve", "correct", "publish"} =>
       round.results = {Item(round.plan, b, round.of) : b \in PlannedBatches}

\* What the file has the session has, and what the session has was answered.
WasAnswered ==
  /\ strategy = Identity /\ round.stage \in {"plan", "resume", "extract"} /\ saved.of = round.of =>
       saved.items \subseteq round.held
  /\ Checkpointed => \A i \in round.held : work[i.batch].at \in {"saved", "broken", "done", "failed"}

ParallelInv == RoundTypes /\ OfOneRevision /\ Gathered /\ WasAnswered

-----------------------------------------------------------------------------
LEMMA BatchesFit ==
  /\ MaxBatch \in Nat
  /\ \A p \in Plans : 1..Len(Prints[p]) \subseteq Batches
<1> DEFINE Lens == {Len(Prints[p]) : p \in Plans}
           Most(n) == n \in Lens /\ \A p \in Plans : Len(Prints[p]) <= n
<1>1. Most(MaxBatch)
  <2>1. \E n : Most(n)
    BY ParallelAssumption
  <2>2. Most(CHOOSE n : Most(n))
    BY <2>1
  <2>3. MaxBatch = CHOOSE n : Most(n)
    BY DEF MaxBatch
  <2> QED
    BY <2>2, <2>3
<1> QED
  BY <1>1, ParallelAssumption DEF Batches

LEMMA PlannedFit ==
  ASSUME ParallelInv, round.plan \in Plans
  PROVE  PlannedBatches \subseteq Batches
BY BatchesFit DEF PlannedBatches

\* The results of the inputs of, apart from those of any others.
LEMMA ResultsAre ==
  /\ \A of \in Nat : ResultsFor(of) \subseteq Results
  /\ \A p \in Plans : \A of : \A b \in 1..Len(Prints[p]) :
       Item(p, b, of) \in ResultsFor(of) /\ Item(p, b, of).batch = b
  /\ \A of : \A i \in ResultsFor(of) : i.batch \in Batches
  /\ \A i \in Results : i.batch \in Batches
  /\ \A of, p : \A i \in ResultsFor(of) : i.print = BatchPrint(p, i.batch) => i = Item(p, i.batch, of)
<1>1. \A of \in Nat : ResultsFor(of) \subseteq Results
  BY DEF Results
<1>2. \A p \in Plans : \A of : \A b \in 1..Len(Prints[p]) :
       Item(p, b, of) \in ResultsFor(of) /\ Item(p, b, of).batch = b
  BY DEF ResultsFor, Item
<1>3. \A of : \A i \in ResultsFor(of) : i.batch \in Batches
  BY BatchesFit DEF ResultsFor, Item
<1>4. \A i \in Results : i.batch \in Batches
  BY <1>3 DEF Results
<1>5. \A of, p : \A i \in ResultsFor(of) : i.print = BatchPrint(p, i.batch) => i = Item(p, i.batch, of)
  BY DEF ResultsFor, Item
<1> QED
  BY <1>1, <1>2, <1>3, <1>4, <1>5

\* A run begins without a round.
LEMMA ParallelInitInv == ParallelInit => ParallelInv
BY ParallelAssumption DEF ParallelInit, ParallelInv, RoundTypes, OfOneRevision, Gathered, WasAnswered, NoFile,
   NewRound, AtRest, RoundStages, WorkPlaces, OnTheirWay, Jobs, Checkpointed, Batches, Identity, Discovery

\* A goroutine goes on, and has not been answered yet.
LEMMA GoroutineGoesOn ==
  ASSUME ParallelInv, NEW b \in Batches, Jobs, b \in PlannedBatches,
         work[b].at \in {"pending", "launched", "turn", "ready", "sent", "answered"},
         NEW to \in {"launched", "turn", "ready", "sent", "answered", "broken", "saved"},
         NEW s \in 0..Concurrency, work' = [work EXCEPT ![b] = [at |-> to, slot |-> s]],
         UNCHANGED <<strategy, inputs, saved, round>>
  PROVE  ParallelInv'
<1>1. RoundTypes'
  BY DEF ParallelInv, RoundTypes, WorkPlaces, OnTheirWay
<1>2. OfOneRevision'
  BY DEF ParallelInv, OfOneRevision
<1>3. Gathered'
  BY DEF ParallelInv, RoundTypes, Gathered, Jobs, PlannedBatches, OnTheirWay
<1>4. WasAnswered'
  BY ResultsAre DEF ParallelInv, RoundTypes, WasAnswered, Checkpointed, Jobs
<1> QED
  BY <1>1, <1>2, <1>3, <1>4 DEF ParallelInv

\* A goroutine that moves on keeps its slot to itself.
LEMMA MovesKeepSlot ==
  ASSUME ParallelInv, NEW b \in Batches, NEW to, Moves(b, to)
  PROVE  work' = [work EXCEPT ![b] = [at |-> to, slot |-> work[b].slot]]
<1>1. [work[b] EXCEPT !.at = to] = [at |-> to, slot |-> work[b].slot]
  BY DEF ParallelInv, RoundTypes
<1>2. work' = [work EXCEPT ![b] = [work[b] EXCEPT !.at = to]]
  BY DEF Moves
<1> QED
  BY <1>1, <1>2

LEMMA GoroutineSteps ==
  ASSUME ParallelInv, NEW b \in Batches,
         Launch(b) \/ TakeTurn(b) \/ SendBatch(b) \/ AnswerBatch(b)
  PROVE  ParallelInv'
<1>1. Jobs /\ b \in PlannedBatches
  BY DEF Launch, TakeTurn, SendBatch, AnswerBatch, Pending, ParallelInv, Gathered, OnTheirWay
<1>2. work[b].slot \in 0..Concurrency
  BY DEF ParallelInv, RoundTypes
<1>4. \A to : Moves(b, to) => work' = [work EXCEPT ![b] = [at |-> to, slot |-> work[b].slot]]
  BY MovesKeepSlot
<1>5. CASE Launch(b)
  BY <1>1, <1>2, <1>4, <1>5, GoroutineGoesOn DEF Launch, Pending, At
<1>6. CASE TakeTurn(b)
  BY <1>1, <1>2, <1>4, <1>6, GoroutineGoesOn DEF TakeTurn
<1>7. CASE SendBatch(b)
  <2>1. PICK s \in FreeSlots : work' = [work EXCEPT ![b] = [at |-> "sent", slot |-> s]]
    BY <1>7 DEF SendBatch
  <2>2. s \in 0..Concurrency
    BY ParallelAssumption DEF FreeSlots, Slots
  <2> QED
    BY <1>1, <1>7, <2>1, <2>2, GoroutineGoesOn DEF SendBatch
<1>8. CASE AnswerBatch(b)
  BY <1>1, <1>2, <1>4, <1>8, GoroutineGoesOn DEF AnswerBatch
<1> QED
  BY <1>5, <1>6, <1>7, <1>8

LEMMA NoSlot == 0 \in 0..Concurrency
BY ParallelAssumption

\* A goroutine ends without a result, and the round has failed.
LEMMA BatchFails ==
  ASSUME ParallelInv, NEW b \in Batches, work[b].at \in {"turn", "broken"},
         GiveBack(b, "failed"), round' = [round EXCEPT !.failed = TRUE],
         UNCHANGED <<strategy, inputs, saved>>
  PROVE  ParallelInv'
<1>1. Jobs /\ b \in PlannedBatches
  BY DEF ParallelInv, Gathered, OnTheirWay
<1>2. RoundTypes'
  BY NoSlot DEF GiveBack, ParallelInv, RoundTypes, WorkPlaces
<1>3. OfOneRevision'
  BY DEF ParallelInv, RoundTypes, OfOneRevision
<1>4. Gathered'
  BY <1>1 DEF GiveBack, ParallelInv, RoundTypes, Gathered, Jobs, PlannedBatches, OnTheirWay
<1>5. WasAnswered'
  BY <1>1, ResultsAre DEF GiveBack, ParallelInv, RoundTypes, WasAnswered, Checkpointed, Jobs
<1> QED
  BY <1>2, <1>3, <1>4, <1>5 DEF ParallelInv

LEMMA PassTurnStep ==
  ASSUME ParallelInv, NEW b \in Batches, PassTurn(b)
  PROVE  ParallelInv'
<1>1. Jobs /\ b \in PlannedBatches
  BY DEF PassTurn, ParallelInv, Gathered, OnTheirWay
<1>2. CASE Moves(b, "ready") /\ UNCHANGED round
  <2>1. work' = [work EXCEPT ![b] = [at |-> "ready", slot |-> work[b].slot]]
    BY <1>2, MovesKeepSlot
  <2>2. work[b].slot \in 0..Concurrency
    BY DEF ParallelInv, RoundTypes
  <2> QED
    BY <1>1, <1>2, <2>1, <2>2, GoroutineGoesOn DEF PassTurn
<1>3. CASE GiveBack(b, "failed") /\ round' = [round EXCEPT !.failed = TRUE]
  BY <1>3, BatchFails DEF PassTurn
<1> QED
  BY <1>2, <1>3 DEF PassTurn

\* An answer is in the session when its batch leaves the provider, and the file
\* that is written is the session's.
LEMMA SaveBatchStep ==
  ASSUME ParallelInv, NEW b \in Batches, SaveBatch(b)
  PROVE  ParallelInv'
<1> DEFINE item == Item(round.plan, b, round.of)
<1>1. Jobs /\ b \in PlannedBatches /\ work[b].at = "answered" /\ round.plan \in Plans
  BY DEF SaveBatch, ParallelInv, Gathered, OnTheirWay, Jobs
<1>2. work[b].slot \in 0..Concurrency
  BY DEF ParallelInv, RoundTypes
<1>3. \A to : Moves(b, to) => work' = [work EXCEPT ![b] = [at |-> to, slot |-> work[b].slot]]
  BY MovesKeepSlot
<1>4. CASE ~ Checkpointed
  BY <1>1, <1>2, <1>3, <1>4, GoroutineGoesOn DEF SaveBatch
<1>5. CASE Checkpointed
  <2>1. /\ round' = [round EXCEPT !.held = HeldWith(item)]
        /\ \/ saved' = saved
           \/ saved' = [of |-> round.of, items |-> HeldWith(item)]
        /\ UNCHANGED <<strategy, inputs>>
    BY <1>5 DEF SaveBatch
  <2>2. PICK to \in {"saved", "broken"} : work' = [work EXCEPT ![b] = [at |-> to, slot |-> work[b].slot]]
    BY <1>3, <1>5 DEF SaveBatch, SaveFault
  <2>3. item \in ResultsFor(round.of) /\ item.batch = b
    BY <1>1, ResultsAre DEF PlannedBatches
  <2>4. round.of \in Nat /\ round.held \subseteq ResultsFor(round.of) /\ ResultsFor(round.of) \subseteq Results
    BY ResultsAre DEF ParallelInv, RoundTypes, OfOneRevision
  <2>5. /\ HeldWith(item) \subseteq ResultsFor(round.of)
        /\ HeldWith(item) \subseteq Results
        /\ round.held \subseteq HeldWith(item) /\ HeldWith(item) \subseteq round.held \cup {item}
    BY <2>3, <2>4 DEF HeldWith
  <2>6. round.of # 0
    BY <1>1 DEF ParallelInv, OfOneRevision, Jobs
  <2> HIDE DEF item
  <2>7. RoundTypes'
    BY <1>2, <2>1, <2>2, <2>4, <2>5 DEF ParallelInv, RoundTypes, WorkPlaces, OnTheirWay
  <2>8. OfOneRevision'
    BY <2>1, <2>4, <2>5, <2>6 DEF ParallelInv, RoundTypes, OfOneRevision
  <2>9. Gathered'
    BY <1>1, <2>1, <2>2 DEF ParallelInv, RoundTypes, Gathered, Jobs, PlannedBatches, OnTheirWay
  <2>10. WasAnswered'
    BY <1>1, <1>5, <2>1, <2>2, <2>3, <2>4, <2>5, ResultsAre
       DEF ParallelInv, RoundTypes, WasAnswered, Checkpointed, Jobs
  <2> QED
    BY <2>7, <2>8, <2>9, <2>10 DEF ParallelInv
<1> QED
  BY <1>4, <1>5

LEMMA ReportBatchStep ==
  ASSUME ParallelInv, NEW b \in Batches, ReportBatch(b)
  PROVE  ParallelInv'
<1> DEFINE item == Item(round.plan, b, round.of)
<1>1. Jobs /\ b \in PlannedBatches /\ round.plan \in Plans
  BY DEF ReportBatch, ParallelInv, Gathered, OnTheirWay, Jobs
<1>2. CASE work[b].at = "broken"
  BY <1>2, BatchFails DEF ReportBatch
<1>3. CASE work[b].at = "saved"
  <2>1. /\ round' = [round EXCEPT !.results = @ \cup {item}]
        /\ work' = [work EXCEPT ![b] = [at |-> "done", slot |-> 0]]
        /\ UNCHANGED <<strategy, inputs, saved>>
    BY <1>3 DEF ReportBatch, GiveBack
  <2>2. item \in ResultsFor(round.of) /\ item.batch = b
    BY <1>1, ResultsAre DEF PlannedBatches
  <2>3. item \in Results
    BY <2>2, ResultsAre DEF ParallelInv, RoundTypes
  <2>4. item = Item(round.plan, b, round.of)
    OBVIOUS
  <2> HIDE DEF item
  <2>5. RoundTypes'
    BY NoSlot, <2>1, <2>3 DEF ParallelInv, RoundTypes, WorkPlaces
  <2>6. OfOneRevision'
    BY <2>1 DEF ParallelInv, RoundTypes, OfOneRevision
  <2>7. Gathered'
    BY <1>1, <2>1, <2>2, <2>4 DEF ParallelInv, RoundTypes, Gathered, Jobs, PlannedBatches, OnTheirWay
  <2>8. WasAnswered'
    BY <1>1, <2>1, ResultsAre DEF ParallelInv, RoundTypes, WasAnswered, Checkpointed, Jobs
  <2> QED
    BY <2>5, <2>6, <2>7, <2>8 DEF ParallelInv
<1> QED
  BY <1>2, <1>3 DEF ReportBatch

-----------------------------------------------------------------------------
(* The round                                                                *)

\* The workers of a round that has none yet.
LEMMA AllAtRest ==
  ASSUME work' = [b \in 1..MaxBatch |-> AtRest]
  PROVE  /\ work' \in [Batches -> [at: WorkPlaces, slot: 0..Concurrency]]
         /\ \A b \in Batches : work'[b].at = "pending"
BY NoSlot DEF AtRest, Batches, WorkPlaces

LEMMA BeginRoundStep == ASSUME ParallelInv, BeginRound PROVE ParallelInv'
<1>1. /\ work' \in [Batches -> [at: WorkPlaces, slot: 0..Concurrency]]
      /\ \A b \in Batches : work'[b].at = "pending"
  BY AllAtRest DEF BeginRound
<1>2. UNCHANGED <<strategy, inputs>>
  BY DEF BeginRound
<1>3. CASE strategy = Identity /\ ~FileFits
  <2>1. /\ saved' = [of |-> 0, items |-> {}]
        /\ round' = [number |-> round.number + 1, stage |-> "over", of |-> inputs, plan |-> "none",
                     halted |-> FALSE, failed |-> TRUE, held |-> {}, results |-> {}]
    BY <1>3 DEF BeginRound, NewRound, NoFile
  <2>2. RoundTypes'
    BY <1>1, <1>2, <2>1 DEF ParallelInv, RoundTypes, RoundStages
  <2> QED
    BY <1>1, <1>2, <2>1, <2>2
       DEF ParallelInv, OfOneRevision, Gathered, WasAnswered, Jobs, Checkpointed, OnTheirWay
<1>4. CASE ~ (strategy = Identity /\ ~FileFits)
  <2> DEFINE held == IF strategy = Identity THEN saved.items ELSE {}
  <2>1. /\ saved' = saved
        /\ round' = [number |-> round.number + 1, stage |-> "plan", of |-> inputs, plan |-> "none",
                     halted |-> FALSE, failed |-> FALSE, held |-> held, results |-> {}]
    BY <1>4 DEF BeginRound, NewRound
  <2>2. held \subseteq Results
    BY DEF ParallelInv, RoundTypes
  <2>3. held \subseteq ResultsFor(inputs)
    BY <1>4 DEF FileFits, ParallelInv, OfOneRevision
  <2>4. strategy = Identity => held = saved.items
    OBVIOUS
  <2> HIDE DEF held
  <2>5. RoundTypes'
    BY <1>1, <1>2, <2>1, <2>2 DEF ParallelInv, RoundTypes, RoundStages
  <2>6. OfOneRevision'
    BY <1>2, <2>1, <2>3 DEF ParallelInv, OfOneRevision
  <2>7. Gathered'
    BY <1>1, <2>1 DEF Gathered, Jobs, OnTheirWay
  <2>8. WasAnswered'
    BY <1>2, <2>1, <2>4 DEF WasAnswered, Checkpointed
  <2> QED
    BY <2>5, <2>6, <2>7, <2>8 DEF ParallelInv
<1> QED
  BY <1>3, <1>4

LEMMA PlanBatchesStep == ASSUME ParallelInv, PlanBatches PROVE ParallelInv'
<1>1. /\ round.stage = "plan"
      /\ UNCHANGED <<strategy, inputs, saved, work>>
      /\ \/ \E p \in Plans :
              round' = [round EXCEPT !.plan = p,
                          !.stage = IF strategy = Identity THEN "resume" ELSE "discover"]
         \/ round' = [round EXCEPT !.stage = "over", !.failed = TRUE]
  BY DEF PlanBatches
<1>2. RoundTypes'
  BY <1>1 DEF ParallelInv, RoundTypes, RoundStages
<1>3. OfOneRevision'
  BY <1>1 DEF ParallelInv, RoundTypes, OfOneRevision
<1>4. Gathered'
  BY <1>1 DEF ParallelInv, RoundTypes, Gathered, Jobs, OnTheirWay, PlannedBatches
<1>5. WasAnswered'
  BY <1>1 DEF ParallelInv, RoundTypes, WasAnswered, Checkpointed
<1> QED
  BY <1>2, <1>3, <1>4, <1>5 DEF ParallelInv

LEMMA ResumeStep == ASSUME ParallelInv, Resume PROVE ParallelInv'
<1>1. /\ round.stage = "resume" /\ round.plan \in Plans
      /\ \A b \in Batches : work[b].at = "pending"
      /\ UNCHANGED <<strategy, inputs>>
  BY DEF Resume, ParallelInv, Gathered
<1>2. CASE \A i \in round.held : Resumable(i)
  <2>1. /\ round' = [round EXCEPT !.stage = "extract", !.results = round.held]
        /\ work' = Resumed /\ saved' = saved
    BY <1>2 DEF Resume
  <2>2. work' \in [Batches -> [at: {"pending", "done"}, slot: 0..Concurrency]]
    BY <2>1, NoSlot DEF Resumed, AtRest, Batches
  <2>3. \A b \in Batches : work'[b].at = "done" <=> \E i \in round.held : i.batch = b
    BY <2>1 DEF Resumed, AtRest, Batches
  <2>4. \A i \in round.held : /\ i.batch \in PlannedBatches /\ i = Item(round.plan, i.batch, round.of)
                              /\ i.batch \in Batches
    BY <1>2, ResultsAre DEF Resumable, ParallelInv, OfOneRevision
  <2>5. RoundTypes'
    BY <1>1, <2>1, <2>2, ZenonT(60) DEF ParallelInv, RoundTypes, RoundStages, WorkPlaces
  <2>6. OfOneRevision'
    BY <1>1, <2>1 DEF ParallelInv, RoundTypes, OfOneRevision
  <2>7. Gathered'
    BY <1>1, <2>1, <2>2, <2>3, <2>4 DEF ParallelInv, RoundTypes, Gathered, Jobs, OnTheirWay, PlannedBatches
  <2>8. WasAnswered'
    BY <1>1, <2>1, <2>3, <2>4 DEF ParallelInv, RoundTypes, WasAnswered, Checkpointed
  <2> QED
    BY <2>5, <2>6, <2>7, <2>8 DEF ParallelInv
<1>3. CASE ~ \A i \in round.held : Resumable(i)
  <2>1. /\ round' = [round EXCEPT !.stage = "over", !.failed = TRUE]
        /\ saved' = [of |-> 0, items |-> {}] /\ work' = work
    BY <1>3 DEF Resume, NoFile
  <2>2. RoundTypes'
    BY <1>1, <2>1 DEF ParallelInv, RoundTypes, RoundStages
  <2>3. OfOneRevision'
    BY <1>1, <2>1 DEF ParallelInv, RoundTypes, OfOneRevision
  <2>4. Gathered' /\ WasAnswered'
    BY <1>1, <2>1 DEF ParallelInv, RoundTypes, Gathered, WasAnswered, Checkpointed, Jobs, OnTheirWay
  <2> QED
    BY <2>2, <2>3, <2>4 DEF ParallelInv
<1> QED
  BY <1>2, <1>3

LEMMA StopLaunchingStep == ASSUME ParallelInv, StopLaunching PROVE ParallelInv'
<1>1. /\ Jobs /\ round' = [round EXCEPT !.failed = TRUE] /\ UNCHANGED <<strategy, inputs, saved>>
      /\ Pending \subseteq PlannedBatches
  BY DEF StopLaunching, Pending
<1>2. \A b \in Batches :
        \/ work'[b] = work[b]
        \/ b \in PlannedBatches /\ work[b].at = "pending" /\ work'[b] = [at |-> "never", slot |-> 0]
  BY DEF StopLaunching, Pending, At, AtRest, Batches
<1>3. work' \in [Batches -> [at: WorkPlaces, slot: 0..Concurrency]]
  <2>1. [at |-> "never", slot |-> 0] \in [at: WorkPlaces, slot: 0..Concurrency]
    BY NoSlot DEF WorkPlaces
  <2>2. \A b \in Batches : work'[b] \in [at: WorkPlaces, slot: 0..Concurrency]
    BY <1>2, <2>1 DEF ParallelInv, RoundTypes
  <2>3. work' = [b \in Batches |-> work'[b]]
    BY DEF StopLaunching, Batches
  <2> QED
    BY <2>2, <2>3
<1>4. RoundTypes'
  BY <1>1, <1>3 DEF ParallelInv, RoundTypes
<1>5. OfOneRevision'
  BY <1>1 DEF ParallelInv, RoundTypes, OfOneRevision
<1>6. Gathered'
  BY <1>1, <1>2 DEF ParallelInv, RoundTypes, Gathered, Jobs, OnTheirWay, PlannedBatches
<1>7. WasAnswered'
  BY <1>1, <1>2, ResultsAre DEF ParallelInv, RoundTypes, WasAnswered, Checkpointed
<1> QED
  BY <1>4, <1>5, <1>6, <1>7 DEF ParallelInv

\* All batches of a round that did not fail have their result.
LEMMA AllGathered ==
  ASSUME ParallelInv, Jobs, Pending = {}, Started = {}, ~ round.failed
  PROVE  round.results = {Item(round.plan, b, round.of) : b \in PlannedBatches}
<1>1. PlannedBatches \subseteq Batches
  BY PlannedFit DEF ParallelInv, Gathered, Jobs
<1>2. ASSUME NEW b \in PlannedBatches PROVE Item(round.plan, b, round.of) \in round.results
  <2>1. work[b].at \notin OnTheirWay /\ work[b].at # "pending"
    BY <1>1, <1>2 DEF Started, Pending, At, OnTheirWay, Batches
  <2>2. work[b].at \notin {"failed", "never"}
    BY <1>1, <1>2 DEF ParallelInv, Gathered
  <2>3. work[b].at = "done"
    BY <1>1, <1>2, <2>1, <2>2 DEF ParallelInv, RoundTypes, WorkPlaces
  <2> QED
    BY <1>1, <1>2, <2>3 DEF ParallelInv, Gathered
<1> QED
  BY <1>2 DEF ParallelInv, Gathered

LEMMA ReduceStep == ASSUME ParallelInv, Reduce PROVE ParallelInv'
<1>1. /\ Jobs /\ Pending = {} /\ Started = {} /\ round.plan \in Plans
      /\ UNCHANGED <<strategy, inputs, saved>>
      /\ \A b \in Batches : work[b].at \notin OnTheirWay
  BY DEF Reduce, Started, At, OnTheirWay, Batches, ParallelInv, Gathered, Jobs
<1>2. CASE round.failed
  <2>1. round' = [round EXCEPT !.stage = "over"] /\ work' = work
    BY <1>2 DEF Reduce
  <2>2. RoundTypes' /\ OfOneRevision'
    <3>1. RoundTypes'
      BY <1>1, <2>1 DEF ParallelInv, RoundTypes, RoundStages
    <3>2. OfOneRevision'
      BY <1>1, <2>1 DEF ParallelInv, RoundTypes, OfOneRevision, Jobs
    <3> QED
      BY <3>1, <3>2
  <2>3. Gathered' /\ WasAnswered'
    BY <1>1, <2>1 DEF ParallelInv, RoundTypes, Gathered, WasAnswered, Checkpointed, Jobs
  <2> QED
    BY <2>2, <2>3 DEF ParallelInv
<1>3. CASE ~ round.failed /\ round.stage = "extract"
  <2>1. round' = [round EXCEPT !.stage = "resolve"] /\ work' = work
    BY <1>3 DEF Reduce
  <2>2. round.results = {Item(round.plan, b, round.of) : b \in PlannedBatches}
    BY <1>1, <1>3, AllGathered
  <2>3. RoundTypes' /\ OfOneRevision'
    <3>1. RoundTypes'
      BY <1>1, <2>1 DEF ParallelInv, RoundTypes, RoundStages
    <3>2. OfOneRevision'
      BY <1>1, <2>1 DEF ParallelInv, RoundTypes, OfOneRevision, Jobs
    <3> QED
      BY <3>1, <3>2
  <2>4. Gathered'
    BY <1>1, <2>1, <2>2 DEF ParallelInv, RoundTypes, Gathered, Jobs, PlannedBatches
  <2>5. WasAnswered'
    BY <1>1, <2>1 DEF ParallelInv, RoundTypes, WasAnswered, Checkpointed
  <2> QED
    BY <2>3, <2>4, <2>5 DEF ParallelInv
<1>4. CASE ~ round.failed /\ round.stage = "discover"
  <2>1. /\ \E p \in Plans : round' = [round EXCEPT !.stage = "extract", !.plan = p, !.results = {}]
        /\ work' = [b \in 1..MaxBatch |-> AtRest]
    BY <1>4 DEF Reduce
  <2>2. /\ work' \in [Batches -> [at: WorkPlaces, slot: 0..Concurrency]]
        /\ \A b \in Batches : work'[b].at = "pending"
    BY <2>1, AllAtRest
  <2>3. strategy = Discovery
    BY <1>4 DEF ParallelInv, Gathered
  <2>4. RoundTypes' /\ OfOneRevision'
    <3>1. RoundTypes'
      BY <1>1, <2>1, <2>2 DEF ParallelInv, RoundTypes, RoundStages
    <3>2. OfOneRevision'
      BY <1>1, <2>1, <2>2 DEF ParallelInv, RoundTypes, OfOneRevision, Jobs
    <3> QED
      BY <3>1, <3>2
  <2>5. Gathered' /\ WasAnswered'
    BY <1>1, <2>1, <2>2, <2>3
       DEF ParallelInv, RoundTypes, Gathered, WasAnswered, Checkpointed, Jobs, PlannedBatches, OnTheirWay,
           Identity, Discovery
  <2> QED
    BY <2>4, <2>5 DEF ParallelInv
<1> QED
  BY <1>1, <1>2, <1>3, <1>4 DEF Jobs

LEMMA ResolveStep ==
  ASSUME ParallelInv, ResolveIdentities \/ ResolveFails
  PROVE  ParallelInv'
<1>1. /\ round.stage \in {"resolve", "correct"}
      /\ \/ round' = [round EXCEPT !.stage = "correct"]
         \/ round' = [round EXCEPT !.stage = "publish"]
         \/ round' = [round EXCEPT !.stage = "over", !.failed = TRUE]
      /\ UNCHANGED <<strategy, inputs, saved, work>>
  BY DEF ResolveIdentities, ResolveFails
<1>2. RoundTypes' /\ OfOneRevision'
  BY <1>1 DEF ParallelInv, RoundTypes, OfOneRevision, RoundStages
<1>3. Gathered' /\ WasAnswered'
  <2>1. Gathered'
    <3>1. /\ round'.plan = round.plan /\ round'.of = round.of /\ round'.results = round.results
          /\ round'.stage \in {"correct", "publish", "over"}
      BY <1>1 DEF ParallelInv, RoundTypes
    <3> QED
      BY <1>1, <3>1 DEF ParallelInv, Gathered, Jobs, PlannedBatches
  <2>2. WasAnswered'
    BY <1>1 DEF ParallelInv, RoundTypes, WasAnswered, Checkpointed, Jobs, PlannedBatches
  <2> QED
    BY <2>1, <2>2
<1> QED
  BY <1>2, <1>3 DEF ParallelInv

LEMMA PublishStep == ASSUME ParallelInv, Publish PROVE ParallelInv'
<1>1. /\ round.stage = "publish"
      /\ round' = [round EXCEPT !.stage = "over"]
      /\ saved' \in {saved, [of |-> 0, items |-> {}]}
      /\ UNCHANGED <<strategy, inputs, work>>
  BY DEF Publish, NoFile
<1>2. RoundTypes' /\ OfOneRevision'
  BY <1>1 DEF ParallelInv, RoundTypes, OfOneRevision, RoundStages
<1>3. Gathered' /\ WasAnswered'
  BY <1>1 DEF ParallelInv, RoundTypes, Gathered, WasAnswered, Checkpointed, Jobs, PlannedBatches
<1> QED
  BY <1>2, <1>3 DEF ParallelInv

LEMMA HaltOrReviseStep ==
  ASSUME ParallelInv, HaltRound \/ ReviseInputs
  PROVE  ParallelInv'
<1>1. /\ round' = round \/ round' = [round EXCEPT !.halted = TRUE]
      /\ inputs' = inputs \/ inputs' = inputs + 1
      /\ UNCHANGED <<strategy, saved, work>>
  BY DEF HaltRound, ReviseInputs
<1>2. RoundTypes' /\ OfOneRevision'
  <2>1. RoundTypes'
    <3>1. round' \in [number: Nat, stage: RoundStages, of: Nat, plan: Plans \cup {"none"},
                      halted: BOOLEAN, failed: BOOLEAN, held: SUBSET Results, results: SUBSET Results]
      BY <1>1 DEF ParallelInv, RoundTypes
    <3>2. inputs' \in Nat
      BY <1>1 DEF ParallelInv, RoundTypes
    <3> QED
      BY <1>1, <3>1, <3>2 DEF ParallelInv, RoundTypes
  <2>2. OfOneRevision'
    BY <1>1 DEF ParallelInv, RoundTypes, OfOneRevision
  <2> QED
    BY <2>1, <2>2
<1>3. Gathered' /\ WasAnswered'
  BY <1>1 DEF ParallelInv, RoundTypes, Gathered, WasAnswered, Checkpointed, Jobs, PlannedBatches
<1> QED
  BY <1>2, <1>3 DEF ParallelInv

LEMMA RoundIsGone ==
  ASSUME ParallelInv, CrashRound \/ CloseRound
  PROVE  ParallelInv'
<1>1. /\ round' = [number |-> round.number, stage |-> "idle", of |-> 0, plan |-> "none",
                   halted |-> FALSE, failed |-> FALSE, held |-> {}, results |-> {}]
      /\ work' = [b \in 1..MaxBatch |-> AtRest]
      /\ UNCHANGED <<strategy, inputs, saved>>
  BY DEF CrashRound, CloseRound, NewRound
<1>2. /\ work' \in [Batches -> [at: WorkPlaces, slot: 0..Concurrency]]
      /\ \A b \in Batches : work'[b].at = "pending"
  BY <1>1, AllAtRest
<1>3. RoundTypes' /\ OfOneRevision'
  BY <1>1, <1>2 DEF ParallelInv, RoundTypes, OfOneRevision, RoundStages
<1>4. Gathered' /\ WasAnswered'
  BY <1>1, <1>2 DEF Gathered, WasAnswered, Checkpointed, Jobs, OnTheirWay
<1> QED
  BY <1>3, <1>4 DEF ParallelInv

LEMMA ParallelNextInv == ParallelInv /\ [ParallelNext]_parallel => ParallelInv'
<1> SUFFICES ASSUME ParallelInv, [ParallelNext]_parallel PROVE ParallelInv'
  OBVIOUS
<1>1. ASSUME NEW b \in 1..MaxBatch,
             \/ Launch(b) \/ TakeTurn(b) \/ PassTurn(b) \/ SendBatch(b)
             \/ AnswerBatch(b) \/ SaveBatch(b) \/ ReportBatch(b)
      PROVE  ParallelInv'
  BY <1>1, GoroutineSteps, PassTurnStep, SaveBatchStep, ReportBatchStep DEF Batches
<1>2. CASE UNCHANGED parallel
  BY <1>2 DEF parallel, ParallelInv, RoundTypes, OfOneRevision, Gathered, WasAnswered, Jobs, PlannedBatches,
              Checkpointed
<1> QED
  BY <1>1, <1>2, BeginRoundStep, PlanBatchesStep, ResumeStep, StopLaunchingStep, ReduceStep, ResolveStep,
     PublishStep, HaltOrReviseStep, RoundIsGone DEF ParallelNext

\* What goroutines, session and checkpoint agree on in a parallel generation:
\* of one revision, and each part gathered, saved and resumed as it was answered
\* (parallel_identity.go).
THEOREM GenerationSafe == ParallelSpec => []ParallelInv
BY ParallelInitInv, ParallelNextInv, PTL DEF ParallelSpec

\* What a parallel generation hands on is the result of every batch of the plan,
\* of the inputs the round began with, for any plans, slots, pauses, errors and
\* crashes (publishParallelIdentity and resolveParallelIdentity).
THEOREM PublishedStaysWhole == ParallelSpec => []PublishedIsWhole
<1>1. ParallelInit => PublishedIsWhole
  BY DEF ParallelInit, PublishedIsWhole
<1>2. ParallelInv /\ PublishedIsWhole /\ [ParallelNext]_parallel => PublishedIsWhole'
  <2> SUFFICES ASSUME ParallelInv, PublishedIsWhole, [ParallelNext]_parallel PROVE PublishedIsWhole'
    OBVIOUS
  <2>1. CASE Publish
    <3>1. round.results = {Item(round.plan, b, round.of) : b \in PlannedBatches}
      BY <2>1 DEF Publish, ParallelInv, Gathered
    <3> QED
      BY <2>1, <3>1 DEF Publish, PublishedIsWhole, PlannedBatches
  <2>2. CASE UNCHANGED published
    BY <2>2 DEF PublishedIsWhole
  <2> QED
    BY <2>1, <2>2
       DEF ParallelNext, parallel, BeginRound, PlanBatches, Resume, StopLaunching, Reduce, ResolveIdentities,
           ResolveFails, HaltRound, CrashRound, CloseRound, ReviseInputs, Launch, TakeTurn, PassTurn,
           SendBatch, AnswerBatch, SaveBatch, ReportBatch
<1> QED
  BY <1>1, <1>2, GenerationSafe, PTL DEF ParallelSpec

\* A batch whose answer the checkpoint has is never sent again.
THEOREM SavedStaysSaved == ParallelSpec => []SavedIsNotResent
<1>1. ParallelInv => SavedIsNotResent
  <2> SUFFICES ASSUME ParallelInv, NEW b \in At({"ready", "sent"}), Checkpointed, saved.of = round.of,
                      Item(round.plan, b, round.of) \in saved.items
               PROVE  FALSE
    BY DEF SavedIsNotResent
  <2>1. Item(round.plan, b, round.of) \in round.held
    BY DEF ParallelInv, WasAnswered, Checkpointed
  <2>2. Item(round.plan, b, round.of).batch = b
    BY DEF Item
  <2> QED
    BY <2>1, <2>2 DEF ParallelInv, WasAnswered, At
<1> QED
  BY <1>1, GenerationSafe, PTL

LEMMA LeftOutWhenHalted ==
  FailureSparesOthers <=> \A b \in Batches : work[b].at = "never" => round.halted
BY DEF FailureSparesOthers, At, Batches

\* A batch that fails keeps no other from being sent, unless the run is halted
\* (launchParallelBatches).
THEOREM FailureAlwaysSparesOthers == ParallelSpec => []FailureSparesOthers
<1>1. ParallelInit => FailureSparesOthers
  BY DEF ParallelInit, FailureSparesOthers, At, AtRest
<1>2. ParallelInv /\ FailureSparesOthers /\ [ParallelNext]_parallel => FailureSparesOthers'
  <2> SUFFICES ASSUME ParallelInv, FailureSparesOthers, [ParallelNext]_parallel
               PROVE  \A b \in Batches : work'[b].at = "never" => round'.halted
    BY LeftOutWhenHalted DEF FailureSparesOthers, At, Batches
  <2>1. \A b \in Batches : work[b].at = "never" => round.halted
    BY LeftOutWhenHalted
  <2>2. CASE BeginRound \/ CrashRound \/ CloseRound
    BY <2>2, AllAtRest DEF BeginRound, CrashRound, CloseRound
  <2>3. CASE StopLaunching
    BY <2>3 DEF StopLaunching, MayStop, ParallelInv, RoundTypes
  <2>4. CASE PlanBatches \/ ResolveIdentities \/ ResolveFails \/ Publish \/ HaltRound \/ ReviseInputs
    BY <2>1, <2>4 DEF PlanBatches, ResolveIdentities, ResolveFails, Publish, HaltRound, ReviseInputs,
                      ParallelInv, RoundTypes
  <2>5. CASE Resume
    <3>1. CASE \A i \in round.held : Resumable(i)
      <4>1. \A b \in Batches : work'[b].at \in {"pending", "done"}
        <5>1. work' = Resumed
          BY <2>5, <3>1 DEF Resume
        <5> QED
          BY <5>1 DEF Resumed, AtRest, Batches
      <4> QED
        BY <4>1
    <3>2. CASE ~ \A i \in round.held : Resumable(i)
      <4>1. work' = work /\ round' = [round EXCEPT !.stage = "over", !.failed = TRUE]
        BY <2>5, <3>2 DEF Resume
      <4> QED
        BY <2>1, <4>1 DEF ParallelInv, RoundTypes
    <3> QED
      BY <3>1, <3>2
  <2>6. CASE Reduce
    BY <2>1, <2>6, AllAtRest DEF Reduce, ParallelInv, RoundTypes
  <2>7. ASSUME NEW b \in Batches,
               \/ Launch(b) \/ TakeTurn(b) \/ PassTurn(b) \/ SendBatch(b)
               \/ AnswerBatch(b) \/ SaveBatch(b) \/ ReportBatch(b)
        PROVE  \A c \in Batches : work'[c].at = "never" => round'.halted
    <3>1. \A c \in Batches : work'[c].at = "never" => work[c].at = "never"
      BY <2>7 DEF Launch, TakeTurn, PassTurn, SendBatch, AnswerBatch, SaveBatch, SaveFault, ReportBatch,
                  Moves, GiveBack, ParallelInv, RoundTypes
    <3>2. round'.halted = round.halted
      BY <2>7 DEF Launch, TakeTurn, PassTurn, SendBatch, AnswerBatch, SaveBatch, ReportBatch,
                  ParallelInv, RoundTypes
    <3> QED
      BY <2>1, <3>1, <3>2
  <2>8. CASE UNCHANGED parallel
    BY <2>1, <2>8 DEF parallel
  <2> QED
    BY <2>2, <2>3, <2>4, <2>5, <2>6, <2>7, <2>8 DEF ParallelNext, Batches
<1> QED
  BY <1>1, <1>2, GenerationSafe, PTL DEF ParallelSpec

(***************************************************************************)
(* The histories of terms.                                                 *)
(***************************************************************************)

Words == UNION {a.says : a \in MayBeSaid}
Readings == {""} \cup {a.read : a \in MayBeSaid}
Histories ==
  [reads : [All -> Readings], descs : [All -> SUBSET Words], facts : [All -> SUBSET Words]]
Reply == [serial : BOOLEAN, says : SUBSET Words, read : Readings, since : Nat]
Replies == [All -> Reply]

TermRuns ==
  [stage : {"none", "batches", "characters"}, serial : BOOLEAN, from : Nat, upTo : Nat, lo : Nat,
   hi : Nat, work : Histories, raw : Histories, person : Nat, said : Replies]

TermTypes ==
  /\ termDoc \in [front : Nat, hist : Histories] /\ charFrontier \in Nat /\ personAt \in Nat
  /\ termRun \in TermRuns /\ said \in Replies

\* The history h says what the replies s said, snapshots where they were
\* serial, facts where they were not.
Follows(h, s) ==
  \A e \in All :
    /\ h.descs[e] = IF s[e].serial THEN s[e].says ELSE {}
    /\ h.facts[e] = IF s[e].serial THEN {} ELSE s[e].says
    /\ h.reads[e] = s[e].read
    /\ s[e].says = {} => s[e].read = ""

InBatches(s) == \A e \in All : s[e].says # {} => s[e].since <= e

\* The replies s up to the episodes of kept.
Within(s, kept) == [e \in All |-> IF e \in kept THEN s[e] ELSE NotTold[e]]
AsFacts(h) == [h EXCEPT !.descs = NoTerm.descs, !.facts = h.descs]

\* The replies a run has had are all of its kind and about its episodes.
OfTheRun ==
  /\ InBatches(termRun.said)
  /\ \A e \in All : termRun.said[e].says # {} => /\ e >= termRun.from
                                                 /\ termRun.said[e].serial = termRun.serial
  /\ \A e \in All : termRun.said[e].says = {} => termRun.said[e].read = ""

Before == Within(said, 1..(termRun.from - 1))

Gathering ==
  termRun.stage = "batches" =>
    /\ termRun.from >= 1 /\ termRun.from <= termRun.lo /\ termRun.lo <= termRun.hi
    /\ OfTheRun
    /\ termRun.person = 0 =>
         IF termRun.serial
         THEN Follows(termRun.work, [e \in All |-> IF e < termRun.from THEN said[e] ELSE termRun.said[e]])
         ELSE /\ Follows(termRun.work, Before)
              /\ Follows(AsFacts(termRun.raw), termRun.said)
              /\ termRun.raw.facts = NoTerm.facts

TermInv == TermTypes /\ Follows(termDoc.hist, said) /\ InBatches(said) /\ Gathering
-----------------------------------------------------------------------------
\* The latest of the episodes with something is the last that counts
\* (Latest, by the least distance to the end: no induction over data).
LEMMA LatestIsLast ==
  ASSUME NEW n \in Nat, NEW S \in SUBSET (1..n), S # {}
  PROVE  Latest(S) \in S /\ \A d \in S : d <= Latest(S)
<1> DEFINE T == {n - d : d \in S}
<1>1. T \subseteq Nat /\ T # {}
  <2>1. \A d \in S : d \in 1..n
    OBVIOUS
  <2>2. \A d \in 1..n : n - d \in Nat
    OBVIOUS
  <2> QED
    BY <2>1, <2>2
<1> HIDE DEF T
<1>2. PICK x \in T : \A y \in T : ~ (<<y, x>> \in OpToRel(<, Nat))
  BY <1>1, NatLessThanWellFounded, WFMin
<1>3. \A y \in T : ~ (y < x)
  BY <1>1, <1>2 DEF OpToRel
<1>4. PICK e \in S : x = n - e
  BY DEF T
<1>5. \A d \in S : d <= e
  BY <1>3, <1>4 DEF T
<1> QED
  BY <1>5 DEF Latest

\* The empty history says what no reply said.
LEMMA NothingIsSaid ==
  /\ NoTerm \in Histories /\ NotTold \in Replies /\ Follows(NoTerm, NotTold) /\ InBatches(NotTold)
  /\ \A e \in All : NotTold[e].says = {} /\ NotTold[e].read = ""
<1>1. NoTerm \in Histories
  <2>1. [e \in All |-> ""] \in [All -> Readings]
    BY DEF Readings
  <2>2. [e \in All |-> {}] \in [All -> SUBSET Words]
    OBVIOUS
  <2> QED
    BY <2>1, <2>2 DEF NoTerm, Histories
<1>2. NotTold \in Replies
  BY DEF NotTold, Replies, Reply, Readings
<1> QED
  BY <1>1, <1>2 DEF NoTerm, NotTold, Follows, InBatches

\* Nothing that was said is dropped with a term of which nothing is described.
LEMMA DescribedFollows ==
  ASSUME NEW h \in Histories, NEW s \in Replies, Follows(h, s)
  PROVE  Described(h) = h
<1>1. CASE \A e \in All : h.descs[e] = {} /\ h.facts[e] = {}
  <2>1. \A e \in All : s[e].says = {}
    BY <1>1 DEF Follows
  <2>2. \A e \in All : h.reads[e] = ""
    BY <2>1 DEF Follows
  <2>3. h.reads = NoTerm.reads
    BY <2>2 DEF Histories, NoTerm
  <2>4. h.descs = NoTerm.descs
    BY <1>1 DEF Histories, NoTerm
  <2>5. h.facts = NoTerm.facts
    BY <1>1 DEF Histories, NoTerm
  <2>6. h = NoTerm
    BY <2>3, <2>4, <2>5 DEF Histories, NoTerm
  <2> QED
    BY <1>1, <2>6 DEF Described
<1>2. CASE ~ \A e \in All : h.descs[e] = {} /\ h.facts[e] = {}
  BY <1>2 DEF Described
<1> QED
  BY <1>1, <1>2

\* What is kept of a history for a range of episodes is what was said there.
LEMMA FilteredFollows ==
  ASSUME NEW h \in Histories, NEW s \in Replies, Follows(h, s), NEW kept
  PROVE  /\ Filtered(h, kept) \in Histories /\ Within(s, kept) \in Replies
         /\ Follows(Filtered(h, kept), Within(s, kept))
<1> DEFINE cut == [reads |-> [e \in All |-> IF e \in kept THEN h.reads[e] ELSE ""],
                   descs |-> [e \in All |-> IF e \in kept THEN h.descs[e] ELSE {}],
                   facts |-> [e \in All |-> IF e \in kept THEN h.facts[e] ELSE {}]]
<1>1. cut \in Histories
  <2>1. [e \in All |-> IF e \in kept THEN h.reads[e] ELSE ""] \in [All -> Readings]
    BY DEF Histories, Readings
  <2>2. [e \in All |-> IF e \in kept THEN h.descs[e] ELSE {}] \in [All -> SUBSET Words]
    BY DEF Histories
  <2>3. [e \in All |-> IF e \in kept THEN h.facts[e] ELSE {}] \in [All -> SUBSET Words]
    BY DEF Histories
  <2> QED
    BY <2>1, <2>2, <2>3 DEF Histories
<1>2. Within(s, kept) \in Replies
  BY NothingIsSaid DEF Within, Replies
<1>3. Follows(cut, Within(s, kept))
  <2> SUFFICES ASSUME NEW e \in All
               PROVE  /\ cut.descs[e] = IF Within(s, kept)[e].serial THEN Within(s, kept)[e].says ELSE {}
                      /\ cut.facts[e] = IF Within(s, kept)[e].serial THEN {} ELSE Within(s, kept)[e].says
                      /\ cut.reads[e] = Within(s, kept)[e].read
                      /\ Within(s, kept)[e].says = {} => Within(s, kept)[e].read = ""
    BY DEF Follows
  <2>1. CASE e \in kept
    BY <2>1 DEF Within, Follows
  <2>2. CASE e \notin kept
    BY <2>2 DEF Within, NotTold
  <2> QED
    BY <2>1, <2>2
<1>4. Filtered(h, kept) = Described(cut)
  BY DEF Filtered
<1> HIDE DEF cut
<1>5. Described(cut) = cut
  BY <1>1, <1>2, <1>3, DescribedFollows
<1> QED
  BY <1>1, <1>2, <1>3, <1>4, <1>5

\* s is what was said when s2 is heard after s1: a snapshot replaces, facts are
\* added, and a reading stays until another is given.
HeardAfter(s, s1, s2) ==
  \A e \in All :
    IF s2[e].says = {}
    THEN /\ s[e].says = s1[e].says /\ s[e].read = s1[e].read /\ s2[e].read = ""
         /\ s1[e].says # {} => s[e].serial = s1[e].serial
    ELSE /\ s1[e].says # {} => s1[e].serial = s2[e].serial
         /\ s[e].serial = s2[e].serial
         /\ s[e].says = IF s2[e].serial THEN s2[e].says ELSE s1[e].says \cup s2[e].says
         /\ s[e].read = IF s2[e].read # "" THEN s2[e].read ELSE s1[e].read

\* A delta on top of a history that follows the replies before it follows the
\* replies after it (mergeTermDeltas).
LEMMA DeltaFollows ==
  ASSUME NEW h1 \in Histories, NEW h2 \in Histories, NEW s \in Replies, NEW s1 \in Replies,
         NEW s2 \in Replies, Follows(h1, s1), Follows(h2, s2), HeardAfter(s, s1, s2)
  PROVE  ApplyTermDelta(h1, h2) \in Histories /\ Follows(ApplyTermDelta(h1, h2), s)
<1> DEFINE sum == [reads |-> [e \in All |-> IF h2.reads[e] # "" THEN h2.reads[e] ELSE h1.reads[e]],
                   descs |-> [e \in All |-> IF h2.descs[e] # {} THEN h2.descs[e] ELSE h1.descs[e]],
                   facts |-> [e \in All |-> h1.facts[e] \cup h2.facts[e]]]
<1>1. sum \in Histories
  BY DEF Histories
<1>2. Follows(sum, s)
  <2> SUFFICES ASSUME NEW e \in All
               PROVE  /\ sum.descs[e] = IF s[e].serial THEN s[e].says ELSE {}
                      /\ sum.facts[e] = IF s[e].serial THEN {} ELSE s[e].says
                      /\ sum.reads[e] = s[e].read
                      /\ s[e].says = {} => s[e].read = ""
    BY DEF Follows
  <2>1. /\ h1.descs[e] = IF s1[e].serial THEN s1[e].says ELSE {}
        /\ h1.facts[e] = IF s1[e].serial THEN {} ELSE s1[e].says
        /\ h1.reads[e] = s1[e].read
        /\ s1[e].says = {} => s1[e].read = ""
    BY DEF Follows
  <2>2. /\ h2.descs[e] = IF s2[e].serial THEN s2[e].says ELSE {}
        /\ h2.facts[e] = IF s2[e].serial THEN {} ELSE s2[e].says
        /\ h2.reads[e] = s2[e].read
    BY DEF Follows
  <2>3. /\ sum.descs[e] = IF h2.descs[e] # {} THEN h2.descs[e] ELSE h1.descs[e]
        /\ sum.facts[e] = h1.facts[e] \cup h2.facts[e]
        /\ sum.reads[e] = IF h2.reads[e] # "" THEN h2.reads[e] ELSE h1.reads[e]
    OBVIOUS
  <2> HIDE DEF sum
  <2>4. CASE s2[e].says = {}
    <3>1. /\ s[e].says = s1[e].says /\ s[e].read = s1[e].read /\ s2[e].read = ""
          /\ s1[e].says # {} => s[e].serial = s1[e].serial
      BY <2>4 DEF HeardAfter
    <3> QED
      BY <2>1, <2>2, <2>3, <2>4, <3>1
  <2>5. CASE s2[e].says # {}
    <3>1. /\ s1[e].says # {} => s1[e].serial = s2[e].serial
          /\ s[e].serial = s2[e].serial
          /\ s[e].says = IF s2[e].serial THEN s2[e].says ELSE s1[e].says \cup s2[e].says
          /\ s[e].read = IF s2[e].read # "" THEN s2[e].read ELSE s1[e].read
      BY <2>5 DEF HeardAfter
    <3>2. s2[e].serial \in BOOLEAN /\ s1[e].serial \in BOOLEAN
      BY DEF Replies, Reply
    <3>3. CASE s2[e].serial
      BY <2>1, <2>2, <2>3, <2>5, <3>1, <3>3
    <3>4. CASE ~ s2[e].serial
      BY <2>1, <2>2, <2>3, <2>5, <3>1, <3>4
    <3> QED
      BY <3>3, <3>4
  <2> QED
    BY <2>4, <2>5
<1>3. ApplyTermDelta(h1, h2) = Described(sum)
  BY DEF ApplyTermDelta
<1> HIDE DEF sum
<1>4. Described(sum) = sum
  BY <1>1, <1>2, DescribedFollows
<1> QED
  BY <1>1, <1>2, <1>3, <1>4
-----------------------------------------------------------------------------
\* What readers are shown of a history that follows the replies is what was said.
LEMMA ShownIsSaid ==
  ASSUME TermTypes, Follows(termDoc.hist, said), InBatches(said), NEW b \in All
  PROVE  ShownTerm(b) = Saying(b)
<1> DEFINE h == termDoc.hist
           cap == VisibilityCap(b)
           heard == {e \in 1..cap : said[e].says # {} /\ said[e].since <= b}
           snapshots == {e \in heard : said[e].serial}
           readings == {e \in heard : said[e].read # ""}
           base == Latest(snapshots)
           read == Latest(readings)
           text == (IF base = 0 THEN {} ELSE h.descs[base]) \cup UNION {h.facts[e] : e \in (base + 1)..cap}
           told == UNION {said[e].says : e \in {d \in heard : d >= base}}
<1>1. cap \in Nat /\ cap <= b /\ b \in Nat /\ b <= LastEpisode /\ LastEpisode \in Nat
  BY TermAssumption DEF TermTypes, VisibilityCap, Lower, All
<1> HIDE DEF cap
<1>2. \A e \in 1..cap : e \in All /\ e <= b
  BY <1>1 DEF All
<1>3. heard = {e \in 1..cap : said[e].says # {}}
  <2>1. \A e \in 1..cap : said[e].says # {} => said[e].since \in Nat /\ said[e].since <= e
    BY <1>2 DEF InBatches, TermTypes, Replies, Reply
  <2>2. \A e \in 1..cap : said[e].says # {} => said[e].since <= b
    <3> SUFFICES ASSUME NEW e \in 1..cap, said[e].says # {} PROVE said[e].since <= b
      OBVIOUS
    <3>1. said[e].since \in Nat /\ said[e].since <= e /\ e <= b /\ e \in Nat
      BY <2>1, <1>2
    <3> QED
      BY <3>1, <1>1
  <2> QED
    BY <2>2
<1>4. \A e \in 1..cap :
        /\ h.descs[e] = IF said[e].serial THEN said[e].says ELSE {}
        /\ h.facts[e] = IF said[e].serial THEN {} ELSE said[e].says
        /\ h.reads[e] = said[e].read
        /\ said[e].says = {} => said[e].read = ""
  BY <1>2 DEF Follows
<1> HIDE DEF h
<1>5. heard \in SUBSET (1..cap)
  OBVIOUS
<1>6. {e \in 1..cap : h.descs[e] # {}} = snapshots
  BY <1>3, <1>4
<1>7. {e \in 1..cap : h.reads[e] # ""} = readings
  BY <1>3, <1>4
<1>8. snapshots \in SUBSET (1..cap) /\ snapshots \in SUBSET heard /\ \A e \in snapshots : said[e].serial
  BY <1>5
<1>9. readings \in SUBSET (1..cap) /\ readings \in SUBSET heard
  BY <1>5
<1>10. \A e \in heard : said[e].serial => e \in snapshots
  OBVIOUS
<1>11. \A e \in heard : said[e].says # {}
  OBVIOUS
<1>12. \A e \in 1..cap : said[e].says # {} => e \in heard
  BY <1>3
<1>13. ShownTerm(b) = [says |-> text, read |-> IF text = {} \/ read = 0 THEN "" ELSE h.reads[read]]
  BY <1>6, <1>7 DEF ShownTerm, ProjectTerms, h, cap
<1>14. Saying(b) = [says |-> told, read |-> IF read = 0 THEN "" ELSE said[read].read]
  BY DEF Saying, cap
<1> HIDE DEF heard, snapshots, readings
<1>15. /\ base \in Nat
       /\ base # 0 => base \in snapshots
       /\ \A e \in snapshots : e <= base
  <2>1. CASE snapshots = {}
    BY <2>1 DEF Latest
  <2>2. CASE snapshots # {}
    <3>1. base \in snapshots /\ \A e \in snapshots : e <= base
      BY <2>2, <1>1, <1>8, LatestIsLast
    <3> HIDE DEF base
    <3>2. base \in 1..cap
      BY <3>1, <1>8
    <3> QED
      BY <3>1, <3>2
  <2> QED
    BY <2>1, <2>2
<1>16. read # 0 => read \in readings
  <2>1. CASE readings = {}
    BY <2>1 DEF Latest
  <2>2. CASE readings # {}
    BY <2>2, <1>1, <1>9, LatestIsLast
  <2> QED
    BY <2>1, <2>2
<1> HIDE DEF base, read
<1>17. text = told
  <2>1. ASSUME NEW x \in told PROVE x \in text
    <3>1. PICK e \in heard : e >= base /\ x \in said[e].says
      BY <2>1
    <3>2. e \in 1..cap
      BY <1>5
    <3>3. CASE e = base
      <4>1. said[e].serial /\ base # 0
        BY <3>2, <3>3, <1>8, <1>15
      <4> QED
        BY <4>1, <3>1, <3>2, <3>3, <1>4
    <3>4. CASE e # base
      <4>1. e \in (base + 1)..cap
        BY <3>1, <3>2, <3>4, <1>1, <1>15
      <4>2. ~ said[e].serial
        BY <4>1, <1>10, <1>15, <1>1
      <4>3. x \in h.facts[e]
        BY <4>2, <3>1, <3>2, <1>4
      <4> QED
        BY <4>1, <4>3
    <3> QED
      BY <3>3, <3>4
  <2>2. ASSUME NEW x \in text PROVE x \in told
    <3>1. CASE base # 0 /\ x \in h.descs[base]
      <4>1. base \in heard /\ said[base].serial /\ base \in 1..cap
        BY <3>1, <1>8, <1>15
      <4>2. x \in said[base].says
        BY <3>1, <4>1, <1>4
      <4> QED
        BY <4>1, <4>2, <1>15
    <3>2. CASE \E e \in (base + 1)..cap : x \in h.facts[e]
      <4>1. PICK e \in (base + 1)..cap : x \in h.facts[e]
        BY <3>2
      <4>2. e \in 1..cap /\ e >= base
        BY <1>1, <1>15
      <4>3. x \in said[e].says
        BY <4>1, <4>2, <1>4
      <4>4. e \in heard
        BY <4>2, <4>3, <1>12
      <4> QED
        BY <4>2, <4>3, <4>4
    <3> QED
      BY <2>2, <3>1, <3>2
  <2> HIDE DEF text, told
  <2> QED
    BY <2>1, <2>2
<1>18. read # 0 => told # {}
  <2> SUFFICES ASSUME read # 0 PROVE told # {}
    OBVIOUS
  <2>1. read \in heard /\ read \in 1..cap
    BY <1>9, <1>16
  <2>2. CASE read >= base
    BY <2>1, <2>2, <1>11
  <2>3. CASE read < base
    <3>1. base \in heard
      BY <2>1, <2>3, <1>1, <1>8, <1>15
    <3> QED
      BY <3>1, <1>11, <1>15
  <2> QED
    BY <2>1, <2>2, <2>3, <1>1, <1>15
<1>19. read # 0 => h.reads[read] = said[read].read
  BY <1>4, <1>9, <1>16
<1> HIDE DEF text, told
<1> QED
  BY <1>13, <1>14, <1>17, <1>18, <1>19

-----------------------------------------------------------------------------
\* A novel begins without terms, and nothing was said of them.
LEMMA TermInitInv == TermInit => TermInv
<1> SUFFICES ASSUME TermInit PROVE TermInv
  OBVIOUS
<1>1. NoTermRun \in TermRuns /\ NoTermRun.stage = "none"
  BY NothingIsSaid DEF NoTermRun, TermRuns
<1>2. TermTypes
  BY <1>1, NothingIsSaid DEF TermInit, TermTypes
<1> QED
  BY <1>1, <1>2, NothingIsSaid DEF TermInit, TermInv, Gathering

\* The generation ends without a trace.
LEMMA TermRunEnds ==
  ASSUME TermInv, termRun' = NoTermRun, UNCHANGED <<termDoc, said>>,
         charFrontier' \in Nat, personAt' \in Nat
  PROVE  TermInv'
<1>1. NoTermRun \in TermRuns /\ NoTermRun.stage = "none"
  BY NothingIsSaid DEF NoTermRun, TermRuns
<1> QED
  BY <1>1 DEF TermInv, TermTypes, Gathering

LEMMA BeginTermsKeeps ==
  ASSUME TermInv, NEW from \in All, NEW upTo \in All, NEW serial \in BOOLEAN,
         BeginTerms(from, upTo, serial)
  PROVE  TermInv'
<1> DEFINE merged == IF from <= charFrontier THEN ReplaceFromEpisodeIndex(termDoc.hist, from)
                     ELSE TruncateAfter(termDoc.hist, charFrontier)
           person == IF personAt < from THEN personAt ELSE 0
<1>0. TermTypes /\ Follows(termDoc.hist, said) /\ InBatches(said)
  BY DEF TermInv
<1>1. termRun' = [NoTermRun EXCEPT !.stage = "batches", !.serial = serial,
        !.from = from, !.upTo = upTo, !.lo = from, !.hi = from, !.work = merged, !.person = person]
  BY DEF BeginTerms
<1>2. UNCHANGED <<termDoc, charFrontier, personAt, said>> /\ from \in 1..(charFrontier + 1)
  BY DEF BeginTerms
<1>3. termDoc.hist \in Histories /\ said \in Replies /\ charFrontier \in Nat /\ personAt \in Nat
  BY <1>0 DEF TermTypes
<1>4. merged = Filtered(termDoc.hist, 1..(from - 1))
  <2>1. from > charFrontier => from - 1 = charFrontier
    BY <1>2, <1>3
  <2> QED
    BY <1>2, <1>3, <2>1 DEF ReplaceFromEpisodeIndex, TruncateAfter
<1>5. merged \in Histories /\ Follows(merged, Within(said, 1..(from - 1)))
  BY <1>0, <1>3, <1>4, FilteredFollows
<1>6. person \in Nat /\ from \in Nat /\ upTo \in Nat /\ from >= 1
  BY <1>3 DEF All
<1> HIDE DEF merged, person
<1>7. termRun' = [stage |-> "batches", serial |-> serial, from |-> from, upTo |-> upTo, lo |-> from,
                  hi |-> from, work |-> merged, raw |-> NoTerm, person |-> person, said |-> NotTold]
  BY <1>1 DEF NoTermRun
<1>8. termRun' \in TermRuns
  BY <1>5, <1>6, <1>7, NothingIsSaid DEF TermRuns
<1>9. Within(said, 1..(from - 1)) = [e \in All |-> IF e < from THEN said[e] ELSE NotTold[e]]
  <2>1. \A e \in All : e \in 1..(from - 1) <=> e < from
    BY <1>6 DEF All
  <2> QED
    BY <2>1 DEF Within
<1>10. Follows(AsFacts(NoTerm), NotTold)
  BY NothingIsSaid DEF AsFacts, NoTerm, Follows
<1>11. Gathering'
  <2>1. OfTheRun'
    BY <1>7, NothingIsSaid DEF OfTheRun
  <2>2. CASE serial
    BY <2>1, <2>2, <1>2, <1>5, <1>6, <1>7, <1>9 DEF Gathering
  <2>3. CASE ~ serial
    BY <2>1, <2>3, <1>2, <1>5, <1>6, <1>7, <1>10 DEF Gathering, Before
  <2> QED
    BY <2>2, <2>3
<1>12. TermTypes'
  BY <1>0, <1>2, <1>8 DEF TermTypes
<1> QED
  BY <1>0, <1>2, <1>11, <1>12 DEF TermInv

LEMMA NextBatchKeeps ==
  ASSUME TermInv, NEW lo \in All, NEW hi \in All, NextBatch(lo, hi)
  PROVE  TermInv'
<1>0. TermTypes /\ Gathering /\ termRun \in TermRuns
  BY DEF TermInv, TermTypes
<1>1. /\ termRun.stage = "batches" /\ lo \in {termRun.hi, termRun.hi + 1} /\ lo <= hi
      /\ termRun' = [termRun EXCEPT !.lo = lo, !.hi = hi]
      /\ UNCHANGED <<termDoc, charFrontier, personAt, said>>
  BY DEF NextBatch, KeepsFiles
<1>2. lo \in Nat /\ hi \in Nat
  BY DEF All
<1>3. /\ termRun'.stage = "batches" /\ termRun'.serial = termRun.serial
      /\ termRun'.from = termRun.from /\ termRun'.lo = lo /\ termRun'.hi = hi
      /\ termRun'.work = termRun.work /\ termRun'.raw = termRun.raw
      /\ termRun'.person = termRun.person /\ termRun'.said = termRun.said
  BY <1>0, <1>1 DEF TermRuns
<1>4. termRun' \in TermRuns
  BY <1>0, <1>1, <1>2 DEF TermRuns
<1>5. termRun.from <= lo
  <2>1. termRun.from \in Nat /\ termRun.lo \in Nat /\ termRun.hi \in Nat
    BY <1>0 DEF TermRuns
  <2>2. termRun.from <= termRun.lo /\ termRun.lo <= termRun.hi
    BY <1>0, <1>1 DEF Gathering
  <2> QED
    BY <2>1, <2>2, <1>1, <1>2
<1>6. Gathering'
  BY <1>0, <1>1, <1>3, <1>5 DEF Gathering, OfTheRun, Before
<1> QED
  BY <1>0, <1>1, <1>4, <1>6 DEF TermInv, TermTypes

LEMMA FindPersonKeeps == TermInv /\ FindPerson => TermInv'
<1> SUFFICES ASSUME TermInv, FindPerson PROVE TermInv'
  OBVIOUS
<1> DEFINE merged == IF termRun.serial THEN NoTerm ELSE termRun.work
<1>0. TermTypes /\ Gathering /\ termRun \in TermRuns
  BY DEF TermInv, TermTypes
<1>1. /\ termRun.stage = "batches"
      /\ termRun' = [termRun EXCEPT !.person = termRun.lo, !.work = merged]
      /\ UNCHANGED <<termDoc, charFrontier, personAt, said>>
  BY <1>0 DEF FindPerson, KeepsFiles, TermRuns
<1>2. merged \in Histories /\ termRun.lo \in Nat /\ termRun.from \in Nat
  BY <1>0, NothingIsSaid DEF TermRuns
<1> HIDE DEF merged
<1>3. /\ termRun'.stage = "batches" /\ termRun'.serial = termRun.serial
      /\ termRun'.from = termRun.from /\ termRun'.lo = termRun.lo /\ termRun'.hi = termRun.hi
      /\ termRun'.person = termRun.lo /\ termRun'.said = termRun.said
  BY <1>0, <1>1 DEF TermRuns
<1>4. termRun' \in TermRuns
  BY <1>0, <1>1, <1>2 DEF TermRuns
<1>5. termRun.lo # 0
  BY <1>0, <1>1, <1>2 DEF Gathering
<1>6. Gathering'
  BY <1>0, <1>1, <1>3, <1>5 DEF Gathering, OfTheRun
<1> QED
  BY <1>0, <1>1, <1>4, <1>6 DEF TermInv, TermTypes
-----------------------------------------------------------------------------
\* One answer, as a history and as the replies it stands for.
OneAnswer(e, says, read) == [NoTerm EXCEPT !.descs[e] = says, !.reads[e] = read]
OneReply(e, says, read) ==
  [x \in All |-> IF x = e THEN [serial |-> TRUE, says |-> says, read |-> read, since |-> 0]
                 ELSE NotTold[x]]

\* An answer about an episode says of it what was read there.
LEMMA OneAnswerFollows ==
  ASSUME NEW e \in All, NEW a \in MayBeSaid
  PROVE  /\ OneAnswer(e, a.says, a.read) \in Histories /\ OneReply(e, a.says, a.read) \in Replies
         /\ Follows(OneAnswer(e, a.says, a.read), OneReply(e, a.says, a.read))
<1>1. a.says \in SUBSET Words /\ a.read \in Readings /\ a.says # {}
  BY TermAssumption DEF Words, Readings
<1>2. OneReply(e, a.says, a.read) \in Replies
  BY <1>1, NothingIsSaid DEF OneReply, Replies, Reply
<1> DEFINE r == [x \in All |-> IF x = e THEN a.read ELSE ""]
           d == [x \in All |-> IF x = e THEN a.says ELSE {}]
           f == [x \in All |-> {}]
<1> DEFINE mid == [NoTerm EXCEPT !.descs = d]
           one == OneAnswer(e, a.says, a.read)
<1>3. r \in [All -> Readings] /\ d \in [All -> SUBSET Words] /\ f \in [All -> SUBSET Words]
  BY <1>1 DEF Readings
<1>4. one \in Histories /\ one.descs = d /\ one.facts = f /\ one.reads = r
  <2>1. [NoTerm.descs EXCEPT ![e] = a.says] = d /\ [NoTerm.reads EXCEPT ![e] = a.read] = r
        /\ NoTerm.facts = f
    BY DEF NoTerm
  <2> HIDE DEF r, d, f
  <2>2. one = [[NoTerm EXCEPT !.descs[e] = a.says] EXCEPT !.reads[e] = a.read]
    BY DEF OneAnswer
  <2>3. [NoTerm EXCEPT !.descs[e] = a.says] = mid
    BY <2>1
  <2>4. mid \in Histories /\ mid.descs = d /\ mid.reads = NoTerm.reads /\ mid.facts = NoTerm.facts
    BY <1>3, NothingIsSaid DEF Histories
  <2> HIDE DEF mid
  <2>5. one = [mid EXCEPT !.reads = r]
    BY <2>1, <2>2, <2>3, <2>4
  <2> HIDE DEF one
  <2> QED
    BY <1>3, <2>1, <2>4, <2>5 DEF Histories
<1>5. Follows(OneAnswer(e, a.says, a.read), OneReply(e, a.says, a.read))
  <2> DEFINE t == OneReply(e, a.says, a.read)
  <2>1. \A x \in All :
          /\ d[x] = IF t[x].serial THEN t[x].says ELSE {}
          /\ f[x] = IF t[x].serial THEN {} ELSE t[x].says
          /\ r[x] = t[x].read
          /\ t[x].says = {} => t[x].read = ""
    BY <1>1 DEF OneReply, NotTold
  <2> HIDE DEF r, d, f, t
  <2>2. one.descs = d /\ one.facts = f /\ one.reads = r
    BY <1>4
  <2> HIDE DEF one
  <2>3. Follows(one, t)
    BY <2>1, <2>2 DEF Follows
  <2> QED
    BY <2>3 DEF one, t
<1> QED
  BY <1>2, <1>4, <1>5

\* Gathered facts are a history again.
LEMMA CombinedIsHistory ==
  ASSUME NEW h1 \in Histories, NEW h2 \in Histories
  PROVE  CombineTermFacts(h1, h2) \in Histories
<1> DEFINE sum == [reads |-> [e \in All |-> IF h2.reads[e] # "" THEN h2.reads[e] ELSE h1.reads[e]],
                   descs |-> [e \in All |-> IF h2.descs[e] # {} THEN h2.descs[e] ELSE h1.descs[e]],
                   facts |-> [e \in All |-> h1.facts[e] \cup h2.facts[e]]]
<1>1. sum \in Histories
  BY DEF Histories
<1>2. ApplyTermDelta(h1, h2) = Described(sum)
  BY DEF ApplyTermDelta
<1> HIDE DEF sum
<1>3. ApplyTermDelta(h1, h2) \in Histories
  BY <1>1, <1>2, NothingIsSaid DEF Described
<1>4. [e \in All |-> h1.descs[e] \cup h2.descs[e]] \in [All -> SUBSET Words]
  BY DEF Histories
<1> QED
  BY <1>3, <1>4 DEF CombineTermFacts, Histories

\* Of parallel answers the gathered facts keep what was said about every
\* episode (combineTermFacts).
LEMMA CombineKeepsFacts ==
  ASSUME NEW raw \in Histories, NEW s \in Replies, raw.facts = NoTerm.facts,
         Follows(AsFacts(raw), s), NEW e \in All, NEW a \in MayBeSaid,
         s[e].says # {} => ~ s[e].serial,
         NEW t \in Replies, \A x \in All : x # e => t[x] = s[x],
         ~ t[e].serial, t[e].says = s[e].says \cup a.says,
         t[e].read = IF a.read # "" THEN a.read ELSE s[e].read
  PROVE  LET new == CombineTermFacts(raw, OneAnswer(e, a.says, a.read)) IN
         new \in Histories /\ new.facts = NoTerm.facts /\ Follows(AsFacts(new), t)
<1> DEFINE one == OneAnswer(e, a.says, a.read)
           new == CombineTermFacts(raw, one)
           sum == [reads |-> [x \in All |-> IF one.reads[x] # "" THEN one.reads[x] ELSE raw.reads[x]],
                   descs |-> [x \in All |-> IF one.descs[x] # {} THEN one.descs[x] ELSE raw.descs[x]],
                   facts |-> [x \in All |-> raw.facts[x] \cup one.facts[x]]]
<1>1. one \in Histories
  BY OneAnswerFollows
<1>2. a.says # {}
  BY TermAssumption
<1>3. \A x \in All : /\ one.reads[x] = IF x = e THEN a.read ELSE ""
                     /\ one.descs[x] = IF x = e THEN a.says ELSE {}
                     /\ one.facts[x] = {}
  BY DEF OneAnswer, NoTerm
<1>4. ApplyTermDelta(raw, one) = Described(sum)
  BY DEF ApplyTermDelta
<1> HIDE DEF one
<1>5. sum.descs[e] # {}
  BY <1>2, <1>3
<1>6. Described(sum) = sum
  BY <1>5 DEF Described
<1>7. new = [sum EXCEPT !.descs = [x \in All |-> raw.descs[x] \cup one.descs[x]]]
  BY <1>4, <1>6 DEF CombineTermFacts
<1>8. new = [reads |-> [x \in All |-> IF one.reads[x] # "" THEN one.reads[x] ELSE raw.reads[x]],
             descs |-> [x \in All |-> raw.descs[x] \cup one.descs[x]],
             facts |-> [x \in All |-> raw.facts[x] \cup one.facts[x]]]
  BY <1>7
<1> HIDE DEF new, sum
<1>9. new \in Histories
  BY <1>1, <1>8 DEF Histories
<1>10. new.facts = NoTerm.facts
  <2>1. \A x \in All : raw.facts[x] = {}
    BY DEF NoTerm
  <2> QED
    BY <1>3, <1>8, <2>1 DEF NoTerm
<1>11. \A x \in All : /\ AsFacts(new).descs[x] = {}
                      /\ AsFacts(new).facts[x] = raw.descs[x] \cup one.descs[x]
                      /\ AsFacts(new).reads[x] = IF one.reads[x] # "" THEN one.reads[x] ELSE raw.reads[x]
  BY <1>8 DEF AsFacts, NoTerm
<1>12. \A x \in All : /\ IF s[x].serial THEN s[x].says = {} ELSE TRUE
                      /\ raw.descs[x] = s[x].says
                      /\ raw.reads[x] = s[x].read
                      /\ s[x].says = {} => s[x].read = ""
  <2> TAKE x \in All
  <2>1. AsFacts(raw).descs[x] = {} /\ AsFacts(raw).facts[x] = raw.descs[x]
        /\ AsFacts(raw).reads[x] = raw.reads[x]
    BY DEF AsFacts, NoTerm, Histories
  <2>2. /\ AsFacts(raw).descs[x] = IF s[x].serial THEN s[x].says ELSE {}
        /\ AsFacts(raw).facts[x] = IF s[x].serial THEN {} ELSE s[x].says
        /\ AsFacts(raw).reads[x] = s[x].read
        /\ s[x].says = {} => s[x].read = ""
    BY DEF Follows
  <2> QED
    BY <2>1, <2>2
<1>14. Follows(AsFacts(new), t)
  <2> SUFFICES ASSUME NEW x \in All
               PROVE  /\ AsFacts(new).descs[x] = IF t[x].serial THEN t[x].says ELSE {}
                      /\ AsFacts(new).facts[x] = IF t[x].serial THEN {} ELSE t[x].says
                      /\ AsFacts(new).reads[x] = t[x].read
                      /\ t[x].says = {} => t[x].read = ""
    BY DEF Follows
  <2>0. /\ AsFacts(new).descs[x] = {}
        /\ AsFacts(new).facts[x] = raw.descs[x] \cup one.descs[x]
        /\ AsFacts(new).reads[x] = IF one.reads[x] # "" THEN one.reads[x] ELSE raw.reads[x]
        /\ one.reads[x] = (IF x = e THEN a.read ELSE "") /\ one.descs[x] = (IF x = e THEN a.says ELSE {})
        /\ s[x].serial \in BOOLEAN /\ (s[x].serial => s[x].says = {})
        /\ raw.descs[x] = s[x].says /\ raw.reads[x] = s[x].read
        /\ s[x].says = {} => s[x].read = ""
    BY <1>3, <1>11, <1>12 DEF Replies, Reply
  <2>1. CASE x = e
    <3>1. /\ ~ t[x].serial /\ t[x].says = s[x].says \cup a.says
          /\ t[x].read = IF a.read # "" THEN a.read ELSE s[x].read
      BY <2>1
    <3> QED
      BY <2>0, <2>1, <3>1, <1>2
  <2>2. CASE x # e
    <3>1. t[x] = s[x]
      BY <2>2
    <3> QED
      BY <2>0, <2>2, <3>1
  <2> QED
    BY <2>1, <2>2
<1> QED
  BY <1>9, <1>10, <1>14 DEF new, one

LEMMA TermAnswerKeeps ==
  ASSUME TermInv, NEW e \in All, NEW a \in MayBeSaid, TermAnswer(e, a.says, a.read)
  PROVE  TermInv'
<1> DEFINE one == OneAnswer(e, a.says, a.read)
           heard == Heard(e, a.says, a.read)
           merged == IF ~ termRun.serial THEN termRun.work
                   ELSE IF termRun.person # 0 THEN NoTerm ELSE ApplyTermDelta(termRun.work, one)
           raw == IF termRun.serial THEN termRun.raw ELSE CombineTermFacts(termRun.raw, one)
           replies == [termRun.said EXCEPT ![e] = heard]
<1>0. /\ TermTypes /\ Gathering /\ termRun \in TermRuns /\ said \in Replies
      /\ termRun.stage = "batches"
      /\ UNCHANGED <<termDoc, charFrontier, personAt, said>>
  BY DEF TermInv, TermTypes, TermAnswer, KeepsFiles
<1>1. CASE ~ ValidDate(e)
  <2>1. termRun' = NoTermRun
    BY <1>1 DEF TermAnswer
  <2> QED
    BY <2>1, <1>0, TermRunEnds DEF TermTypes
<1>2. CASE ValidDate(e)
  <2>1. /\ termRun.from \in Nat /\ termRun.from >= 1 /\ termRun.from <= e /\ e \in Nat
        /\ termRun.lo \in Nat /\ termRun.lo <= e /\ termRun.from <= termRun.lo
        /\ termRun.lo <= termRun.hi
    BY <1>0, <1>2 DEF Gathering, TermRuns, ValidDate, All
  <2>2. /\ one \in Histories /\ OneReply(e, a.says, a.read) \in Replies
        /\ Follows(one, OneReply(e, a.says, a.read))
    BY OneAnswerFollows
  <2>3. termRun' = [termRun EXCEPT !.work = merged, !.raw = raw, !.said = replies]
    <3>1. termRun' = IF termRun.serial
            THEN [termRun EXCEPT !.work = IF termRun.person # 0 THEN NoTerm ELSE ApplyTermDelta(@, one),
                                 !.said[e] = heard]
            ELSE [termRun EXCEPT !.raw = CombineTermFacts(@, one), !.said[e] = heard]
      BY <1>2 DEF TermAnswer, OneAnswer
    <3> HIDE DEF one, heard
    <3>2. CASE termRun.serial
      BY <3>1, <3>2, <1>0 DEF TermRuns
    <3>3. CASE ~ termRun.serial
      BY <3>1, <3>3, <1>0 DEF TermRuns
    <3> QED
      BY <3>2, <3>3
  <2>4. /\ a.says \in SUBSET Words /\ a.read \in Readings /\ a.says # {}
        /\ termRun.said \in Replies /\ termRun.serial \in BOOLEAN
        /\ termRun.work \in Histories /\ termRun.raw \in Histories
    BY <1>0, TermAssumption DEF Words, Readings, TermRuns
  <2>5. /\ heard.serial = termRun.serial /\ heard.since = termRun.lo
        /\ heard.says = IF termRun.serial THEN a.says ELSE termRun.said[e].says \cup a.says
        /\ heard.read = IF a.read # "" THEN a.read ELSE termRun.said[e].read
        /\ heard \in Reply
    BY <2>1, <2>4 DEF Heard, Replies, Reply
  <2>6. heard.says # {}
    BY <2>4, <2>5
  <2> HIDE DEF heard, one
  <2>8. replies \in Replies /\ \A x \in All : replies[x] = IF x = e THEN heard ELSE termRun.said[x]
    BY <2>4, <2>5 DEF Replies
  <2> HIDE DEF replies
  <2>9. OfTheRun
    BY <1>0 DEF Gathering
  <2>10. CASE termRun.serial
    <3> DEFINE mixed == [x \in All |-> IF x < termRun.from THEN said[x] ELSE termRun.said[x]]
               mixed2 == [x \in All |-> IF x < termRun.from THEN said[x] ELSE replies[x]]
    <3>1. mixed \in Replies /\ mixed2 \in Replies
      BY <1>0, <2>4, <2>8 DEF Replies
    <3>2. HeardAfter(mixed2, mixed, OneReply(e, a.says, a.read))
      <4> SUFFICES ASSUME NEW x \in All PROVE
            LET s == mixed2  s1 == mixed  s2 == OneReply(e, a.says, a.read) IN
            IF s2[x].says = {}
            THEN /\ s[x].says = s1[x].says /\ s[x].read = s1[x].read /\ s2[x].read = ""
                 /\ s1[x].says # {} => s[x].serial = s1[x].serial
            ELSE /\ s1[x].says # {} => s1[x].serial = s2[x].serial
                 /\ s[x].serial = s2[x].serial
                 /\ s[x].says = IF s2[x].serial THEN s2[x].says ELSE s1[x].says \cup s2[x].says
                 /\ s[x].read = IF s2[x].read # "" THEN s2[x].read ELSE s1[x].read
        BY DEF HeardAfter
      <4>1. CASE x = e
        <5>1. mixed[x] = termRun.said[e] /\ mixed2[x] = heard
          BY <4>1, <2>1, <2>8
        <5>2. LET r == OneReply(e, a.says, a.read)[x] IN r.serial = TRUE /\ r.says = a.says /\ r.read = a.read
          BY <4>1 DEF OneReply
        <5>4. heard.serial = TRUE /\ heard.says = a.says
              /\ heard.read = IF a.read # "" THEN a.read ELSE termRun.said[e].read
          BY <2>4, <2>5, <2>10
        <5> HIDE DEF mixed, mixed2
        <5>3. termRun.said[e].says # {} => termRun.said[e].serial = TRUE
          BY <2>9, <2>10 DEF OfTheRun
        <5> QED
          BY <5>1, <5>2, <5>3, <5>4, <2>4
      <4>2. CASE x # e
        <5>1. mixed[x] = mixed2[x]
          BY <4>2, <2>8
        <5>2. OneReply(e, a.says, a.read)[x].says = {} /\ OneReply(e, a.says, a.read)[x].read = ""
          BY <4>2, NothingIsSaid DEF OneReply
        <5> QED
          BY <5>1, <5>2
      <4> QED
        BY <4>1, <4>2
    <3>3. termRun.person = 0 => merged \in Histories /\ Follows(merged, mixed2)
      <4> SUFFICES ASSUME termRun.person = 0 PROVE merged \in Histories /\ Follows(merged, mixed2)
        OBVIOUS
      <4>1. Follows(termRun.work, mixed)
        BY <1>0, <2>10 DEF Gathering
      <4>2. merged = ApplyTermDelta(termRun.work, one)
        BY <2>10
      <4> HIDE DEF mixed, mixed2, merged
      <4> QED
        BY <4>1, <4>2, <3>1, <3>2, <2>2, <2>4, DeltaFollows
    <3>4. merged \in Histories /\ raw \in Histories /\ raw = termRun.raw
      BY <3>3, <2>4, <2>10, NothingIsSaid
    <3> HIDE DEF merged, raw
    <3>5. termRun' \in TermRuns
      BY <1>0, <2>3, <2>8, <3>4 DEF TermRuns
    <3>6. /\ termRun'.stage = termRun.stage /\ termRun'.serial = termRun.serial
          /\ termRun'.from = termRun.from /\ termRun'.lo = termRun.lo /\ termRun'.hi = termRun.hi
          /\ termRun'.person = termRun.person /\ termRun'.work = merged /\ termRun'.said = replies
      BY <1>0, <2>3 DEF TermRuns
    <3>7. OfTheRun'
      BY <2>1, <2>5, <2>6, <2>8, <2>9, <3>6 DEF OfTheRun, InBatches
    <3>8. Gathering'
      BY <1>0, <2>1, <2>10, <3>3, <3>6, <3>7 DEF Gathering
    <3> QED
      BY <1>0, <3>5, <3>8 DEF TermInv, TermTypes
  <2>11. CASE ~ termRun.serial
    <3>1. merged = termRun.work /\ raw = CombineTermFacts(termRun.raw, one)
      BY <2>11
    <3>2. termRun.said[e].says # {} => ~ termRun.said[e].serial
      BY <2>9, <2>11 DEF OfTheRun
    <3>3. /\ \A x \in All : x # e => replies[x] = termRun.said[x]
          /\ ~ replies[e].serial /\ replies[e].says = termRun.said[e].says \cup a.says
          /\ replies[e].read = IF a.read # "" THEN a.read ELSE termRun.said[e].read
      BY <2>4, <2>5, <2>8, <2>11
    <3> HIDE DEF merged, raw
    <3>4. termRun.person = 0 =>
            raw \in Histories /\ raw.facts = NoTerm.facts /\ Follows(AsFacts(raw), replies)
      <4> SUFFICES ASSUME termRun.person = 0
                   PROVE  raw \in Histories /\ raw.facts = NoTerm.facts /\ Follows(AsFacts(raw), replies)
        OBVIOUS
      <4>1. Follows(AsFacts(termRun.raw), termRun.said) /\ termRun.raw.facts = NoTerm.facts
        BY <1>0, <2>11 DEF Gathering
      <4>2. raw = CombineTermFacts(termRun.raw, OneAnswer(e, a.says, a.read))
        BY <3>1 DEF one
      <4>3. LET new == CombineTermFacts(termRun.raw, OneAnswer(e, a.says, a.read)) IN
            new \in Histories /\ new.facts = NoTerm.facts /\ Follows(AsFacts(new), replies)
        BY <4>1, <2>4, <2>8, <3>2, <3>3, CombineKeepsFacts
      <4> QED
        BY <4>2, <4>3
    <3>5. raw \in Histories
      BY <2>2, <2>4, <3>1, CombinedIsHistory
    <3>6. termRun' \in TermRuns
      BY <1>0, <2>3, <2>4, <2>8, <3>1, <3>5 DEF TermRuns
    <3>7. /\ termRun'.stage = termRun.stage /\ termRun'.serial = termRun.serial
          /\ termRun'.from = termRun.from /\ termRun'.lo = termRun.lo /\ termRun'.hi = termRun.hi
          /\ termRun'.person = termRun.person /\ termRun'.work = termRun.work
          /\ termRun'.said = replies /\ termRun'.raw = raw
      BY <1>0, <2>3, <3>1 DEF TermRuns
    <3>8. OfTheRun'
      BY <2>1, <2>5, <2>6, <2>8, <2>9, <3>7 DEF OfTheRun, InBatches
    <3>9. Gathering'
      BY <1>0, <2>1, <2>11, <3>4, <3>7, <3>8 DEF Gathering, Before
    <3> QED
      BY <1>0, <3>6, <3>9 DEF TermInv, TermTypes
  <2> QED
    BY <2>10, <2>11
<1> QED
  BY <1>1, <1>2
-----------------------------------------------------------------------------
LEMMA SaveTermsKeeps == TermInv /\ SaveTerms => TermInv'
<1> SUFFICES ASSUME TermInv, SaveTerms PROVE TermInv'
  OBVIOUS
<1> DEFINE from == termRun.from
           kept == ReplaceFromEpisodeIndex(termDoc.hist, from)
           known == Within(said, 1..(from - 1))
           after == IF termRun.person # 0 THEN NotTold ELSE termRun.said
           all == [e \in All |-> IF e < from THEN said[e] ELSE after[e]]
           hist == ApplyTermDelta(kept, Generated)
<1>0. /\ TermTypes /\ Gathering /\ termRun \in TermRuns /\ said \in Replies
      /\ termDoc \in [front : Nat, hist : Histories]
      /\ Follows(termDoc.hist, said) /\ InBatches(said)
      /\ termRun.stage = "batches"
  BY DEF TermInv, TermTypes, SaveTerms
<1>1. /\ termDoc' = [front |-> termRun.upTo, hist |-> hist]
      /\ said' = all
      /\ termRun' = [termRun EXCEPT !.stage = "characters"]
      /\ UNCHANGED <<charFrontier, personAt>>
  BY DEF SaveTerms
<1>2. /\ from \in Nat /\ from >= 1 /\ termRun.said \in Replies /\ termRun.upTo \in Nat
      /\ termRun.work \in Histories /\ termRun.raw \in Histories /\ termRun.serial \in BOOLEAN
      /\ OfTheRun
  BY <1>0 DEF TermRuns, Gathering
<1>3. \A e \in All : (e \in 1..(from - 1)) <=> e < from
  BY <1>2 DEF All
<1>4. kept \in Histories /\ known \in Replies /\ Follows(kept, known)
  BY <1>0, FilteredFollows DEF ReplaceFromEpisodeIndex
<1>5. \A e \in All : known[e] = IF e < from THEN said[e] ELSE NotTold[e]
  BY <1>3 DEF Within
<1>6. all \in Replies
  BY <1>0, <1>2, NothingIsSaid DEF Replies
<1>7. \A e \in All : NotTold[e].says = {} /\ NotTold[e].read = ""
  BY NothingIsSaid
<1>8. \A e \in All : termRun.said[e].says # {} => e >= from /\ termRun.said[e].serial = termRun.serial
  BY <1>2 DEF OfTheRun
<1>9. \A e \in All : termRun.said[e].says = {} => termRun.said[e].read = ""
  BY <1>2 DEF OfTheRun
<1>10. \A e \in All : e \in Nat /\ (e < from => ~ (e >= from))
  BY <1>2 DEF All
<1>11. \A e \in All : said[e].says = {} => said[e].read = ""
  BY <1>0 DEF Follows
<1> HIDE DEF kept, known
\* What is merged twice is as if it was merged once.
<1>12. termRun.person = 0 => HeardAfter(all, known, all)
  <2> SUFFICES ASSUME termRun.person = 0, NEW e \in All PROVE
        LET s == all  s1 == known IN
        IF s[e].says = {}
        THEN /\ s[e].says = s1[e].says /\ s[e].read = s1[e].read /\ s[e].read = ""
             /\ s1[e].says # {} => s[e].serial = s1[e].serial
        ELSE /\ s1[e].says # {} => s1[e].serial = s[e].serial
             /\ s[e].serial = s[e].serial
             /\ s[e].says = IF s[e].serial THEN s[e].says ELSE s1[e].says \cup s[e].says
             /\ s[e].read = IF s[e].read # "" THEN s[e].read ELSE s1[e].read
    BY DEF HeardAfter
  <2>1. CASE e < from
    <3>1. all[e] = said[e] /\ known[e] = said[e]
      BY <2>1, <1>5
    <3> HIDE DEF all
    <3> QED
      BY <3>1, <1>11
  <2>2. CASE ~ (e < from)
    <3>1. all[e] = termRun.said[e] /\ known[e].says = {} /\ known[e].read = ""
      BY <2>2, <1>5, <1>7
    <3> HIDE DEF all
    <3> QED
      BY <3>1, <1>9
  <2> QED
    BY <2>1, <2>2
<1>13. hist \in Histories /\ Follows(hist, all)
  <2>1. CASE termRun.person # 0
    <3>1. Generated = NoTerm
      BY <2>1 DEF Generated
    <3>2. HeardAfter(all, known, NotTold)
      BY <2>1, <1>5, <1>7 DEF HeardAfter
    <3> HIDE DEF all
    <3> QED
      BY <3>1, <3>2, <1>4, <1>6, NothingIsSaid, DeltaFollows
  <2>2. CASE termRun.person = 0 /\ termRun.serial
    <3> DEFINE mixed == [e \in All |-> IF e < from THEN said[e] ELSE termRun.said[e]]
    <3>1. Generated = termRun.work /\ mixed = all
      BY <2>2 DEF Generated
    <3>2. Follows(termRun.work, mixed)
      BY <1>0, <2>2 DEF Gathering
    <3> HIDE DEF all, mixed
    <3> QED
      BY <2>2, <3>1, <3>2, <1>2, <1>4, <1>6, <1>12, DeltaFollows
  <2>3. CASE termRun.person = 0 /\ ~ termRun.serial
    <3>1. Generated = ApplyTermDelta(termRun.work, AsFacts(termRun.raw))
      BY <2>3 DEF Generated, ApplyParallelTermFacts, AsFacts
    <3>2. Follows(termRun.work, known) /\ Follows(AsFacts(termRun.raw), termRun.said)
      BY <1>0, <2>3 DEF Gathering, Before, known
    <3>3. AsFacts(termRun.raw) \in Histories
      BY <1>2, NothingIsSaid DEF AsFacts, Histories
    <3>4. HeardAfter(all, known, termRun.said)
      <4> SUFFICES ASSUME NEW e \in All PROVE
            LET s == all  s1 == known  s2 == termRun.said IN
            IF s2[e].says = {}
            THEN /\ s[e].says = s1[e].says /\ s[e].read = s1[e].read /\ s2[e].read = ""
                 /\ s1[e].says # {} => s[e].serial = s1[e].serial
            ELSE /\ s1[e].says # {} => s1[e].serial = s2[e].serial
                 /\ s[e].serial = s2[e].serial
                 /\ s[e].says = IF s2[e].serial THEN s2[e].says ELSE s1[e].says \cup s2[e].says
                 /\ s[e].read = IF s2[e].read # "" THEN s2[e].read ELSE s1[e].read
        BY DEF HeardAfter
      <4>1. CASE e < from
        <5>1. all[e] = said[e] /\ known[e] = said[e] /\ termRun.said[e].says = {}
          BY <4>1, <1>5, <1>8, <1>10
        <5> QED
          BY <5>1, <1>9
      <4>2. CASE ~ (e < from)
        <5>1. all[e] = termRun.said[e] /\ known[e].says = {} /\ known[e].read = ""
          BY <4>2, <2>3, <1>5, <1>7
        <5> HIDE DEF all
        <5> QED
          BY <5>1, <1>9
      <4> QED
        BY <4>1, <4>2
    <3> HIDE DEF all
    <3>5. Generated \in Histories /\ Follows(Generated, all)
      BY <3>1, <3>2, <3>3, <3>4, <1>2, <1>4, <1>6, DeltaFollows
    <3> QED
      BY <2>3, <3>5, <1>4, <1>6, <1>12, DeltaFollows
  <2> QED
    BY <2>1, <2>2, <2>3
<1>14. InBatches(said)'
  <2>1. InBatches(all)
    BY <1>0, <1>2, <1>7 DEF InBatches, OfTheRun
  <2> QED
    BY <2>1, <1>1 DEF InBatches
<1> HIDE DEF hist, all
<1>15. /\ termDoc'.hist = hist /\ termDoc' \in [front : Nat, hist : Histories]
       /\ termRun' \in TermRuns /\ termRun'.stage = "characters"
  BY <1>0, <1>1, <1>2, <1>13 DEF TermRuns
<1>16. TermTypes'
  BY <1>0, <1>1, <1>6, <1>15 DEF TermTypes
<1>17. Follows(termDoc.hist, said)'
  BY <1>1, <1>13, <1>15 DEF Follows
<1>18. Gathering'
  BY <1>15 DEF Gathering
<1> QED
  BY <1>14, <1>16, <1>17, <1>18 DEF TermInv

LEMMA SaveCharactersKeeps == TermInv /\ SaveCharacters => TermInv'
<1> SUFFICES ASSUME TermInv, SaveCharacters PROVE TermInv'
  OBVIOUS
<1>1. termRun.upTo \in Nat /\ termRun.person \in Nat
  BY DEF TermInv, TermTypes, TermRuns
<1> QED
  BY <1>1, TermRunEnds DEF SaveCharacters

LEMMA ClearTermsKeeps == TermInv /\ ClearTerms => TermInv'
<1> SUFFICES ASSUME TermInv, ClearTerms PROVE TermInv'
  OBVIOUS
<1>1. termDoc' \in [front : Nat, hist : Histories] /\ termDoc'.hist = NoTerm
  BY NothingIsSaid DEF ClearTerms
<1>2. TermTypes'
  BY <1>1, NothingIsSaid DEF ClearTerms, TermInv, TermTypes
<1>3. Follows(termDoc.hist, said)' /\ InBatches(said)'
  BY <1>1, NothingIsSaid DEF ClearTerms, Follows, InBatches
<1>4. Gathering'
  BY DEF ClearTerms, Gathering
<1> QED
  BY <1>2, <1>3, <1>4 DEF TermInv

\* Every step of a generation of terms keeps the replies and the histories
\* that are written from them in line.
LEMMA TermNextInv == TermInv /\ [TermNext]_termVars => TermInv'
<1> SUFFICES ASSUME TermInv, [TermNext]_termVars PROVE TermInv'
  OBVIOUS
<1>1. CASE FailTerms \/ TermsAlone
  BY <1>1, TermRunEnds DEF FailTerms, TermsAlone, KeepsFiles, TermInv, TermTypes
<1>2. CASE UNCHANGED termVars
  BY <1>2, ZenonT(60) DEF termVars, TermInv, TermTypes, Follows, InBatches, Gathering, OfTheRun, Before
<1> QED
  BY <1>1, <1>2, BeginTermsKeeps, NextBatchKeeps, TermAnswerKeeps, FindPersonKeeps, SaveTermsKeeps,
     SaveCharactersKeeps, ClearTermsKeeps DEF TermNext

\* Readers are shown what the answers up to their boundary said, for any texts,
\* batch sizes and orders of serial and parallel generations
\* (identity_terms.go).
THEOREM TermsAlwaysFollowTheText == TermSpec => []TermsFollowTheText
<1>1. TermInv => TermsFollowTheText
  BY ShownIsSaid DEF TermInv, TermsFollowTheText
<1> QED
  BY <1>1, TermInitInv, TermNextInv, PTL DEF TermSpec

(***************************************************************************)
(* The usage of a run.                                                     *)
(***************************************************************************)

CallPhases == {"idle", "asking", "pausing", "record", "done"}
Call == [phase: CallPhases, turn: Nat, attempt: Nat, schema: BOOLEAN,
         spent: Nat, total: Nat, status: {"none", "completed", "failed"}]
Charge == [all: Nat, seen: Nat, answers: Nat]

UsageTypes ==
  /\ calls \in [Runs -> Call]
  /\ billed \in [Runs -> Charge]
  /\ rows \subseteq [run: Runs, status: {"none", "completed", "failed"}, tokens: Nat]

\* What a run has counted so far is what the responses told: all of it for
\* proofreading, with the chat under way; at least the answers for the
\* assistant.  What was charged without being told is in no count.
Counted(r) ==
  /\ billed[r].answers <= billed[r].seen /\ billed[r].seen <= billed[r].all
  /\ calls[r].phase = "idle" => billed[r].all = 0
  /\ calls[r].total <= billed[r].all
  /\ Kinds[r] = "proofread" =>
       /\ calls[r].phase \in {"idle", "asking", "pausing"} =>
            calls[r].total + calls[r].spent = billed[r].seen
       /\ calls[r].phase = "record" => calls[r].total = billed[r].seen
  /\ Kinds[r] = "assistant" =>
       /\ calls[r].phase \in {"idle", "asking", "pausing"} => calls[r].total >= billed[r].answers
       /\ calls[r].phase = "record" /\ calls[r].status = "completed" =>
            calls[r].total >= billed[r].answers

\* A row is written after the last charge of its run.
RowTells(x) ==
  /\ calls[x.run].phase = "done"
  /\ Kinds[x.run] = "proofread" => x.tokens = billed[x.run].seen
  /\ x.status = "completed" => x.tokens >= billed[x.run].answers
  /\ x.tokens <= billed[x.run].all

UsageInv ==
  /\ UsageTypes
  /\ \A r \in Runs : Counted(r)
  /\ \A x \in rows : RowTells(x)

LEMMA UsageInitInv == UsageInit => UsageInv
BY UsageAssumption DEF UsageInit, UsageInv, UsageTypes, Counted, RowTells, Call, Charge, CallPhases

\* A step of run r's client: it has no row yet.
LEMMA ClientStep ==
  ASSUME UsageInv, NEW r \in Runs, calls[r].phase # "done",
         calls' \in [Runs -> Call], billed' \in [Runs -> Charge], rows' = rows,
         \A q \in Runs \ {r} : calls'[q] = calls[q] /\ billed'[q] = billed[q],
         Counted(r)'
  PROVE  UsageInv'
<1>1. UsageTypes'
  BY DEF UsageInv, UsageTypes
<1>2. ASSUME NEW q \in Runs PROVE Counted(q)'
  BY <1>2 DEF UsageInv, Counted
<1>3. ASSUME NEW x \in rows' PROVE RowTells(x)'
  BY <1>3 DEF UsageInv, UsageTypes, RowTells
<1> QED
  BY <1>1, <1>2, <1>3 DEF UsageInv

\* An error ends a run and leaves the others alone.
LEMMA BrokenCall ==
  ASSUME UsageTypes, NEW r \in Runs, NEW m \in Nat, Broken(r, m)
  PROVE  /\ calls' \in [Runs -> Call]
         /\ \A q \in Runs \ {r} : calls'[q] = calls[q]
<1> DEFINE total == IF Kinds[r] = "proofread" THEN calls[r].total + SpentOn(r, m) ELSE 0
           broken == [calls[r] EXCEPT !.phase = "record", !.status = "failed", !.total = total]
<1>1. calls[r] \in Call /\ calls \in [Runs -> Call]
  BY DEF UsageTypes
<1>2. total \in Nat
  BY <1>1 DEF SpentOn, Call
<1>3. broken \in Call
  <2> HIDE DEF total
  <2> QED
    BY <1>1, <1>2 DEF Call, CallPhases
<1>4. calls' = [calls EXCEPT ![r] = broken]
  BY <1>1, ZenonT(60) DEF Broken
<1> HIDE DEF broken
<1> QED
  BY <1>1, <1>3, <1>4

\* A chat that ends well adds what it knows of to its run.
LEMMA AnsweredCall ==
  ASSUME UsageTypes, NEW r \in Runs, NEW m \in Nat, Answered(r, m)
  PROVE  /\ calls' \in [Runs -> Call]
         /\ \A q \in Runs \ {r} : calls'[q] = calls[q]
         /\ calls'[r].total = calls[r].total + SpentOn(r, m) /\ calls'[r].spent = 0
         /\ calls'[r].phase \in {calls[r].phase, "record"}
<1> DEFINE total == calls[r].total + SpentOn(r, m)
           schema == Kinds[r] = "proofread"
           next == [calls[r] EXCEPT !.total = total, !.spent = 0, !.attempt = 0,
                      !.turn = @ + 1, !.schema = schema]
           Ended(s) == [next EXCEPT !.phase = "record", !.status = s]
<1>1. calls[r] \in Call /\ calls \in [Runs -> Call]
  BY DEF UsageTypes
<1>2. total \in Nat
  BY <1>1 DEF SpentOn, Call
<1>3. schema \in BOOLEAN
  OBVIOUS
<1>4. /\ next \in Call /\ next.total = total /\ next.spent = 0 /\ next.phase = calls[r].phase
  <2>1. 0 \in Nat /\ calls[r].turn + 1 \in Nat
    BY <1>1 DEF Call
  <2> HIDE DEF total, schema
  <2> QED
    BY <1>1, <1>2, <1>3, <2>1, ZenonT(60) DEF Call
<1>5. \A s \in {"completed", "failed"} :
        Ended(s) \in Call /\ Ended(s).total = total /\ Ended(s).spent = 0 /\ Ended(s).phase = "record"
  <2> HIDE DEF next, total
  <2> QED
    BY <1>4, ZenonT(60) DEF Call, CallPhases
<1>6. PICK k \in {next, Ended("completed"), Ended("failed")} : calls' = [calls EXCEPT ![r] = k]
  BY ZenonT(60) DEF Answered
<1>7. k \in Call /\ k.total = total /\ k.spent = 0 /\ k.phase \in {calls[r].phase, "record"}
  <2> HIDE DEF next, total, Ended
  <2> QED
    BY <1>4, <1>5, <1>6
<1>8. calls'[r] = k /\ calls' \in [Runs -> Call] /\ \A q \in Runs \ {r} : calls'[q] = calls[q]
  BY <1>1, <1>6, <1>7
<1> QED
  BY <1>7, <1>8

\* A request is charged to its run.
LEMMA BilledCharge ==
  ASSUME UsageTypes, NEW r \in Runs, NEW n \in Nat, NEW m \in Nat, NEW k \in Nat,
         Billed(r, n, m, k)
  PROVE  /\ billed' \in [Runs -> Charge]
         /\ \A q \in Runs \ {r} : billed'[q] = billed[q]
         /\ billed'[r] = [all |-> billed[r].all + n, seen |-> billed[r].seen + m,
                          answers |-> billed[r].answers + k]
<1>1. billed[r] \in Charge /\ billed \in [Runs -> Charge]
  BY DEF UsageTypes
<1> DEFINE charge == [all |-> billed[r].all + n, seen |-> billed[r].seen + m,
                      answers |-> billed[r].answers + k]
<1>2. charge \in Charge
  BY <1>1 DEF Charge
<1>3. billed' = [billed EXCEPT ![r] = charge]
  BY DEF Billed
<1> HIDE DEF charge
<1>4. billed' \in [Runs -> Charge] /\ billed'[r] = charge
        /\ \A q \in Runs \ {r} : billed'[q] = billed[q]
  BY <1>1, <1>2, <1>3
<1> QED
  BY <1>4 DEF charge

LEMMA UsageNextInv == UsageInv /\ [UsageNext]_usage => UsageInv'
<1> SUFFICES ASSUME UsageInv, [UsageNext]_usage PROVE UsageInv'
  OBVIOUS
<1> USE UsageAssumption
<1>1. ASSUME NEW r \in Runs, Begin(r) PROVE UsageInv'
  <2>0. calls[r].phase # "done" /\ rows' = rows
    BY <1>1 DEF Begin
  <2>1. calls' \in [Runs -> Call]
    <3>1. (Kinds[r] = "proofread") \in BOOLEAN
      OBVIOUS
    <3>2. [calls[r] EXCEPT !.phase = "asking", !.schema = Kinds[r] = "proofread"] \in Call
      BY <3>1, ZenonT(60) DEF UsageInv, UsageTypes, Call, CallPhases
    <3> QED
      BY <1>1, <3>2 DEF Begin, UsageInv, UsageTypes
  <2>3. billed' \in [Runs -> Charge]
    BY <1>1 DEF Begin, UsageInv, UsageTypes, Charge
  <2>4. \A q \in Runs \ {r} : calls'[q] = calls[q] /\ billed'[q] = billed[q]
    BY <1>1 DEF Begin, UsageInv, UsageTypes
  <2>2. Counted(r)'
    BY <1>1 DEF Begin, UsageInv, UsageTypes, Call, Charge, CallPhases, Counted
  <2> QED
    BY <2>0, <2>1, <2>2, <2>3, <2>4, ClientStep
<1>2. ASSUME NEW r \in Runs, Response(r) PROVE UsageInv'
  <2>0. /\ calls[r].phase = "asking" /\ rows' = rows /\ Billed(r, 1, 1, 1)
        /\ Answered(r, 1) \/ Broken(r, 1)
    BY <1>2 DEF Response
  <2>1. calls' \in [Runs -> Call]
    <3>1. CASE Broken(r, 1)
      BY <3>1, BrokenCall DEF UsageInv
    <3>2. CASE Answered(r, 1)
      BY <3>2, AnsweredCall DEF UsageInv
    <3> QED
      BY <2>0, <3>1, <3>2
  <2>2. billed' \in [Runs -> Charge]
    BY <2>0, BilledCharge DEF UsageInv
  <2>3. \A q \in Runs \ {r} : calls'[q] = calls[q] /\ billed'[q] = billed[q]
    <3>1. \A q \in Runs \ {r} : calls'[q] = calls[q]
      BY <2>0, AnsweredCall, BrokenCall DEF UsageInv
    <3> QED
      BY <2>0, <3>1, BilledCharge DEF UsageInv
  <2>4. Counted(r)'
    <3>1. billed'[r] = [all |-> billed[r].all + 1, seen |-> billed[r].seen + 1,
                        answers |-> billed[r].answers + 1]
      BY <2>0, BilledCharge DEF UsageInv
    <3>2. CASE Broken(r, 1)
      BY <2>0, <3>1, <3>2 DEF Broken, SpentOn, UsageInv, UsageTypes, Call, Charge, CallPhases, Counted
    <3>3. CASE Answered(r, 1)
      <4>1. /\ calls'[r].total = calls[r].total + SpentOn(r, 1) /\ calls'[r].spent = 0
            /\ calls'[r].phase \in {"asking", "record"}
        BY <2>0, <3>3, AnsweredCall DEF UsageInv
      <4> QED
        BY <2>0, <3>1, <4>1 DEF SpentOn, UsageInv, UsageTypes, Call, Charge, Counted
    <3> QED
      BY <2>0, <3>2, <3>3
  <2> QED
    BY <2>0, <2>1, <2>2, <2>3, <2>4, ClientStep
<1>3. ASSUME NEW r \in Runs, Refused(r) PROVE UsageInv'
  <2>0. PICK n \in Nat, m \in Nat :
          /\ m <= n /\ Broken(r, m)
          /\ \/ Billed(r, n, m, 0) /\ calls[r].phase = "asking"
             \/ UNCHANGED billed /\ m = 0 /\ calls[r].phase = "pausing"
    <3>1. ASSUME NEW c \in FailedCharges, Billed(r, c[1], c[2], 0), Broken(r, c[2])
          PROVE  \E n, m \in Nat : m <= n /\ Broken(r, m) /\ Billed(r, n, m, 0)
      BY <3>1 DEF FailedCharges
    <3> QED
      BY <1>3, <3>1 DEF Refused
  <2>1. calls[r].phase # "done" /\ rows' = rows
    BY <1>3 DEF Refused
  <2>2. calls' \in [Runs -> Call]
    BY <2>0, BrokenCall DEF UsageInv
  <2>3. billed' \in [Runs -> Charge]
    BY <2>0, BilledCharge DEF UsageInv, UsageTypes
  <2>4. \A q \in Runs \ {r} : calls'[q] = calls[q] /\ billed'[q] = billed[q]
    BY <2>0, BrokenCall, BilledCharge DEF UsageInv
  <2>5. Counted(r)'
    BY <2>0 DEF Billed, Broken, SpentOn, UsageInv, UsageTypes, Call, Charge, CallPhases, Counted
  <2> QED
    BY <2>1, <2>2, <2>3, <2>4, <2>5, ClientStep
<1>4. ASSUME NEW r \in Runs, Busy(r) PROVE UsageInv'
  <2> PICK c \in FailedCharges :
        /\ Billed(r, c[1], c[2], 0)
        /\ \/ Broken(r, c[2])
           \/ calls' = [calls EXCEPT ![r].phase = "pausing", ![r].attempt = @ + 1,
                          ![r].spent = SpentOn(r, c[2])]
    BY <1>4 DEF Busy
  <2> DEFINE n == c[1]
             m == c[2]
  <2> n \in Nat /\ m \in Nat /\ m <= n
    BY DEF FailedCharges
  <2>5. Billed(r, n, m, 0) /\ (Broken(r, m) \/ calls' = [calls EXCEPT ![r].phase = "pausing",
                                 ![r].attempt = @ + 1, ![r].spent = SpentOn(r, m)])
    OBVIOUS
  <2> HIDE DEF n, m
  <2>0. calls[r].phase = "asking" /\ rows' = rows
    BY <1>4 DEF Busy
  <2>1. calls' \in [Runs -> Call]
    <3>1. CASE Broken(r, m)
      BY <3>1, BrokenCall DEF UsageInv
    <3>2. CASE calls' = [calls EXCEPT ![r].phase = "pausing", ![r].attempt = @ + 1,
                          ![r].spent = SpentOn(r, m)]
      BY <3>2 DEF SpentOn, UsageInv, UsageTypes, Call, CallPhases
    <3> QED
      BY <2>5, <3>1, <3>2
  <2>2. billed' \in [Runs -> Charge]
    BY <2>5, BilledCharge DEF UsageInv
  <2>3. \A q \in Runs \ {r} : calls'[q] = calls[q] /\ billed'[q] = billed[q]
    <3>1. \A q \in Runs \ {r} : calls'[q] = calls[q]
      BY <2>5 DEF Broken, UsageInv, UsageTypes
    <3> QED
      BY <2>5, <3>1, BilledCharge DEF UsageInv
  <2>4. Counted(r)'
    BY <2>0, <2>5 DEF Billed, Broken, SpentOn, UsageInv, UsageTypes, Call, Charge, CallPhases, Counted
  <2> QED
    BY <2>0, <2>1, <2>2, <2>3, <2>4, ClientStep
<1>5. ASSUME NEW r \in Runs, Again(r) \/ WithoutSchema(r) PROVE UsageInv'
  <2>0. calls[r].phase # "done" /\ rows' = rows
    BY <1>5 DEF Again, WithoutSchema
  <2>1. calls' \in [Runs -> Call]
    <3>1. /\ [calls[r] EXCEPT !.phase = "asking"] \in Call
          /\ [calls[r] EXCEPT !.schema = FALSE, !.attempt = 0] \in Call
      BY DEF UsageInv, UsageTypes, Call, CallPhases
    <3> QED
      BY <1>5, <3>1 DEF Again, WithoutSchema, UsageInv, UsageTypes
  <2>3. billed' = billed /\ billed' \in [Runs -> Charge]
    BY <1>5 DEF Again, WithoutSchema, UsageInv, UsageTypes
  <2>4. \A q \in Runs \ {r} : calls'[q] = calls[q] /\ billed'[q] = billed[q]
    BY <1>5 DEF Again, WithoutSchema, UsageInv, UsageTypes
  <2>2. Counted(r)'
    <3>1. calls[r] \in Call /\ calls \in [Runs -> Call]
      BY DEF UsageInv, UsageTypes
    <3>2. /\ calls[r].phase \in {"asking", "pausing"} /\ calls'[r].phase = "asking"
          /\ calls'[r].total = calls[r].total /\ calls'[r].spent = calls[r].spent
      BY <1>5, <3>1 DEF Again, WithoutSchema, Call
    <3> QED
      BY <2>3, <3>2 DEF UsageInv, Counted
  <2> QED
    BY <2>0, <2>1, <2>2, <2>3, <2>4, ClientStep
<1>6. ASSUME NEW r \in Runs, Record(r) PROVE UsageInv'
  <2>1. /\ UsageTypes' /\ billed' = billed
        /\ calls'[r].phase = "done" /\ calls'[r].total = calls[r].total
        /\ \A q \in Runs \ {r} : calls'[q] = calls[q]
    BY <1>6 DEF Record, UsageRow, UsageInv, UsageTypes, Call, Charge, CallPhases
  <2>2. ASSUME NEW q \in Runs PROVE Counted(q)'
    BY <2>1 DEF UsageInv, Counted
  <2>3. ASSUME NEW x \in rows' PROVE RowTells(x)'
    <3>1. CASE x \in rows
      BY <2>1, <3>1 DEF UsageInv, UsageTypes, RowTells
    <3>2. CASE x = UsageRow(r)
      BY <1>6, <2>1, <3>2 DEF Record, UsageRow, UsageInv, UsageTypes, Call, Charge, Counted, RowTells
    <3> QED
      BY <1>6, <3>1, <3>2 DEF Record
  <2> QED
    BY <2>1, <2>2, <2>3 DEF UsageInv
<1>7. ASSUME NEW r \in Runs, RecordFails(r) PROVE UsageInv'
  <2>0. calls[r].phase # "done" /\ rows' = rows
    BY <1>7 DEF RecordFails
  <2>1. calls' \in [Runs -> Call]
    <3>1. [calls[r] EXCEPT !.phase = "done"] \in Call
      BY DEF UsageInv, UsageTypes, Call, CallPhases
    <3> QED
      BY <1>7, <3>1 DEF RecordFails, UsageInv, UsageTypes
  <2>3. billed' = billed /\ billed' \in [Runs -> Charge]
    BY <1>7 DEF RecordFails, UsageInv, UsageTypes
  <2>4. \A q \in Runs \ {r} : calls'[q] = calls[q] /\ billed'[q] = billed[q]
    BY <1>7 DEF RecordFails, UsageInv, UsageTypes
  <2>2. Counted(r)'
    <3>1. calls[r] \in Call /\ calls \in [Runs -> Call]
      BY DEF UsageInv, UsageTypes
    <3>2. calls'[r].phase = "done" /\ calls'[r].total = calls[r].total
      BY <1>7, <3>1 DEF RecordFails, Call
    <3> QED
      BY <2>3, <3>2 DEF UsageInv, Counted
  <2> QED
    BY <2>0, <2>1, <2>2, <2>3, <2>4, ClientStep
<1>8. ASSUME PruneUsage PROVE UsageInv'
  BY <1>8 DEF PruneUsage, UsageInv, UsageTypes, Counted
<1>9. ASSUME Restart PROVE UsageInv'
  <2>1. UsageTypes' /\ \A r \in Runs :
          \/ calls'[r] = calls[r] /\ calls[r].phase = "idle"
          \/ calls'[r] = [calls[r] EXCEPT !.phase = "done"]
    BY <1>9 DEF Restart, UsageInv, UsageTypes, Call, CallPhases
  <2>2. ASSUME NEW r \in Runs PROVE Counted(r)'
    BY <1>9, <2>1 DEF Restart, UsageInv, UsageTypes, Call, Counted
  <2>3. ASSUME NEW x \in rows' PROVE RowTells(x)'
    BY <1>9, <2>1 DEF Restart, UsageInv, UsageTypes, Call, RowTells
  <2> QED
    BY <2>1, <2>2, <2>3 DEF UsageInv
<1>10. ASSUME NEW schema \in Schemas, FileReplaced(schema) PROVE UsageInv'
  BY <1>10 DEF FileReplaced, UsageInv, UsageTypes, Counted
<1>11. CASE UNCHANGED usage
  BY <1>11 DEF usage, UsageInv, UsageTypes, Counted, RowTells
<1> QED
  BY <1>1, <1>2, <1>3, <1>4, <1>5, <1>6, <1>7, <1>8, <1>9, <1>10, <1>11 DEF UsageNext

\* A row of the usage tells what the responses of its run told, at least its
\* answers and never more than was charged, for any number of runs, retries,
\* answers and lost responses (GenerateOpenRouterChat, recordUsage).
THEOREM UsageSafe == UsageSpec => []BilledIsRecorded
<1>1. UsageInv => BilledIsRecorded
  BY DEF UsageInv, BilledIsRecorded, UsageShown, RowTells
<1> QED
  BY <1>1, UsageInitInv, UsageNextInv, PTL DEF UsageSpec

(***************************************************************************)
(* The keys of the AI settings.                                            *)
(***************************************************************************)

\* The key that is stored is the one that was meant, under the passphrase it was
\* given under, or in plain text; a key that was meant in plain text may have
\* been sealed since.
Fits(stored, m) == stored.key = m.key /\ (stored.under = m.under \/ m.under = "")

KeysFit(doc, m) ==
  /\ \A v \in Providers : Fits(doc.providers[v], m[v])
  /\ \A i \in DOMAIN doc.profiles : Fits(doc.profiles[i].stored, m[doc.profiles[i].id])
  /\ \A id \in ProfileIds \ Listed(doc) : m[id] = NoKey

SettingsTypes ==
  /\ phrase \in Phrases \cup {""}
  /\ checked \in [Tabs -> PutRequests \cup {NotAsked}]
  /\ meant \in [KeySlots -> KeyRecords]

SettingsInv == SettingsTypes /\ WellFormed(aiDoc) /\ KeysFit(aiDoc, meant)
-----------------------------------------------------------------------------
\* Having no key is stored like a key.
LEMMA NoKeyIsAKey == NoKey \in KeyRecords
  BY DEF NoKey, KeyRecords

\* The profile of an id is the only one that has it.
LEMMA ProfileIsFound ==
  ASSUME NEW doc, WellFormed(doc), NEW i \in DOMAIN doc.profiles
  PROVE  ProfileOf(doc, doc.profiles[i].id) = doc.profiles[i]
<1> DEFINE id == doc.profiles[i].id
           P(j) == j \in DOMAIN doc.profiles /\ doc.profiles[j].id = id
                     /\ \A k \in 1..(j - 1) : doc.profiles[k].id # id
<1>1. DOMAIN doc.profiles = 1..Len(doc.profiles) /\ Len(doc.profiles) \in Nat
  <2>1. doc \in Documents
    BY DEF WellFormed
  <2>2. doc.profiles \in Seq(ProfileRecords)
    BY <2>1 DEF Documents
  <2> QED
    BY <2>2
<1>2. \A k \in 1..(i - 1) : doc.profiles[k].id # id
  <2>1. ASSUME NEW k \in 1..(i - 1) PROVE doc.profiles[k].id # id
    <3>1. k \in DOMAIN doc.profiles /\ k # i
      BY <1>1
    <3> QED
      BY <3>1 DEF WellFormed
  <2> QED
    BY <2>1
<1>3. P(i)
  BY <1>2
<1>4. P(CHOOSE j \in DOMAIN doc.profiles :
          doc.profiles[j].id = id /\ \A k \in 1..(j - 1) : doc.profiles[k].id # id)
  BY <1>3
<1> QED
  BY <1>4 DEF ProfileOf, WellFormed

LEMMA ProfileIsListed ==
  ASSUME NEW doc, WellFormed(doc), NEW id \in Listed(doc)
  PROVE  \E i \in DOMAIN doc.profiles : ProfileOf(doc, id) = doc.profiles[i] /\ doc.profiles[i].id = id
BY ProfileIsFound DEF Listed
-----------------------------------------------------------------------------
(* Reads                                                                    *)

\* What the first read with a passphrase encrypts is still the key that was meant.
LEMMA SealedFits ==
  ASSUME NEW stored \in KeyRecords, NEW m \in KeyRecords, Fits(stored, m),
         stored.key = "" => stored = NoKey, NEW p \in Phrases
  PROVE  /\ Sealed(stored, p) \in KeyRecords
         /\ Fits(Sealed(stored, p), m)
         /\ Sealed(stored, p).key = "" => Sealed(stored, p) = NoKey
<1>1. CASE stored.under = "" /\ stored # NoKey
  <2> DEFINE x == Sealed(stored, p)
  <2>1. x = [key |-> stored.key, under |-> p]
    BY <1>1 DEF Sealed, Encrypt
  <2>2. stored.key # "" /\ m.under = ""
    BY <1>1 DEF Fits
  <2>3. stored.key \in Keys \cup {""}
    BY DEF KeyRecords
  <2>4. [key |-> stored.key, under |-> p] \in KeyRecords
    BY <2>3 DEF KeyRecords
  <2> HIDE DEF x
  <2>5. x.key = stored.key /\ x.under = p
    BY <2>1
  <2>6. x \in KeyRecords
    BY <2>1, <2>4
  <2>7. Fits(x, m)
    BY <2>2, <2>5 DEF Fits
  <2> QED
    BY <2>2, <2>5, <2>6, <2>7 DEF x
<1>2. CASE ~ (stored.under = "" /\ stored # NoKey)
  <2>1. Sealed(stored, p) = stored
    BY <1>2 DEF Sealed
  <2> QED
    BY <2>1
<1> QED
  BY <1>1, <1>2

Good(doc, m) == WellFormed(doc) /\ KeysFit(doc, m)

\* Providers and profiles of a document that is good for the keys m.
GoodProviders(prov, m) ==
  /\ prov \in [Providers -> KeyRecords]
  /\ \A v \in Providers : Fits(prov[v], m[v]) /\ (prov[v].key = "" => prov[v] = NoKey)

GoodProfiles(prof, m) ==
  /\ prof \in Seq(ProfileRecords)
  /\ \A i, j \in DOMAIN prof : prof[i].id = prof[j].id => i = j
  /\ \A i \in DOMAIN prof :
       /\ prof[i].stored.key = "" => prof[i].stored = NoKey
       /\ Fits(prof[i].stored, m[prof[i].id])
  /\ \A id \in ProfileIds : (\A i \in DOMAIN prof : prof[i].id # id) => m[id] = NoKey

LEMMA GoodIs ==
  ASSUME NEW doc, NEW m
  PROVE  Good(doc, m) <=>
           /\ doc \in Documents /\ doc.selected \in Listed(doc)
           /\ GoodProviders(doc.providers, m) /\ GoodProfiles(doc.profiles, m)
<1>1. doc \in Documents => /\ doc.providers \in [Providers -> KeyRecords]
                           /\ doc.profiles \in Seq(ProfileRecords)
  BY DEF Documents
<1>2. \A id \in ProfileIds : id \notin Listed(doc) <=> \A i \in DOMAIN doc.profiles : doc.profiles[i].id # id
  BY DEF Listed
<1>3. ASSUME Good(doc, m)
      PROVE  /\ doc \in Documents /\ doc.selected \in Listed(doc)
             /\ GoodProviders(doc.providers, m) /\ GoodProfiles(doc.profiles, m)
  <2>1. WellFormed(doc) /\ KeysFit(doc, m)
    BY <1>3 DEF Good
  <2>2. doc \in Documents /\ doc.selected \in Listed(doc)
    BY <2>1 DEF WellFormed
  <2>3. GoodProviders(doc.providers, m)
    BY <1>1, <2>1, <2>2 DEF WellFormed, KeysFit, GoodProviders
  <2>4. GoodProfiles(doc.profiles, m)
    BY <1>1, <1>2, <2>1, <2>2 DEF WellFormed, KeysFit, GoodProfiles
  <2> QED
    BY <2>2, <2>3, <2>4
<1>4. ASSUME doc \in Documents, doc.selected \in Listed(doc),
             GoodProviders(doc.providers, m), GoodProfiles(doc.profiles, m)
      PROVE  Good(doc, m)
  <2>1. WellFormed(doc)
    BY <1>4 DEF WellFormed, GoodProviders, GoodProfiles
  <2>2. KeysFit(doc, m)
    BY <1>2, <1>4 DEF KeysFit, GoodProviders, GoodProfiles
  <2> QED
    BY <2>1, <2>2 DEF Good
<1> QED
  BY <1>3, <1>4

LEMMA SealedProviders ==
  ASSUME NEW m \in [KeySlots -> KeyRecords], NEW prov, GoodProviders(prov, m), NEW p \in Phrases
  PROVE  GoodProviders([v \in Providers |-> Sealed(prov[v], p)], m)
<1>1. \A v \in Providers : /\ Sealed(prov[v], p) \in KeyRecords /\ Fits(Sealed(prov[v], p), m[v])
                           /\ Sealed(prov[v], p).key = "" => Sealed(prov[v], p) = NoKey
  <2> TAKE v \in Providers
  <2>1. prov[v] \in KeyRecords /\ m[v] \in KeyRecords
    BY DEF GoodProviders, KeySlots
  <2> QED
    BY <2>1, SealedFits DEF GoodProviders
<1> QED
  BY <1>1 DEF GoodProviders

LEMMA SealedProfiles ==
  ASSUME NEW m \in [KeySlots -> KeyRecords], NEW prof, GoodProfiles(prof, m), NEW p \in Phrases
  PROVE  /\ GoodProfiles([i \in DOMAIN prof |-> SealedProfile(prof[i], p)], m)
         /\ \A i \in DOMAIN prof : SealedProfile(prof[i], p).id = prof[i].id
<1> DEFINE after == [i \in DOMAIN prof |-> SealedProfile(prof[i], p)]
<1>1. prof \in Seq(ProfileRecords) /\ DOMAIN prof = 1..Len(prof) /\ Len(prof) \in Nat
  <2>1. prof \in Seq(ProfileRecords)
    BY DEF GoodProfiles
  <2> QED
    BY <2>1
<1>2. \A i \in DOMAIN prof : /\ after[i] \in ProfileRecords /\ after[i].id = prof[i].id
                             /\ Fits(after[i].stored, m[prof[i].id])
                             /\ after[i].stored.key = "" => after[i].stored = NoKey
  <2> TAKE i \in DOMAIN prof
  <2> DEFINE x == prof[i]
             s == Sealed(x.stored, p)
  <2>1. x \in ProfileRecords /\ after[i] = SealedProfile(x, p)
    BY <1>1
  <2>2. x.stored \in KeyRecords /\ x.id \in ProfileIds /\ m[x.id] \in KeyRecords
    BY <2>1 DEF ProfileRecords, KeySlots
  <2>3. Fits(x.stored, m[x.id]) /\ (x.stored.key = "" => x.stored = NoKey)
    BY DEF GoodProfiles
  <2>4. s \in KeyRecords /\ Fits(s, m[x.id]) /\ (s.key = "" => s = NoKey)
    BY <2>2, <2>3, SealedFits
  <2> HIDE DEF x, s
  <2>5. CASE x.source = "custom"
    <3>1. after[i] = [x EXCEPT !.stored = s]
      BY <2>1, <2>5 DEF SealedProfile, s
    <3> HIDE DEF after
    <3>2. after[i] \in ProfileRecords /\ after[i].id = x.id /\ after[i].stored = s
      BY <2>1, <2>4, <3>1 DEF ProfileRecords
    <3> QED
      BY <2>4, <3>2 DEF x
  <2>6. CASE x.source # "custom"
    <3>1. after[i] = x
      BY <2>1, <2>6 DEF SealedProfile
    <3> QED
      BY <2>1, <2>3, <3>1 DEF x
  <2> QED
    BY <2>5, <2>6
<1>3. DOMAIN after = DOMAIN prof
  OBVIOUS
<1>4. \A i \in DOMAIN prof : after[i] = SealedProfile(prof[i], p)
  OBVIOUS
<1>5. after \in [1..Len(prof) -> ProfileRecords]
  BY <1>1, <1>2
<1> HIDE DEF after
<1>6. after \in Seq(ProfileRecords)
  BY <1>1, <1>5
<1>7. GoodProfiles(after, m)
  BY <1>2, <1>3, <1>6 DEF GoodProfiles
<1> QED
  BY <1>2, <1>4, <1>7 DEF after

\* A document stays good for the keys that were meant when it is migrated,
\* also when only its profiles are.
LEMMA MigrateKeeps ==
  ASSUME NEW m \in [KeySlots -> KeyRecords], NEW doc, Good(doc, m), NEW p \in Phrases \cup {""}
  PROVE  /\ Good(Migrate(doc, p), m)
         /\ Good([doc EXCEPT !.profiles = Migrate(doc, p).profiles], m)
<1>1. doc \in Documents /\ doc.selected \in Listed(doc)
      /\ GoodProviders(doc.providers, m) /\ GoodProfiles(doc.profiles, m)
  BY GoodIs
<1>2. CASE p = ""
  <2>1. Migrate(doc, p) = doc
    BY <1>2 DEF Migrate
  <2>2. [doc EXCEPT !.profiles = doc.profiles] = doc
    BY <1>1 DEF Documents
  <2> QED
    BY <2>1, <2>2
<1>3. CASE p # ""
  <2> DEFINE prov == [v \in Providers |-> Sealed(doc.providers[v], p)]
             prof == [i \in DOMAIN doc.profiles |-> SealedProfile(doc.profiles[i], p)]
  <2>1. p \in Phrases
    BY <1>3
  <2>2. GoodProviders(prov, m)
    BY <1>1, <2>1, SealedProviders
  <2>3. /\ GoodProfiles(prof, m) /\ DOMAIN prof = DOMAIN doc.profiles
        /\ \A i \in DOMAIN doc.profiles : prof[i].id = doc.profiles[i].id
    <3>1. \A i \in DOMAIN doc.profiles : prof[i] = SealedProfile(doc.profiles[i], p)
      OBVIOUS
    <3>2. GoodProfiles(prof, m)
      BY <1>1, <2>1, SealedProfiles
    <3>3. DOMAIN prof = DOMAIN doc.profiles
      OBVIOUS
    <3>4. \A i \in DOMAIN doc.profiles : SealedProfile(doc.profiles[i], p).id = doc.profiles[i].id
      BY <1>1, <2>1, SealedProfiles
    <3> HIDE DEF prof
    <3> QED
      BY <3>1, <3>2, <3>3, <3>4
  <2>4. Migrate(doc, p) = [doc EXCEPT !.providers = prov, !.profiles = prof]
    BY <1>3 DEF Migrate
  <2> HIDE DEF prov, prof
  <2>5. prov \in [Providers -> KeyRecords] /\ prof \in Seq(ProfileRecords)
    BY <2>2, <2>3 DEF GoodProviders, GoodProfiles
  <2>6. ASSUME NEW d, d \in Documents, d.selected = doc.selected, d.profiles = prof,
               GoodProviders(d.providers, m)
        PROVE  Good(d, m)
    <3>1. PICK i \in DOMAIN doc.profiles : doc.profiles[i].id = doc.selected
      BY <1>1 DEF Listed
    <3>2. i \in DOMAIN d.profiles /\ d.profiles[i].id = d.selected
      BY <2>3, <2>6, <3>1
    <3>3. d.selected \in Listed(d)
      BY <3>2 DEF Listed
    <3>4. GoodProfiles(d.profiles, m)
      BY <2>3, <2>6
    <3> QED
      BY <2>6, <3>3, <3>4, GoodIs
  <2>7. Good(Migrate(doc, p), m)
    <3> DEFINE d == [doc EXCEPT !.providers = prov, !.profiles = prof]
    <3>1. d \in Documents /\ d.selected = doc.selected /\ d.profiles = prof /\ d.providers = prov
      BY <1>1, <2>5 DEF Documents
    <3> HIDE DEF d
    <3>2. Good(d, m)
      BY <2>2, <2>6, <3>1
    <3> QED
      BY <2>4, <3>2 DEF d
  <2>8. Good([doc EXCEPT !.profiles = Migrate(doc, p).profiles], m)
    <3> DEFINE d == [doc EXCEPT !.profiles = prof]
    <3>1. d \in Documents /\ d.selected = doc.selected /\ d.profiles = prof
          /\ d.providers = doc.providers
      BY <1>1, <2>5 DEF Documents
    <3>2. Migrate(doc, p).profiles = prof
      BY <1>1, <2>4 DEF Documents
    <3> HIDE DEF d
    <3>3. Good(d, m)
      BY <1>1, <2>6, <3>1
    <3> QED
      BY <3>2, <3>3 DEF d
  <2> QED
    BY <2>7, <2>8
<1> QED
  BY <1>2, <1>3

\* Whatever a read gives and leaves in the file is good.
LEMMA ReadsAreGood ==
  ASSUME SettingsInv, NEW read \in Reads
  PROVE  Good(read.seen, meant) /\ Good(read.left, meant)
<1>1. Good(aiDoc, meant) /\ meant \in [KeySlots -> KeyRecords] /\ phrase \in Phrases \cup {""}
  BY DEF SettingsInv, SettingsTypes, Good
<1>2. /\ Good(Migrate(aiDoc, phrase), meant)
      /\ Good([aiDoc EXCEPT !.profiles = Migrate(aiDoc, phrase).profiles], meant)
  BY <1>1, MigrateKeeps
<1> DEFINE one == [seen |-> Migrate(aiDoc, phrase), left |-> Migrate(aiDoc, phrase)]
           two == [seen |-> [aiDoc EXCEPT !.profiles = Migrate(aiDoc, phrase).profiles], left |-> aiDoc]
<1>3. read = one \/ read = two
  BY DEF Reads
<1>4. CASE read = one
  BY <1>2, <1>4
<1>5. CASE read = two
  <2>1. read.seen = [aiDoc EXCEPT !.profiles = Migrate(aiDoc, phrase).profiles] /\ read.left = aiDoc
    BY <1>5
  <2> QED
    BY <1>1, <1>2, <2>1
<1> QED
  BY <1>3, <1>4, <1>5
-----------------------------------------------------------------------------
(* Saves                                                                    *)

\* A key that is kept, cleared or given is stored as it is meant.
LEMMA KeyAfterFits ==
  ASSUME SettingsTypes, NEW op \in Ops, NEW old \in KeyRecords, NEW slot \in KeySlots,
         Fits(old, meant[slot]), old.key = "" => old = NoKey
  PROVE  /\ KeyAfter(op, old) \in KeyRecords /\ MeantBy(op, slot) \in KeyRecords
         /\ Fits(KeyAfter(op, old), MeantBy(op, slot))
         /\ KeyAfter(op, old).key = "" => KeyAfter(op, old) = NoKey
<1>1. CASE op = "keep"
  <2>1. KeyAfter(op, old) = old /\ MeantBy(op, slot) = meant[slot]
    BY <1>1 DEF KeyAfter, MeantBy
  <2> QED
    BY <2>1 DEF SettingsTypes
<1>2. CASE op = "clear"
  <2>1. KeyAfter(op, old) = NoKey /\ MeantBy(op, slot) = NoKey
    BY <1>2 DEF KeyAfter, MeantBy
  <2> QED
    BY <2>1, NoKeyIsAKey DEF Fits
<1>3. CASE op \notin {"keep", "clear"}
  <2> DEFINE x == [key |-> op, under |-> phrase]
  <2>1. KeyAfter(op, old) = x /\ MeantBy(op, slot) = x
    BY <1>3 DEF KeyAfter, MeantBy, Encrypt
  <2>2. op \in Keys /\ op # ""
    BY <1>3, AISettingsAssumption DEF Ops
  <2>3. x \in KeyRecords /\ x.key = op
    BY <2>2 DEF SettingsTypes, KeyRecords
  <2> HIDE DEF x
  <2> QED
    BY <2>1, <2>2, <2>3 DEF Fits
<1> QED
  BY <1>1, <1>2, <1>3

LEMMA CredentialsAre ==
  ASSUME NEW given \in ProfileInputs
  PROVE  /\ ParsedCredentials(given).source \in {"", "shared", "custom"}
         /\ ParsedCredentials(given).op \in Ops
<1>1. given.source \in {"", "shared", "custom"} /\ given.op \in Ops /\ given.beside \in Ops
  BY DEF ProfileInputs
<1> QED
  BY <1>1 DEF ParsedCredentials

\* What a request says about an id is what its only profile with that id says.
LEMMA OwnIs ==
  ASSUME NEW r \in PutRequests, NEW i \in DOMAIN r.profiles
  PROVE  Own(r, ParsedId(r.profiles[i], i)) = ParsedCredentials(r.profiles[i])
<1> DEFINE id == ParsedId(r.profiles[i], i)
           k == CHOOSE j \in DOMAIN r.profiles : ParsedId(r.profiles[j], j) = id
<1>1. k \in DOMAIN r.profiles /\ ParsedId(r.profiles[k], k) = id
  OBVIOUS
<1>2. k = i
  BY <1>1, RequestsAssumption
<1> QED
  BY <1>2 DEF Own

LEMMA MeantIsTyped ==
  ASSUME SettingsTypes, NEW r \in PutRequests, NEW doc, Good(doc, meant)
  PROVE  Meant(r, doc) \in [KeySlots -> KeyRecords]
<1>1. \A slot \in KeySlots, op \in Ops : MeantBy(op, slot) \in KeyRecords
  <2> TAKE slot \in KeySlots, op \in Ops
  <2>1. CASE op \in {"keep", "clear"}
    BY <2>1, NoKeyIsAKey DEF MeantBy, SettingsTypes
  <2>2. CASE op \notin {"keep", "clear"}
    <3>1. MeantBy(op, slot) = [key |-> op, under |-> phrase]
      BY <2>2 DEF MeantBy
    <3>2. op \in Keys
      BY <2>2 DEF Ops
    <3>3. phrase \in Phrases \cup {""}
      BY DEF SettingsTypes
    <3>4. [key |-> op, under |-> phrase] \in KeyRecords
      BY <3>2, <3>3 DEF KeyRecords
    <3> QED
      BY <3>1, <3>4
  <2> QED
    BY <2>1, <2>2
<1>2. r \in PutInputs
  BY RequestsAssumption
<1>3. r.providers \in [Providers -> Ops] /\ r.profiles \in Seq(ProfileInputs)
  BY <1>2 DEF PutInputs
<1>4. \A slot \in Named(r) : Own(r, slot).op \in Ops
  <2> TAKE slot \in Named(r)
  <2>1. PICK i \in DOMAIN r.profiles : slot = ParsedId(r.profiles[i], i)
    BY DEF Named
  <2>2. r.profiles[i] \in ProfileInputs
    BY <1>3
  <2> QED
    BY <2>1, <2>2, OwnIs, CredentialsAre
<1>5. \A slot \in KeySlots : Meant(r, doc)[slot] \in KeyRecords
  BY <1>1, <1>3, <1>4, NoKeyIsAKey DEF Meant, SettingsTypes
<1> QED
  BY <1>5 DEF Meant

LEMMA ProvidersAreSaved ==
  ASSUME SettingsTypes, NEW r \in PutRequests, NEW doc, Good(doc, meant)
  PROVE  GoodProviders([v \in Providers |-> KeyAfter(r.providers[v], doc.providers[v])], Meant(r, doc))
<1>1. r \in PutInputs /\ GoodProviders(doc.providers, meant)
  BY RequestsAssumption, GoodIs
<1>2. r.providers \in [Providers -> Ops]
  BY <1>1 DEF PutInputs
<1>3. ASSUME NEW v \in Providers
      PROVE  /\ KeyAfter(r.providers[v], doc.providers[v]) \in KeyRecords
             /\ Fits(KeyAfter(r.providers[v], doc.providers[v]), Meant(r, doc)[v])
             /\ KeyAfter(r.providers[v], doc.providers[v]).key = ""
                  => KeyAfter(r.providers[v], doc.providers[v]) = NoKey
  <2>1. v \in KeySlots /\ Meant(r, doc)[v] = MeantBy(r.providers[v], v)
    BY DEF Meant, KeySlots
  <2>2. doc.providers[v] \in KeyRecords /\ Fits(doc.providers[v], meant[v])
        /\ (doc.providers[v].key = "" => doc.providers[v] = NoKey)
    BY <1>1 DEF GoodProviders
  <2>3. r.providers[v] \in Ops
    BY <1>2
  <2> QED
    BY <2>1, <2>2, <2>3, KeyAfterFits
<1> QED
  BY <1>3 DEF GoodProviders

\* A profile that is sent has the key that is meant for it, and the type it needs.
LEMMA ProfileIsSaved ==
  ASSUME SettingsTypes, NEW r \in PutRequests, NEW doc, Good(doc, meant), NEW i \in DOMAIN r.profiles,
         r.profiles # <<>>
  PROVE  LET x == ProfileAfter(r.profiles[i], i, doc) IN
         /\ x \in ProfileRecords /\ x.id = ParsedId(r.profiles[i], i)
         /\ x.stored.key = "" => x.stored = NoKey
         /\ Fits(x.stored, Meant(r, doc)[x.id])
<1> DEFINE given == r.profiles[i]
           id == ParsedId(given, i)
           c == ParsedCredentials(given)
           old == IF id \in Listed(doc) THEN ProfileOf(doc, id).stored ELSE NoKey
           source == SourceAfter(c, id, doc)
           stored == StoredKey(c, id, i, doc)
<1>1. given \in ProfileInputs
  <2>1. r \in PutInputs
    BY RequestsAssumption
  <2>2. r.profiles \in Seq(ProfileInputs)
    BY <2>1 DEF PutInputs
  <2> QED
    BY <2>2
<1>2. id \in Named(r) /\ id \in ProfileIds /\ id \in KeySlots /\ id \notin Providers
  BY RequestsAssumption, AISettingsAssumption DEF Named, KeySlots
<1>3. c.source \in {"", "shared", "custom"} /\ c.op \in Ops
  BY <1>1, CredentialsAre
<1>4. Own(r, id) = c
  BY OwnIs
<1>5. GoodProfiles(doc.profiles, meant) /\ WellFormed(doc)
  BY GoodIs DEF Good
<1>6. /\ old \in KeyRecords /\ Fits(old, meant[id]) /\ (old.key = "" => old = NoKey)
      /\ id \in Listed(doc) => ProfileOf(doc, id).source \in {"shared", "custom"}
  <2>1. CASE id \in Listed(doc)
    <3>1. PICK j \in DOMAIN doc.profiles : ProfileOf(doc, id) = doc.profiles[j] /\ doc.profiles[j].id = id
      BY <1>5, <2>1, ProfileIsListed
    <3>2. doc.profiles[j] \in ProfileRecords
      <4>1. doc.profiles \in Seq(ProfileRecords)
        BY <1>5 DEF GoodProfiles
      <4> QED
        BY <4>1
    <3>3. doc.profiles[j].stored \in KeyRecords /\ doc.profiles[j].source \in {"shared", "custom"}
      BY <3>2 DEF ProfileRecords
    <3> QED
      BY <1>5, <2>1, <3>1, <3>3 DEF GoodProfiles
  <2>2. CASE id \notin Listed(doc)
    <3>1. meant[id] = NoKey
      BY <1>2, <2>2 DEF Good, KeysFit
    <3> QED
      BY <2>2, <3>1, NoKeyIsAKey DEF Fits
  <2> QED
    BY <2>1, <2>2
<1>7. source \in {"shared", "custom"}
  BY <1>3, <1>6 DEF SourceAfter
<1>8. Meant(r, doc)[id] = IF source # "custom" THEN NoKey ELSE MeantBy(c.op, id)
  BY <1>2, <1>4 DEF Meant
<1>9. stored = IF source # "custom" THEN NoKey ELSE KeyAfter(c.op, old)
  BY DEF StoredKey
<1>10. ProfileAfter(given, i, doc) = [id |-> id, model |-> given.model, source |-> source, stored |-> stored]
  BY DEF ProfileAfter
<1> HIDE DEF c, old, source, stored, id
<1>11. stored \in KeyRecords /\ (stored.key = "" => stored = NoKey) /\ Fits(stored, Meant(r, doc)[id])
  <2>1. CASE source # "custom"
    BY <1>8, <1>9, <2>1, NoKeyIsAKey DEF Fits
  <2>2. CASE source = "custom"
    BY <1>2, <1>3, <1>6, <1>8, <1>9, <2>2, KeyAfterFits
  <2> QED
    BY <2>1, <2>2
<1>12. given.model \in BOOLEAN
  BY <1>1 DEF ProfileInputs
<1> DEFINE x == ProfileAfter(given, i, doc)
           model == given.model
<1>13. x = [id |-> id, model |-> model, source |-> source, stored |-> stored]
  BY <1>10
<1>14. model \in BOOLEAN
  BY <1>12
<1> HIDE DEF x, model
<1>15. x \in ProfileRecords
  BY <1>2, <1>7, <1>11, <1>13, <1>14 DEF ProfileRecords
<1>16. x.id = id /\ x.stored = stored
  BY <1>13
<1> QED
  BY <1>11, <1>15, <1>16 DEF x, id

\* The list that is sent becomes the list of profiles.
LEMMA ProfilesAreSaved ==
  ASSUME SettingsTypes, NEW r \in PutRequests, NEW doc, Good(doc, meant), r.profiles # <<>>
  PROVE  GoodProfiles([i \in DOMAIN r.profiles |-> ProfileAfter(r.profiles[i], i, doc)], Meant(r, doc))
<1> DEFINE prof == [i \in DOMAIN r.profiles |-> ProfileAfter(r.profiles[i], i, doc)]
           m == Meant(r, doc)
<1>1. DOMAIN r.profiles = 1..Len(r.profiles) /\ Len(r.profiles) \in Nat
  <2>1. r \in PutInputs
    BY RequestsAssumption
  <2>2. r.profiles \in Seq(ProfileInputs)
    BY <2>1 DEF PutInputs
  <2> QED
    BY <2>2
<1>2. \A i \in DOMAIN r.profiles : prof[i] = ProfileAfter(r.profiles[i], i, doc)
  OBVIOUS
<1>3. DOMAIN prof = DOMAIN r.profiles
  OBVIOUS
<1>4. \A i \in DOMAIN prof :
        /\ prof[i] \in ProfileRecords /\ prof[i].id = ParsedId(r.profiles[i], i)
        /\ prof[i].stored.key = "" => prof[i].stored = NoKey
        /\ Fits(prof[i].stored, m[prof[i].id])
  BY <1>2, <1>3, ProfileIsSaved
<1>5. \A id \in ProfileIds : (\A i \in DOMAIN prof : prof[i].id # id) => m[id] = NoKey
  <2> SUFFICES ASSUME NEW id \in ProfileIds, \A i \in DOMAIN prof : prof[i].id # id
               PROVE  m[id] = NoKey
    OBVIOUS
  <2> HIDE DEF prof
  <2>1. id \notin Named(r)
    BY <1>3, <1>4 DEF Named
  <2>2. id \in KeySlots /\ id \notin Providers
    BY AISettingsAssumption DEF KeySlots
  <2> QED
    BY <2>1, <2>2 DEF Meant
<1>6. prof = [i \in 1..Len(r.profiles) |-> prof[i]]
  BY <1>1
<1> HIDE DEF prof, m
<1>7. prof \in Seq(ProfileRecords)
  <2>1. prof \in [1..Len(r.profiles) -> ProfileRecords]
    BY <1>1, <1>3, <1>4, <1>6
  <2> QED
    BY <1>1, <2>1
<1>8. \A i, j \in DOMAIN prof : prof[i].id = prof[j].id => i = j
  <2> TAKE i, j \in DOMAIN prof
  <2>1. i \in DOMAIN r.profiles /\ j \in DOMAIN r.profiles
    BY <1>3
  <2>2. prof[i].id = ParsedId(r.profiles[i], i) /\ prof[j].id = ParsedId(r.profiles[j], j)
    BY <1>4
  <2>3. \A k, l \in DOMAIN r.profiles :
          ParsedId(r.profiles[k], k) = ParsedId(r.profiles[l], l) => k = l
    BY RequestsAssumption
  <2> QED
    BY <2>1, <2>2, <2>3
<1>9. GoodProfiles(prof, m)
  BY <1>4, <1>5, <1>7, <1>8 DEF GoodProfiles
<1> QED
  BY <1>9 DEF prof, m

\* Without a list the profiles stay as they are.
LEMMA ProfilesAreKept ==
  ASSUME SettingsTypes, NEW r \in PutRequests, NEW doc, Good(doc, meant), r.profiles = <<>>
  PROVE  GoodProfiles(doc.profiles, Meant(r, doc))
<1>1. GoodProfiles(doc.profiles, meant)
  BY GoodIs
<1>2. \A id \in ProfileIds : Meant(r, doc)[id] = meant[id]
  BY AISettingsAssumption DEF Meant, KeySlots
<1>3. \A i \in DOMAIN doc.profiles : doc.profiles[i].id \in ProfileIds
  <2> TAKE i \in DOMAIN doc.profiles
  <2>1. doc.profiles \in Seq(ProfileRecords)
    BY <1>1 DEF GoodProfiles
  <2>2. doc.profiles[i] \in ProfileRecords
    BY <2>1
  <2> QED
    BY <2>2 DEF ProfileRecords
<1> QED
  BY <1>1, <1>2, <1>3 DEF GoodProfiles

\* A selection is found, or gives way to the first profile.
LEMMA SelectionIsListed ==
  ASSUME NEW doc \in Documents, doc.profiles # <<>>
  PROVE  /\ WithSelection(doc) \in Documents
         /\ WithSelection(doc).selected \in Listed(WithSelection(doc))
         /\ WithSelection(doc).providers = doc.providers
         /\ WithSelection(doc).profiles = doc.profiles
<1> DEFINE first == doc.profiles[1].id
           selected == IF doc.selected \in Listed(doc) THEN doc.selected ELSE first
<1>1. doc.profiles \in Seq(ProfileRecords) /\ doc.selected \in ProfileIds
  BY DEF Documents
<1>2. 1 \in DOMAIN doc.profiles /\ doc.profiles[1] \in ProfileRecords
  BY <1>1
<1>3. first \in Listed(doc) /\ first \in ProfileIds
  BY <1>2 DEF Listed, ProfileRecords
<1>4. WithSelection(doc) = [doc EXCEPT !.selected = selected]
  BY DEF WithSelection
<1>5. selected \in Listed(doc) /\ selected \in ProfileIds
  BY <1>1, <1>3
<1> HIDE DEF selected, first
<1> DEFINE d == WithSelection(doc)
<1>6. d \in Documents /\ d.selected = selected /\ d.providers = doc.providers /\ d.profiles = doc.profiles
  BY <1>4, <1>5 DEF Documents
<1> HIDE DEF d
<1>7. Listed(d) = Listed(doc)
  BY <1>6 DEF Listed
<1> QED
  BY <1>5, <1>6, <1>7 DEF d

\* A save leaves a document that is good for what is meant from then on.
LEMMA UpdatedIsGood ==
  ASSUME SettingsTypes, NEW r \in PutRequests, NEW doc, Good(doc, meant)
  PROVE  Good(Updated(r, doc), Meant(r, doc))
<1> DEFINE m == Meant(r, doc)
           rev == doc.revision + 1
           mode == IF r.mode # "" THEN r.mode ELSE doc.mode
           prov == [v \in Providers |-> KeyAfter(r.providers[v], doc.providers[v])]
           prof == IF r.profiles = <<>> THEN doc.profiles
                   ELSE [i \in DOMAIN r.profiles |-> ProfileAfter(r.profiles[i], i, doc)]
           sel == IF r.select # "" THEN r.select ELSE doc.selected
           d == [doc EXCEPT !.revision = rev, !.mode = mode, !.providers = prov,
                            !.profiles = prof, !.selected = sel]
<1>1. doc \in Documents /\ r \in PutInputs /\ doc.selected \in Listed(doc)
  BY RequestsAssumption, GoodIs
<1>2. rev \in Nat /\ mode \in {"llm", "heuristic"} /\ sel \in ProfileIds
  <2>1. doc.revision \in Nat /\ doc.mode \in {"llm", "heuristic"} /\ doc.selected \in ProfileIds
    BY <1>1 DEF Documents
  <2>2. r.mode \in {"", "llm", "heuristic"} /\ r.select \in {""} \cup ProfileIds
    BY <1>1 DEF PutInputs
  <2>3. rev \in Nat
    BY <2>1
  <2>4. mode \in {"llm", "heuristic"}
    BY <2>1, <2>2
  <2>5. sel \in ProfileIds
    BY <2>1, <2>2
  <2> QED
    BY <2>3, <2>4, <2>5
<1>3. GoodProviders(prov, m)
  BY ProvidersAreSaved
<1>4. GoodProfiles(prof, m) /\ prof # <<>>
  <2>1. CASE r.profiles = <<>>
    <3>1. doc.profiles # <<>>
      BY <1>1 DEF Listed
    <3> QED
      BY <2>1, <3>1, ProfilesAreKept
  <2>2. CASE r.profiles # <<>>
    <3>1. GoodProfiles(prof, m)
      BY <2>2, ProfilesAreSaved
    <3>2. prof # <<>>
      <4>1. DOMAIN prof = DOMAIN r.profiles
        BY <2>2
      <4>2. r.profiles \in Seq(ProfileInputs)
        BY <1>1 DEF PutInputs
      <4>3. 1 \in DOMAIN r.profiles
        BY <2>2, <4>2
      <4> HIDE DEF prof
      <4> QED
        BY <4>1, <4>3
    <3> QED
      BY <3>1, <3>2
  <2> QED
    BY <2>1, <2>2
<1>5. Updated(r, doc) = WithSelection(d)
  BY DEF Updated
<1> HIDE DEF m, rev, mode, prov, prof, sel
<1>6. d \in Documents /\ d.providers = prov /\ d.profiles = prof
  <2>1. prov \in [Providers -> KeyRecords] /\ prof \in Seq(ProfileRecords)
    BY <1>3, <1>4 DEF GoodProviders, GoodProfiles
  <2> QED
    BY <1>1, <1>2, <2>1 DEF Documents
<1> HIDE DEF d
<1> DEFINE u == WithSelection(d)
<1>7. u \in Documents /\ u.selected \in Listed(u) /\ u.providers = prov /\ u.profiles = prof
  BY <1>4, <1>6, SelectionIsListed
<1> HIDE DEF u
<1>8. Good(u, m)
  BY <1>3, <1>4, <1>7, GoodIs
<1> QED
  BY <1>5, <1>8 DEF u, m
-----------------------------------------------------------------------------
\* Old files have the keys users gave.
LEMMA SettingsInitInv == AISettingsInit => SettingsInv
<1> SUFFICES ASSUME AISettingsInit PROVE SettingsInv
  OBVIOUS
<1>1. WellFormed(aiDoc) /\ phrase = "" /\ checked = [t \in Tabs |-> NotAsked]
  BY OldFilesAssumption DEF AISettingsInit
<1>2. aiDoc.providers \in [Providers -> KeyRecords] /\ aiDoc.profiles \in Seq(ProfileRecords)
  <2>1. aiDoc \in Documents
    BY <1>1 DEF WellFormed
  <2> QED
    BY <2>1 DEF Documents
<1>3. \A i \in DOMAIN aiDoc.profiles : /\ aiDoc.profiles[i] \in ProfileRecords
                                       /\ aiDoc.profiles[i].stored \in KeyRecords
                                       /\ aiDoc.profiles[i].id \in ProfileIds
  <2> TAKE i \in DOMAIN aiDoc.profiles
  <2>1. aiDoc.profiles[i] \in ProfileRecords
    BY <1>2
  <2> QED
    BY <2>1 DEF ProfileRecords
<1>4. \A v \in Providers : v \in KeySlots /\ meant[v] = aiDoc.providers[v]
  BY DEF AISettingsInit, KeySlots
<1>5. \A id \in ProfileIds :
        meant[id] = IF id \in Listed(aiDoc) THEN ProfileOf(aiDoc, id).stored ELSE NoKey
  BY AISettingsAssumption DEF AISettingsInit, KeySlots
<1>6. \A i \in DOMAIN aiDoc.profiles : meant[aiDoc.profiles[i].id] = aiDoc.profiles[i].stored
  <2> TAKE i \in DOMAIN aiDoc.profiles
  <2>1. aiDoc.profiles[i].id \in Listed(aiDoc)
    BY DEF Listed
  <2>2. ProfileOf(aiDoc, aiDoc.profiles[i].id) = aiDoc.profiles[i]
    BY <1>1, ProfileIsFound
  <2> QED
    BY <1>3, <1>5, <2>1, <2>2
<1>7. meant \in [KeySlots -> KeyRecords]
  <2>1. \A v \in Providers : meant[v] \in KeyRecords
    BY <1>2, <1>4
  <2>2. \A id \in ProfileIds : meant[id] \in KeyRecords
    <3> TAKE id \in ProfileIds
    <3>1. CASE id \in Listed(aiDoc)
      <4>1. PICK i \in DOMAIN aiDoc.profiles : ProfileOf(aiDoc, id) = aiDoc.profiles[i]
        BY <1>1, <3>1, ProfileIsListed
      <4> QED
        BY <1>3, <1>5, <3>1, <4>1
    <3>2. CASE id \notin Listed(aiDoc)
      BY <1>5, <3>2, NoKeyIsAKey
    <3> QED
      BY <3>1, <3>2
  <2>3. meant = [slot \in KeySlots |-> meant[slot]]
    BY DEF AISettingsInit
  <2> QED
    BY <2>1, <2>2, <2>3 DEF KeySlots
<1>8. SettingsTypes
  BY <1>1, <1>7 DEF SettingsTypes
<1>9. KeysFit(aiDoc, meant)
  BY <1>4, <1>5, <1>6 DEF KeysFit, Fits
<1> QED
  BY <1>1, <1>8, <1>9 DEF SettingsInv

\* Restarts, reads, checks and saves keep the keys.
LEMMA SettingsNextInv == SettingsInv /\ [AISettingsNext]_aiSettings => SettingsInv'
<1> SUFFICES ASSUME SettingsInv, [AISettingsNext]_aiSettings PROVE SettingsInv'
  OBVIOUS
<1>0. SettingsTypes /\ Good(aiDoc, meant)
  BY DEF SettingsInv, Good
<1>1. ASSUME NEW p \in Phrases \cup {""}, StartServer(p) PROVE SettingsInv'
  <2>1. Good(aiDoc', meant)
    <3>1. aiDoc' = aiDoc \/ aiDoc' = Migrate(aiDoc, p)
      BY <1>1 DEF StartServer
    <3>2. Good(Migrate(aiDoc, p), meant)
      BY <1>0, MigrateKeeps DEF SettingsTypes
    <3> QED
      BY <1>0, <3>1, <3>2
  <2>2. SettingsTypes' /\ meant' = meant
    BY <1>0, <1>1 DEF StartServer, SettingsTypes
  <2> QED
    BY <2>1, <2>2 DEF SettingsInv, Good
<1>2. CASE ReadSettings
  <2>1. Good(aiDoc', meant)
    BY <1>2, ReadsAreGood DEF ReadSettings
  <2>2. SettingsTypes' /\ meant' = meant
    BY <1>0, <1>2 DEF ReadSettings, SettingsTypes
  <2> QED
    BY <2>1, <2>2 DEF SettingsInv, Good
<1>3. ASSUME NEW t \in Tabs, NEW r \in PutRequests, CheckRequest(t, r) PROVE SettingsInv'
  <2>1. Good(aiDoc', meant)
    BY <1>0, <1>3, ReadsAreGood DEF CheckRequest
  <2>2. SettingsTypes' /\ meant' = meant
    BY <1>0, <1>3 DEF CheckRequest, SettingsTypes
  <2> QED
    BY <2>1, <2>2 DEF SettingsInv, Good
<1>4. ASSUME NEW t \in Tabs, PutSettings(t) PROVE SettingsInv'
  <2>1. checked[t] \in PutRequests /\ phrase' = phrase /\ checked' = [checked EXCEPT ![t] = NotAsked]
    BY <1>0, <1>4 DEF PutSettings, SettingsTypes
  <2>2. PICK read \in Reads :
          \/ aiDoc' = Updated(checked[t], read.seen) /\ meant' = Meant(checked[t], read.seen)
          \/ aiDoc' = read.left /\ meant' = meant
    BY <1>4 DEF PutSettings
  <2>3. Good(read.seen, meant) /\ Good(read.left, meant)
    BY ReadsAreGood
  <2>4. Good(aiDoc', meant') /\ meant' \in [KeySlots -> KeyRecords]
    <3>1. CASE aiDoc' = Updated(checked[t], read.seen) /\ meant' = Meant(checked[t], read.seen)
      BY <1>0, <2>1, <2>3, <3>1, UpdatedIsGood, MeantIsTyped
    <3>2. CASE aiDoc' = read.left /\ meant' = meant
      BY <1>0, <2>3, <3>2 DEF SettingsTypes
    <3> QED
      BY <2>2, <3>1, <3>2
  <2>5. SettingsTypes'
    BY <1>0, <2>1, <2>4 DEF SettingsTypes
  <2> QED
    BY <2>4, <2>5 DEF SettingsInv, Good
<1>5. CASE UNCHANGED aiSettings
  BY <1>5 DEF aiSettings, SettingsInv, SettingsTypes
<1> QED
  BY <1>1, <1>2, <1>3, <1>4, <1>5 DEF AISettingsNext

LEMMA SettingsSafe == AISettingsSpec => []SettingsInv
  BY SettingsInitInv, SettingsNextInv, PTL DEF AISettingsSpec
-----------------------------------------------------------------------------
\* What a stored key is decrypted to.
LEMMA DecryptedIsUsable ==
  ASSUME SettingsTypes, NEW slot \in KeySlots, NEW stored \in KeyRecords, Fits(stored, meant[slot])
  PROVE  Usable(Decrypt(stored), slot)
<1>1. CASE stored.under \in {"", phrase}
  BY <1>1 DEF Decrypt, Usable, Fits
<1>2. CASE stored.under \notin {"", phrase}
  BY <1>2 DEF Decrypt, Usable, Fits
<1> QED
  BY <1>1, <1>2

\* The key a generation takes is that of the slot its profile refers to.
LEMMA StoredFits ==
  ASSUME SettingsInv, NEW id \in Listed(aiDoc)
  PROVE  LET p == ProfileOf(aiDoc, id) IN
         /\ p \in ProfileRecords /\ p.id = id /\ SlotOf(p) \in KeySlots
         /\ Stored(p) \in KeyRecords /\ Fits(Stored(p), meant[SlotOf(p)])
         /\ Stored(p).key = "" => Stored(p) = NoKey
<1>1. Good(aiDoc, meant) /\ WellFormed(aiDoc)
  BY DEF SettingsInv, Good
<1>2. GoodProviders(aiDoc.providers, meant) /\ GoodProfiles(aiDoc.profiles, meant)
  BY <1>1, GoodIs
<1>3. PICK i \in DOMAIN aiDoc.profiles : ProfileOf(aiDoc, id) = aiDoc.profiles[i] /\ aiDoc.profiles[i].id = id
  BY <1>1, ProfileIsListed
<1> DEFINE p == aiDoc.profiles[i]
<1>4. p \in ProfileRecords
  <2>1. aiDoc.profiles \in Seq(ProfileRecords)
    BY <1>2 DEF GoodProfiles
  <2> QED
    BY <2>1
<1>5. p.id \in ProfileIds /\ p.stored \in KeyRecords
  BY <1>4 DEF ProfileRecords
<1>6. Fits(p.stored, meant[p.id]) /\ (p.stored.key = "" => p.stored = NoKey)
  BY <1>2 DEF GoodProfiles
<1>7. LET x == aiDoc.providers["openrouter"] IN
      x \in KeyRecords /\ Fits(x, meant["openrouter"]) /\ (x.key = "" => x = NoKey)
  BY <1>2 DEF GoodProviders, Providers
<1> HIDE DEF p
<1>8. CASE p.source = "custom"
  <2>1. Stored(p) = p.stored /\ SlotOf(p) = p.id
    BY <1>8 DEF Stored, SlotOf
  <2> QED
    BY <1>3, <1>4, <1>5, <1>6, <2>1 DEF KeySlots, p
<1>9. CASE p.source # "custom"
  <2>1. Stored(p) = aiDoc.providers["openrouter"] /\ SlotOf(p) = "openrouter"
    BY <1>9 DEF Stored, SlotOf
  <2> QED
    BY <1>3, <1>4, <1>7, <2>1 DEF KeySlots, Providers, p
<1> QED
  BY <1>8, <1>9

LEMMA KeyIsUsable == SettingsInv => KeyIsTheOneMeant
<1> SUFFICES ASSUME SettingsInv PROVE KeyIsTheOneMeant
  OBVIOUS
<1>0. SettingsTypes /\ Good(aiDoc, meant) /\ aiDoc \in Documents /\ aiDoc.selected \in Listed(aiDoc)
  BY GoodIs DEF SettingsInv, Good
<1>1. ASSUME NEW id \in ProfileIds
      PROVE  LET resolved == ResolveOverride(id) IN
             IF id \notin Listed(aiDoc) THEN resolved.key = "unknown"
             ELSE LET p == ProfileOf(aiDoc, id) IN
                  resolved.profile = id /\ (p.model => Usable(resolved.key, SlotOf(p)))
  <2>1. id # ""
    BY AISettingsAssumption
  <2>2. CASE id \notin Listed(aiDoc)
    BY <2>1, <2>2 DEF ResolveOverride
  <2>3. CASE id \in Listed(aiDoc)
    <3> DEFINE p == ProfileOf(aiDoc, id)
    <3>1. ResolveOverride(id) = Config(p)
      BY <2>1, <2>3 DEF ResolveOverride
    <3>2. p.id = id /\ Usable(Decrypt(Stored(p)), SlotOf(p))
      BY <1>0, <2>3, StoredFits, DecryptedIsUsable
    <3> HIDE DEF p
    <3>3. Config(p).profile = id /\ (p.model => Config(p).key = Decrypt(Stored(p)))
      BY <3>2 DEF Config, KeyOfProfile
    <3> QED
      BY <2>3, <3>1, <3>2, <3>3 DEF p
  <2> QED
    BY <2>2, <2>3
<1>2. EffectiveMode = "openrouter" => ResolveActive.key \notin {"", "unknown"}
  <2> SUFFICES ASSUME EffectiveMode = "openrouter" PROVE ResolveActive.key \notin {"", "unknown"}
    OBVIOUS
  <2> DEFINE p == ProfileOf(aiDoc, aiDoc.selected)
  <2>1. aiDoc.mode = "llm" /\ ActiveReady
    BY <1>0 DEF EffectiveMode, Documents
  <2>2. ResolveActive = Config(p)
    BY <2>1 DEF ResolveActive, ResolveOverride
  <2>3. /\ Stored(p) \in KeyRecords /\ Stored(p).key # "" /\ p.model
    BY <1>0, <2>1, StoredFits DEF ActiveReady
  <2> HIDE DEF p
  <2>4. Stored(p).key \notin {"", "unknown"}
    BY <2>3, AISettingsAssumption DEF KeyRecords
  <2>5. Config(p).key = Decrypt(Stored(p))
    BY <2>3 DEF Config, KeyOfProfile
  <2> QED
    BY <2>2, <2>4, <2>5 DEF Decrypt
<1>3. LET key == ResolveGoogleBooksAPIKey IN
      IF meant["googleBooks"] = NoKey THEN key = "env" ELSE Usable(key, "googleBooks")
  <2> DEFINE s == aiDoc.providers["googleBooks"]
             m == meant["googleBooks"]
  <2>1. s \in KeyRecords /\ Fits(s, m) /\ (s.key = "" => s = NoKey)
    <3>1. GoodProviders(aiDoc.providers, meant)
      BY <1>0, GoodIs
    <3> QED
      BY <3>1 DEF GoodProviders, Providers
  <2>2. "googleBooks" \in KeySlots /\ m \in KeyRecords
    BY <1>0 DEF SettingsTypes, KeySlots, Providers
  <2> HIDE DEF s, m
  <2>3. ResolveGoogleBooksAPIKey = IF Decrypt(s) = "" THEN "env" ELSE Decrypt(s)
    BY DEF ResolveGoogleBooksAPIKey, s
  <2>4. CASE m = NoKey
    <3>1. s = NoKey
      BY <2>1, <2>4 DEF Fits, NoKey
    <3>2. Decrypt(s) = ""
      BY <3>1 DEF Decrypt, NoKey
    <3> QED
      BY <2>3, <2>4, <3>2 DEF m
  <2>5. CASE m # NoKey
    <3>1. s.key # ""
      <4>1. SUFFICES ASSUME s.key = "" PROVE FALSE
        OBVIOUS
      <4>2. s = NoKey
        BY <2>1, <4>1
      <4>3. s.key = "" /\ s.under = ""
        BY <4>2 DEF NoKey
      <4>4. m.key = "" /\ m.under = ""
        BY <2>1, <4>3 DEF Fits
      <4>5. m = NoKey
        BY <2>2, <4>4 DEF KeyRecords, NoKey
      <4> QED
        BY <2>5, <4>5
    <3>2. Decrypt(s) # ""
      BY <3>1 DEF Decrypt
    <3>3. Usable(Decrypt(s), "googleBooks")
      BY <1>0, <2>1, <2>2, DecryptedIsUsable DEF m
    <3> QED
      BY <2>3, <2>5, <3>2, <3>3 DEF m
  <2> QED
    BY <2>4, <2>5
<1> QED
  BY <1>1, <1>2, <1>3 DEF KeyIsTheOneMeant

\* A generation is given the key that was last meant for its profile, or an
\* error, for any tabs, requests, passphrases, restarts and failed writes
\* (PutAIGenerationSettings, ResolveAIGenerationConfigOverride).
THEOREM KeysStayMeant == AISettingsSpec => []KeyIsTheOneMeant
  BY SettingsSafe, KeyIsUsable, PTL
=============================================================================
