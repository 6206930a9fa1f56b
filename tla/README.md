# A TLA+ model of narou-viewer

narou-viewer keeps a personal library of web novels. `novel-fetcher` (Go) downloads
works into a SQLite database and a directory of files; `viewer-api` (Go) serves them
to `viewer-web` (TypeScript) together with the reader's own state and AI-generated
character and term lists. This directory holds TLA+ modules for the parts of the
system whose correctness depends on the order in which things happen, TLC
configurations that check them on small instances, and TLAPS proofs for every size.

`PROJECT.json` lists, for every definition, the lines it models; the runs; for every
property a mutation of the code that violates it; and the hazards the properties are for.

## 1. Inventory

### novel-fetcher (`services/novel-fetcher`)

| Part | State | Operations | What is hard |
|---|---|---|---|
| task repository (`internal/taskstate`) | tables `fetch_tasks`, `fetch_task_queue` | Enqueue, ClaimNext, SetWorkID, Finalize, RequestPause/Cancel/Resume, RecoverOnStartup | reservations shared by three operations; completion against control; a table that startup refuses |
| queue and runner (`internal/taskqueue`, `internal/worker`) | the attempt in memory, its cancel cause, per-task locks, a one-slot wake channel | loop, claim, hand-off, finalize, control | memory and table change at different moments; transient SQLite errors; lost wake-ups; shutdown |
| mutation API (`internal/server`) | none | enqueue, control, remove | handlers run concurrently with the runner |
| application service (`internal/application`) | one attempt: table of contents, skip set, position | download, update, resume | the site, the tables and the files change between any two steps |
| library store (`internal/storage`) | `works`, `episodes`, `fetch_task_episode_checkpoints`, body files | UpsertWorkToc, saveEpisodeBody, checkpoints, CompleteWorkForTask, RemoveWork | a file and a row that must agree over failure and crash |
| HTTP client, rate limiter (`internal/fetcher`) | per-host counter and next slot | reserve, fetch, retry | the burst counter and its reset |
| writer lock, migration, read API, site parsers | a lock file; schema; none; none | | run once, only read, or process text |

The runner is one goroutine and runs one task at a time; HTTP handlers call the
repository directly and reach the runner through its mutex, the per-task lock, the
cancel function of the attempt and the wake channel. SQLite has one writer
connection, so transactions are serial.

### viewer-api (`apps/viewer-api-go`)

| Part | State | Operations | What is hard |
|---|---|---|---|
| extraction jobs (`extraction`, `application/extraction`, `application/extractionjobs`) | a YAML file per job, an index, the coordinator's active map | create, pause, resume, cancel, process, recover | handler and processor write the same file; crash recovery; checkpoint quarantine |
| extraction workflow (`application/extractionruntime`, `extraction/core.go`, `extraction/checkpointstore`) | checkpoints; batches in goroutines and worker slots | batch loop, discovery, parallel batches, reduce, commit | several files without a transaction; answers in any order; a plan that changes between runs |
| characters and terms (`characters`, `terms`) | events, profiles, id registry; histories of terms | cut, find, merge, retire, renumber, materialize | ids that come back; merges dated by episode; redos over torn saves |
| reading state, bookmarks, preferences, settings (`state/*`) | one YAML document each | get, put, prune, import | compare-and-set versions, tombstones |
| removed-novel cleanup, fetcher commands (`application/removedstate`, `application/fetchercommands`) | none of their own | remove at the fetcher, then prune seven stores | partial failure, lost answers |
| reader text cache, reader assistant (`application/readertextcache`, `application/readerassistant`) | SQLite rows per episode; one run with its searches and hits | look up, save, prune; nine tools | texts that change under a run, and between its requests for etag and text; the spoiler boundary |
| proofreading (`application/readerproofread`) | one result per episode, the flight under way | get, generate, delete | single flight over a changing text; etag and text read apart; a result older than its prompt |
| AI client, AI usage (`ai`, `aiusage`) | the chat under way; SQLite rows per run | chat, retry, fall back; record, prune | what was paid in which attempt, seen or not |
| AI settings (`state/aisettings`) | one YAML document with encrypted keys | read and migrate, put, resolve | keys under several passphrases; lists from stale tabs |
| publications (`publications`) | entries and a cover per novel | register, look up, join, hide, remove | a lookup between the read and the write |
| library, views, HTTP layer, file helpers, writer barrier | none | read, decode, write atomically | nothing that depends on order |

### viewer-web (`apps/viewer-web`)

Presentation, and the client side of the reading state's compare-and-set.

### How they interact

`viewer-api` reads the fetcher's database and files and asks it by HTTP to download and
remove. It reads an episode in two requests, its etag from the table of contents and then
its text, while the fetcher saves the file of a text before the row with its etag: a text
can come under the etag of an earlier one (Extraction, ReaderAssistant and Proofread read
it that way). A removal then goes through `viewer-api`'s own stores. A generation reads
texts of the library and writes checkpoints, terms, events and profiles, which readers,
the assistant and later generations read. Tabs talk to `viewer-api` only. Nothing but a
text's etag tells one store that another has moved on.

## 2. Modules

```
TaskState        the repository's transactions, arbitrary callers
  ^   ^   ^
  |   |   TaskStateProofs  <---  TaskRunnerProofs
  |   TaskRunner ---------------------^        the process; implements TaskState!Spec
  LibraryFetch  <---  LibraryFetchProofs     (which also extends TaskStateProofs)
                             what an attempt does to works, episodes and files
ExtractionJobStore           the job documents of viewer-api, arbitrary callers
  ^
  Extraction  <---  ExtractionProofs         (of both)
                             handlers, worker, files; implements JobSpec
ReadingRegister              what a reading position promises
  ^
  ReaderState  <---  ReaderStateProofs
                             tabs, positions, bookmarks, imports, removals; implements it
ParallelIdentity TermHistory AIUsage AISettings     what a generation does and leaves behind
  ^
  GenerationProofs           extends the four: each has its own invariant
ReaderAssistant PoliteFetch Publications Proofread  what readers and sites are promised
  ^
  ServiceProofs              extends the four
CharacterIdentity  <---  CharacterProofs
                             who is who, and what readers are told of it
MC*: request lists, symmetry, scenes and the modules the runs name
```

### TaskState

`tasks` is `fetch_tasks` with the columns that carry control (status,
requested_action, the request, attempt_count, execution_committed), `seq` the rows of
`fetch_task_queue`. Progress, messages and warnings are left out. Each transaction is
one action, because the writer pool has one connection; a rolled-back transaction is
no step. The decision between success, "no change" and conflict is a predicate of its
own (`ControlConflict`, `ControlUnchanged`, `ResumeConflict`, `EnqueueConflict`,
`SetWorkIDAllowed`, `CommitAllowed`), since the runner branches on it. Callers are
arbitrary: any attempt number and any outcome may arrive. Dedupe identity
(`CanonicalTarget`, `DedupeKey`, `Fingerprint`) is modelled by which spellings it
identifies.

### TaskRunner

The runner goroutine's program counter `rpc` names the call it is about to make.
`held` is what the runner keeps under its mutex (`taskRef`, `taskAction`,
`taskFinalizing`) and the cause of the attempt's context. Handlers take the per-task
lock, check `held`, signal, write, and notify, as four steps. A SQLite call may fail
(`MaxFaults`), the process may get SIGTERM or crash at any step (`MaxStops`) and then
starts again with `RecoverOnStartup`. The executor is abstract here: it may bind its
work, fail, notice the cancellation, or commit.

### LibraryFetch

One work of one site. The site may revise an episode and change its table of contents
at any moment. An attempt goes through `FindWork`, `FetchToc`, `ListPrevious`,
`UpsertWorkToc`, `SetTaskWorkID`, then for each episode `CheckEpisode`,
`FetchEpisode`, `SaveWrite` (file), `SaveCommit` (row and checkpoint), then
`CompleteWork` and `Finish`; any of them may fail, notice a signal, or be cut by a
crash. `RemoveWork` is two steps, the rows and then the directory. A body document is
the timestamp of its table of contents and the revision of its text; `content_hash`
is the document itself, so two hashes agree when the documents do. The runner's
interleavings are TaskRunner's; here a control of the running task is a `Signal`,
recorded by the time of `Finish`.

### PoliteFetch

The one worker's requests to one host: `Reserve` is `hostState.reserve` with its counter,
its last and its next moment; a fetch waits, sends, is answered, fails and is tried
again, and a wait that is given up keeps its reservation. The clock is discrete and
timers fire on time: `Tick` does not pass a moment the worker waits for. Reservations are
in memory only, so nothing is said over a restart of the process.

### ExtractionJobStore

`jobs` is the directory of job documents, reduced to status, novel and boundary; a job
id is its place in the order of creation. Every operation holds `jobsMu` and is one
action. `Controlled` is the table of transitions in `ControlJob`, `Matches` the
comparison in `SaveJobIfCurrentStatus`. `JobSpec` lets arbitrary callers save what the
processor saves, in any order.

### Extraction

The process around the job documents. `run` is the goroutine that holds
`coordinator.mu`: `pc` is the call it is about to make, `registered` and `canceled` are
its entry in the active map and its context, `fp` and `res` what it has read and
generated. It goes through `Load`, `Register`, `Recheck`, `Start`, `Seed`, `LoadInput`,
`LoadCheckpoint`, then `Send`, `Answer`, `SaveCheckpoint` for each batch, then
`SaveGeneratedTerms`, `SaveEvents`, `SaveProfile`, `DeleteCheckpoint`, `Completed`,
`Unregister` and `Finalize`. A handler saves the job first and calls Kick or Cancel in a
later step (`calls`); `HandleClear` and `HandleRead` write state files next to the
worker. The library changes a text and its etag at any moment (`Revise`). What was
extracted from an episode is represented by the revision of the text it came from, so a
state file is a frontier and a revision per episode. The fingerprint of a checkpoint is
everything it is computed from. Errors of the provider, the library, state files
(`MaxErrors`) and job documents (`MaxFaults`), shutdown and crash (`MaxStops`) may come
at any step; a restart may be one of a build with another checkpoint schema
(`MaxUpgrades`).

Simplifications: a batch is one episode and one request; the generation is the serial
strategy; a clear is one step (it holds both locks, but a crash inside it is left out);
the seed is read in one step, as is the table of contents.

### ParallelIdentity

The two parallel strategies, from the plan of a round to what it hands to the workflow.
A runtime batch is its fingerprint; `Prints` gives the fingerprints of the batches for
each way the provider's limits may make the plan. `work` is where the goroutine of each
batch is: waiting for the limiter, ready with a worker slot, sent, answered, done, failed
or never started. An answer is reduced, put into the session's copy and into the
checkpoint file (`parallel_identity`), or only kept in memory
(`discovery_parallel_correction`, after its round of discovery). A round may be halted,
fail, or crash, and the next one finds what the file has, for the same or for other
inputs, with the same or with another plan.

### CharacterIdentity

The truth is `eventsDoc`: records by id, retired ids, merges by episode, and the ordinal
of the next id (`id_allocator.go`, `event_store.go`); `profileDoc` is what readers get,
derived from it. A generation goes on from the frontier or cuts the history and does a part
again, finds names, proposes merges, gives published ids back (`core.go`), retires and
allocates, and saves events and profile as two writes with a crash in between. What the
model answers is arbitrary: any name at any episode, any two people merged. `ShownAt` is
what a reader at a boundary sees. `called` and `found` are history variables: the names an
id ever stood for, at some boundary, and what was found in the text as it is now.

Giving ids back is a heuristic, and the properties name what it does not promise. `Revives`: the
id is that of somebody merged away whose record is still there. `LeavesBehind`: a merge from
before the redo is kept once with the new and once with the old id (`profile_store.go:143`,
`event_store.go:140`). `MergedTwice`: somebody was merged twice in one episode, or again later,
and which merge counts depends on the ids. PeopleStayWhole and IdKeepsItsPerson are stated for
saves outside these (`Entangled`). `Haunted`: the record of a replaced id is still there, as the
source of a merge that was left behind, and every later save merges its names again;
PeopleStayWhole and EarlierStaysHidden except it. MergesAreDated excepts nothing and is violated.

### TermHistory

The histories of one term: readings, snapshots and facts by episode
(`terms/store.go`), in serial generations, whose snapshot stands for all before it, and
in parallel ones, which add facts. Seeding, cutting, filtering of names of characters,
the merge with what is on disk, the frontier shown to readers, and a save torn between
terms and characters. `said` keeps what the answers said about the text as it is now.

### ReadingRegister, ReaderState

`ReadingRegister` is the abstract specification: a register per novel that a reader may
replace only when the version it knows is the current one. `ReaderState` has the documents
(`reading` with version and tombstone, `marks`, `tuned`), the two steps of every request
(the lookup of the novel, then the write under the mutex), import with rollback, download,
and a removal that asks novel-fetcher, reads all documents once before it changes any, and
prunes store by store. `tab` is `useReaderStateSync` of viewer-web: the version it knows,
the position it shows, a conflict it has not resolved, the save it waits for. A save may be
given up while the server still works on it (`adrift`). The view of a reader in the register
is the newest version among those the tab may still send.

### ReaderAssistant

One run over a table of contents read when it began. The tools read an episode, a range,
the current one, search, and ask for passages by the ids of their hits. `table` is
`reader_search_texts`, `opened` a reader's text that is written through later. A text is the
place at which the word that is looked for stands in it, and the etag it would have as a row.

`texts` has for each episode the etag of its row and the text of its file. A save writes the file
(`SaveBody`), then the row, or puts the file back when the transaction fails (`SaveRow`), or is
killed in between (`SaveStops`). Whoever reads an episode to keep it does so in two steps:
`OpenEpisode` and `OpenBody` for a reader, `AskEpisode` and `FreshEpisode` for a search. So the
cache, the memory of a run and its hits may hold one etag with two texts. The tools that keep
nothing (`Answers`) use the text alone. Histories: `told`, the matches the model was told in this
run, and `result`, the texts in the last answer.

Seven of the nine tools read episodes and are modelled. The other two, the snapshots of characters
and terms, project what CharacterIdentity and TermHistory have up to an episode, and are left out.

### Proofread

A text is a sequence of blocks, each of a kind and a section and with a sequence of signs; a
figure or a blank counts as a block of one sign. The `Layout` of blocks is what they say: the
signs, and the offsets of breaks and indents among them. The answer of the model is any layout
of each segment, refused or applied as `applyOutput` does: a text is split sign by sign
(`WithSign`), and segments are replaced from the last to the first (`ReplacedAt`). Callers of one
episode share a flight, the episode is saved and the prompt of a new build replaces the
old one meanwhile. `original` has the versions of the episode's row and file, which differ during
a save (`ReviseFile`, then `ReviseRow`) and after one that was killed (`ReviseStops`). A
generation takes the etag from the row (`LoadEtag`) and the text from the file (`LoadText`); a
reader needs only the etag (`GetEpisode`). `served` is the last response.

### AIUsage

A run is a chat for every turn, or one to two for proofreading; the client repeats what may
succeed and falls back to a chat without a schema. `billed` is what the provider charged, how
much of it a response told, and how much of that was for answers (HTTP 2xx): a request that fails
may be charged unseen, for `doOpenRouterChatRequest` has no usage of one that got no response,
broke off, was too large or cannot be decoded (`FailedCharges`). `rows` is what the database has,
whose schema may be none, the present, an unnumbered or an unknown one.

### AISettings

`aiDoc` is `ai_generation_settings.yaml` with keys in plain text or under a passphrase;
`phrase` that of this start, or none. A put is checked and saved in two steps, by two tabs.
Labels, models and options are data. The program as it starts may find any document an
earlier version can have left (`WellFormed`), a profile that uses the provider's key but still
has one of its own among them. The requests are those of viewer-web, which names every profile
with an id of its own (`model.ts:362`). `meant` is a history variable: the key last given for a
profile or provider, at first the one in the file.

### Publications

Entries by kind and ISBN, and the cover. A request reads, waits for NDL and Google Books,
and writes in a later step what it made of the entry, which may be joined, hidden or gone by
then. `chosen` and `raced` are history variables.

### MCComponents, MCReader

TaskState, ParallelIdentity, CharacterIdentity, PoliteFetch, AIUsage, TermHistory, AISettings,
Publications and Proofread share no state, so they are explored in one run, each in a
scene of its own: `scene` is chosen at the start and only its component moves. A property of
one component is about its own variables; the others hold still in their initial state.
MCReader does the same with ReaderState and ReaderAssistant.

## 3. What is checked

| Run | Instance | Result |
|---|---|---|
| `components` | nine scenes, bounds below | passes, 814 362 states |
| `runner_safety` | 1 task, 2 handlers, 2 attempts, 1 SQLite failure, 1 stop | passes, 256 000 states |
| `runner_liveness` | 2 tasks in one list, 1 handler, 1 SQLite failure, 1 stop, fairness | passes, 167 000 states |
| `library_fetch` | 1 task (forced or not), 3 attempts, 2 episodes (one undated), 1 change of the list, 1 signal, 1 crash; or 2 tasks, 1 episode, 1 removal, 1 signal | passes, 2 314 760 states |
| `extraction_safety` | 1 novel, 2 episodes, 2 jobs: 3 controls, clears and unreadable documents; or 1 control, 2 revisions, 1 error, 1 stop, 1 upgrade | passes, 2 506 420 states |
| `extraction_served` | 2 novels, 2 jobs, 2 controls, 1 stop, fairness | passes, 168 000 states |
| `reader` | 1 novel, 2 tabs, 2 positions, 2 versions, 2 requests on their way; or the assistant with 3 episodes, 1 run of 3 calls, 2 saves or 1 mishap of the cache | passes, 1 783 454 states |
| `extraction_retry`, `extraction_pausing` | 1 novel, 2 episodes, 3 jobs and 1 job | violated: see section 6 |
| `stale_skip`, `reservation_gap` | 2 tasks, 1 episode | violated: see section 6 |
| `identity_redo` | 2 names, 2 episodes, 3 findings, 1 merge | violated: see section 6 |

The properties of the task system:

* **ReservedOnce** – two reserved tasks never hold one dedupe key or one work,
  although Enqueue, RequestResume and SetWorkID take reservations by different checks.
* **StartupAccepts** – no sequence of transactions leaves tables that
  RecoverOnStartup rejects; rejecting them would stop the service for good.
* **FirstCommitWins** – completion and control exclude each other, and
  the one recorded first decides how the attempt ends, also after a crash.
* **SucceededIsCommitted** – a task succeeds only after the fenced commit.
* **ActionReachesExecutor** – an action on disk has cancelled the executor's context,
  also one that arrived between claim and hand-off.
* **HeldAttemptIsCurrent** – the row does not move on under the runner that holds its
  attempt, so a finalization is never stale.
* **ImplementsTaskState** – the process changes the tables by the repository's
  transactions only (refinement, identity mapping).
* **ControlTakesEffect**, **QueuedIsServed** – liveness under one SQLite failure, and
  under shutdown, crash and restart.
* **CompleteIsReadable**, **FailedSaveKeepsBody** – a complete work has the files its
  rows describe, over failed, cancelled and torn saves.
* **ForcedIsCurrent** – a task that must not skip completes only with bodies of the
  table of contents it read, although checkpoints of earlier attempts count.
* **GapsAreKept** – requests to a host keep the interval and the long pause, over
  retries, waits that were given up, and rests.

Of the extraction:

* **OneActiveJob**, **FinalIsFinal** – a novel never has two active jobs, which would
  block it for ever, and no late save, control or recovery revives a final job.
* **PausedIsQuiet** – a job is shown as paused or interrupted only when no worker
  generates for it.
* **ImplementsJobStore** – handlers, worker and recovery change the job documents by the
  store's operations only.
* **DigestIsTrue** – what is recorded as extracted from a revision was extracted from
  it, although results come from checkpoints while the library changes.
* **CompletedIsWhole** – a job is completed only with terms, characters and profile up
  to its boundary and from the same texts, whatever file an earlier run stopped at.
* **NeverPaidTwice** – within one build, a request whose result is in a checkpoint is
  not sent again.
* **QueuedJobIsServed** – no Kick is lost, also over crash and restart.
* **PublishedIsWhole**, **SavedIsNotResent**, **FailureSparesOthers** – a parallel round
  hands on one result for each batch of its plan, from one revision of the inputs; a batch
  in the checkpoint is not sent again; one failing batch leaves none of the others out.
* **AllIsTold**, **EarlierStaysHidden**, **PeopleStayWhole**, **IdKeepsItsPerson** – at
  each boundary readers see exactly the names found so far; what later episodes reveal
  changes nothing before them; giving ids back joins and splits nobody; an id never comes
  to stand for somebody else.
* **TermsFollowTheText** – at each boundary a term says exactly what the answers about the
  text so far said, over snapshots, facts, redos and torn saves.

Of the reader:

* **RegisterSpec** – with tabs, lost answers, imports and removals a position is a
  register with versions (refinement of `ReadingRegister`).
* **RemovedStaysEmpty** – what a removal cleaned up stays clean until the novel comes back or is
  imported: an import writes what the user asked for and is exempt.
* **BoundaryKept** – none of the seven tools that read episodes goes past the reader's boundary.
* **PassageFitsItsHit** – a passage is of the episode of its hit, not older than the hit's etag,
  and the text of the hit unless a save came between etag and text of one of the two. That it is
  always the text of the hit does not hold (section 6).
* **SearchIsCurrent** – a search never tells a text older than the run's table of contents.
* **ServedSaysTheSame** – a proofreading served as ready says, from beginning to end, what one
  version of the episode says, and none from before the etag it carries. That it is of the very
  version of its etag does not hold (section 6).
* **BilledIsRecorded** – a row of the usage tells all that the responses to a proofreading told,
  at least the answers of a completed run of the assistant, and never more than was charged. What
  was charged unseen is in no row, as `docs/extraction.md:34` expects.
* **KeyIsTheOneMeant** – a generation gets the key last meant for its profile, or an error.
* **CoverWasChosen**, **TwinsNeedARace** – the cover that is kept is one the user chose (where
  there is none, the list falls back to an entry with an image and keeps nothing), and two entries
  for one book exist only if two requests were about it at one time.

### Bounds

Two attempts are the least with a resume in between, three let a checkpoint be written,
outdated and met again. Two handlers are the least that race each other over a task
lock and the runner over the row. Three tasks are the least in which two conflict with
each other while a third runs. Two episodes let a saved one precede a torn one, and
one without a timestamp takes the branch that never skips. One failure, one stop, one
signal and one removal can each fall at any step; none of the code counts how many
came before. `MaxSeq` bounds the queue's key and thereby enqueues and resumes.
Three controls are a pause, a resume and
a pause again, which is what it takes to make a late Cancel meet the next run. Two
extraction jobs let one meet the state, and the checkpoint, of another. Two revisions
make a checkpoint outdated. `extraction_served` leaves out unreadable job documents:
`processJobs` gives up on one until the next Kick, and nothing promises more.

`library_fetch` and `extraction_safety` each join two instances by a constraint
(`OneOrTwoTasks`, `ControlsOrRecovery`), since all bounds together would be too many states.

In the scenes of `components`:

* tasks: 3 tasks, 2 works, 2 spellings of a target, 5 request lists, 2 attempts. Identifiers of
  tasks are taken in order (`InOrder`), as they mean nothing beyond being different.
* parallel: a plan of two batches, or with the second one halved; 2 goroutines at once, 2
  rounds, 2 revisions of the inputs, 1 failing save. Two rounds let one resume the other.
* identity: 2 names, 2 episodes, and two findings with two merges, or with a merge and a torn
  save, or three findings (`OneOrTheOther`): a circle of merges takes two. 3 findings, 1 merge
  and a tear without that constraint: 225 536 states, no error.
* fetching: 12 moments; a site with a long pause after every second request, and one without.
* usage: a run of each kind, 2 turns, 2 attempts, one of them long (`OneLongRun`). With three
  attempts and one run at a time: 1 031 078 states, no error.
* terms: 2 episodes, two things to say, one with a reading. With all sets of two facts and a
  reading: 765 543 states, no error.
* settings: 2 tabs, 2 profiles, 2 passphrases and none, 2 saves, 7 kinds of requests.
* books: 2 requests at once of 3, 2 ISBNs, a file of the first version or one with a cover. With
  4 requests: 445 189 states, no error.
* proofread: 2 callers, 1 reader, 1 upgrade of the prompt, 2 versions with another break in them.
  One has two segments apart, around a figure, the other two that meet at the afterword. A save
  that fails may be tried again, so the text of the second version comes and goes. After the upgrade
  only states in which no save is under way or was torn are gone on from (`OneUpset`); without that
  constraint: 271 110 states, no error.

In the scenes of `reader`:

* positions: two tabs are the least with a conflict; two versions let one be outdated; of
  tabs' saves and bookmarks with settings one or the other moves (`Apart`), as they are
  different files and only removal and import touch both.
* assistant: 3 episodes with the word in two of them, one run, 3 calls, and 2 saves or one mishap
  of the cache (`OneTrouble`). Two searches and a passage are the shortest way to a stale hit, and
  two saves let a text come under an etag that is neither its own nor the one in the table of
  contents. A second save is explored while the last episode has its first text and is past the
  boundary, or no run is under way; with all saves, but not next to a mishap: 3 519 635 states,
  no error.

Symmetry over tasks, handlers, callers, tabs and positions is used in safety runs only. The library,
extraction and reader runs do not check for deadlock: with the environment's bounds used up and
all tasks finished, nothing is left to do. The scenes that may come to an end say so (`TheEnd`).
The types of the tables (`TypeOK`) are checked in `components`; those of the job documents, the
process, the extraction, the library and the tabs are parts of the inductive invariants of
section 4 (`JobTypeOK`, `ProcessTypeOK`, `RunTypeOK` and `FilesTypeOK`, `LibraryTypes`, `FilesOK`
and `TabsSound`), which hold for every instance. The other scenes have none of their own.

### Fairness

Weak fairness for the runner's goroutine and for a handler past its lock: goroutines
are scheduled, SQLite calls and requests to sites return (they have timeouts). Strong
fairness for taking a task lock: `sync.Mutex` serves a waiter after 1 ms in its
starvation mode. Weak fairness for exit and restart: the compose file restarts the
services. For the extraction: weak fairness for the coordinator's goroutine (requests
to the provider have a timeout), for the Kick and Cancel a handler still has to call,
and for exit, restart and recovery. New requests, faults, signals and crashes are never
assumed.

## 4. What is proved

Every theorem holds for any values of the constants that satisfy the module's named
assumptions: any sets of tasks, works, handlers, novels, jobs and episodes, any number of
failures, stops and changes.

`TaskStateProofs`, from `ConstantsAssumption` (0 is not a work id, request lists consist
of valid requests, the bounds are naturals):

* `TaskStateSafe`: the inductive invariant `IInv` (TypeOK, ReservedOnce,
  StartupAccepts, CommitFence) holds in every reachable state;
* `StartupAlwaysAccepts`, `NoDoubleReservation`, `TypesStay`: three of its parts;
* `FirstCommitWinsAlways`: the action property, from `IInv`.

Each conjunct of `IInv` needs others: that
two reserved tasks never collide needs that every enqueued request of a list has a row
of its own; that startup accepts needs the uniqueness of `seq`; that a committed row
has no action (CommitFence) needs that only a running row has one. There is one lemma per
transaction (`EnqueueStep`, `ClaimNextStep`, `SetWorkIDStep`, `CompleteWorkStep`,
`FinalizeStep`, `RequestActionStep`, `RequestResumeStep`, `RecoverStep`), and inside it
a step per conjunct.

`TaskRunnerProofs`, from these and `RunnerAssumption` ("no task" is not a task id):

* `RunnerSafe`: the inductive invariant `RunnerInv`, which is `IInv` and `ProcessInv`;
* `RunnerImplements`: the process implements `TaskState!Spec`, so all of the above holds of
  the running service;
* `SuccessIsCommitted`, `ActionAlwaysReachesExecutor`, `HeldAttemptStaysCurrent`.

`ProcessInv` says where the goroutine stands in relation to the row of its attempt: `Places`
(what it holds at which call), `RowOfAttempt` (the row is running at this attempt from the
claim to FinishTask, unless the process died), `Locked` (who holds the task lock during the
hand-off and finalization), `Signalled` (a handler that is about to write has signalled, and
a signal that was not written is still being written by somebody), `ErrorKept` (an attempt
that finishes as succeeded carries no error, and its row is committed). None of the three
properties is inductive: that an action reaches the executor depends on the lock under which
the hand-off reads it back; that success is committed on the error kept through
beginFinalizing.

`ExtractionProofs` has two parts. Of the job documents with arbitrary callers, from
`JobAssumption` (the bounds are naturals):

* `JobStoreSafe`: `JobInv` (JobTypeOK, OneActiveJob) holds in every reachable state;
* `NeverTwoActiveJobs`: its second part;
* `FinalJobsStayFinal`: the action property FinalIsFinal, from `JobInv`.

`JobSteps` reduces every operation to a new job, a status saved over one that is not
final, a prune, or nothing; the types are needed because a new job must take an id
without a document. `OneActiveJob` is inductive with the types, since every operation
that makes a job active asks for other active ones in the same step.

Of the process, from these and the assumption of Extraction:

* `ExtractionSafe`: the inductive invariant `ExInv`, which is `JobInv` and `RunInv`;
* `ExtractionImplementsJobStore`: the process implements `JobSpec`;
* `PausedStaysQuiet`, `DigestStaysTrue`;
* `CompletedStaysWhole`: the action property CompletedIsWhole, with `WholeInv` on top of `ExInv`;
* `NeverPaysTwice`: the action property NeverPaidTwice, with `PaidInv` on top of both.

`RunInv` follows the worker: `RunSited` (the job in hand exists, its boundary is one),
`RunQuiet` (a job that generates, or is past its last look at the document, is in none of the
states that wait), `RunSeeded` (the seed it read is that of the characters, as far as these
were not cleared since; texts are those of the episodes to process), `RunMerges` and
`CheckpointIsTrue` (results in memory and in checkpoints are results for the texts of their
fingerprint). DigestIsTrue needs the chain from the checkpoint over the results to the events;
PausedIsQuiet needs that every way to stop a job passes the worker's registration.

`WholeInv` says what the files are when no worker is at them, and what the worker relies on.
`TermsFit`: terms that are not behind the characters are from the same texts, up to the first
episode whose text is newer than its etag; that episode will be processed again, and the rest
with it, so a run that died between the two saves is made good by the next one (`SeedIsWhole`).
`RunStarted`: below the first episode to process the seed is whole and is still that of the
files; `RunCleared`: after a clear the worker goes on over an empty state and no document, so
its saves need not fit and nothing can be completed with them. `RunSaved` then follows the saves up
to the last status, which only the worker writes (`OnlyTheWorkerCompletes`).

`PaidInv` says, as long as no build with another schema was started, what became of every
request whose result reached a checkpoint. Its print is either `Overtaken` (the first episode
where the recorded etags differ from the print's seed has a newer one, so this seed never comes
back) or `Pending`; and a pending one is `Passed` (an earlier episode comes first, or one of its
texts is an old one) or still in the checkpoint of its boundary (`PaidFits`). For that no step
may take it from there too early: the worker finds a checkpoint of another print only if nothing
in it is pending and not passed, as all of that was paid for with the worker's own print
(`OnlyThisPrint`), and it deletes its checkpoint only after its events overtook everything
that is paid for (`SaveEventsPaid`, `RunDone`). `RunPays` carries the same through the reading
of the texts, one after the other, while these change: what the worker has read or will read
(`Reads`) is not older than what was paid for.

`ReaderStateProofs`, from `ReaderAssumption` (every tab is open on a novel, "no position" and
"no tab" are none):

* `ReaderSafe`: the inductive invariant `ReaderInv`;
* `ReaderImplementsRegister`: ReaderState implements ReadingRegister;
* `RemovedStaysClean`: RemovedStaysEmpty.

`TabsSound` and `AdriftSound` say that nothing a tab knows, has sent or gave up on is a version
beyond the stored one; so a save that finds its version is that of a tab whose `Newest` is the
current one, which is `Replace`. `Outdated` says that a save let in before a removal expects
a version of before it. RemovedStaysEmpty alone is not inductive: a late save would bring the
position back if versions were not kept in the tombstone.

`LibraryFetchProofs`, from `LibraryAssumption` (episodes are numbers, work ids are 1 to the
number of them, every call brings one request) and the lemmas of `TaskStateProofs`:

* `LibrarySafe`: CompleteIsReadable and FailedSaveKeepsBody; `FailedSaveLosesNothing`: the
  latter by itself;
* `ForcedIsCurrentAlways`: the action property ForcedIsCurrent;
* `LibraryKeepsTables`: `IInv` holds here too, although `HandleEnqueue` rewrites the request
  it was given (`EnqueueStep` is therefore proved for every list of valid requests).

The inductive invariant is `LibraryIInv`. `StoringSound` says what an attempt may rely on between
`UpsertWorkToc` and `CompleteWork`: the work is the one it stored or is gone, it is shown as
partial, every episode row is in its table of contents, and the episodes it is done with are
stored (and current, when it must not skip: `Handled`). `SaveSound` describes the save under
way: the file is the new document, or a late `RemoveFiles` took it, and the remembered file
is the one the row describes. CompleteIsReadable needs the first, FailedSaveKeepsBody the
second, because a save that is rolled back is only as good as what it remembered.

`GenerationProofs` has four parts that share no state.

*ParallelIdentity*, from `ParallelAssumption` (every plan has a batch, one has the most):

* `GenerationSafe`: the inductive invariant `ParallelInv`;
* `PublishedStaysWhole`, `SavedStaysSaved`, `FailureAlwaysSparesOthers`.

`OfOneRevision` says that whatever a round holds is of the inputs it began with, as is what it
may take from the checkpoint; `Gathered` relates the goroutines to the session and the file
(a batch that is done has its result in both, one that is still to be sent has none in the
file); `WasAnswered` is what the strategy that keeps answers in memory needs instead.
PublishedIsWhole rests on all three and on `AllGathered`: a round that neither halted nor failed
has every batch at `done`. FailureSparesOthers is an action property; only a halt leaves batches
unsent (`LeftOutWhenHalted`).

*TermHistory*, from the assumption of the module: `TermsAlwaysFollowTheText`. The inductive
invariant `TermInv` says of the document that its histories follow what was said
(`Follows`), that a serial snapshot stands for the batch it ends (`InBatches`), and of a
generation under way that what it has gathered follows the answers since its first episode, and
what it began with follows those before (`Gathering`). There is a lemma for every operator the
code composes: `FilteredFollows`, `DeltaFollows`, `CombinedIsHistory`, `CombineKeepsFacts`, and
`ShownIsSaid` for the reader's side, which goes back from a boundary to the last episode with
something to show (`LatestIsLast`).

*AIUsage*, from `UsageAssumption`: `UsageSafe`. `Counted` relates what the client has
counted for the current chat and the run to what was charged, told and charged for answers, by
phase and kind; `RowTells` is that relation for rows. Nothing is said of charges that nobody
saw but that no row counts them.

*AISettings*, from `AISettingsAssumption`, `OldFilesAssumption` (documents of earlier versions
are well formed) and `RequestsAssumption` (a list names a profile once): `KeysStayMeant`. The
inductive invariant has `WellFormed(aiDoc)` and `KeysFit`: every stored key is the one that is
meant, under the passphrase it was given under or, before the first read with one, in plain
text. `ProfileIsFound` makes the profile of an id the only one, `ReadsAreGood` says that a read
keeps both parts although its write may fail after it changed the profiles in memory, and
`UpdatedIsGood` that a save does, whatever was kept, cleared, sent or moved.

`ServiceProofs` has four.

*ReaderAssistant*, from `AssistantAssumption`: `BoundaryStaysKept`, `PassagesAreHits`,
`SearchesAreCurrent`. `Held` is the set of all copies of texts with the etag each was read under:
in the library, the run, the cache, on the way to a reader, in a search under way. `AssistantInv`
says of it that no copy is older than the etag it was read under and that no two texts would get
the same etag (`HeldFits`): two requests can give an old etag a new text, but never a new etag an
old one, since the file of a save is written first. `ToldByTheRun` says that the hits the
run can look up are those the model was told, with numbers below the next, `Current` that a search
gathers texts of the run's table of contents or later ones, and `AskedFirst` that an etag asked for
is not newer than the library's. Every step has a lemma; the steps that read or save follow from
`HeldBefore` and `LibraryKeeps`.

*PoliteFetch*, from `PoliteAssumption` (the interval is positive; the other numbers of a policy
may be anything): `GapsStayKept`. `InTime` says that nobody waits for less than the interval
after the last request, or sends before his time; `Counted` relates the counter to the requests
sent in a row without a long pause. The counter modulo `WaitSteps` is a fact about integers that
is proved first (`Remainders`).

*Publications*, from `PublicationsAssumption` and `FilesAssumption` (a file has a cover only
with its entry, and a book once): `CoverStaysChosen` from `CoverInv`, `BooksAreOnce` from
`ShelfInv`. TwinsNeedARace is not inductive: an entry that a request has decided on is only
alone if no other request is about its book and its write replaces every entry of it
(`AloneWith`).

*Proofread*, from `ProofreadAssumption` (there is a version of the episode, and versions are
sequences of blocks that have text): `ServedIsTheSame`, from two parts.

* `ProofreadSafe`, about requests. In `ProofreadInv`, `Aboard` says that everybody on a flight
  has one and that it has one leader, who leads it; `FlightMends` that the flight has an etag the
  library had, then a version that is not older, and that its response was made from it by an
  accepted answer; the same of what is stored and served (`MadeOf`). The version may be newer than
  the etag, as the two are read apart, and may have been rolled back since.
* `AppliedSaysTheSame`, about texts: what an accepted answer leaves of a text says what the text
  said, for every text. Layouts of blocks can be put together from those of their parts
  (`LayoutOfParts`), so a part may be replaced by one that says the same (`SameAfter`,
  `SameBefore`). Paragraphs split off a layout are laid out like it (`SplitRight`, by
  `SplitSoFar`, which says so of the signs up to n). Hence a mended segment says the same
  (`SegmentMended`). `DoneAfter` is what holds when the blocks after place i are done: all says
  the same, and up to the next segment nothing is changed, so its places in the source are still
  its places. That is why `applyOutput` begins with the last segment: `ParagraphsOf` may have more
  or fewer blocks than it replaces.

Texts, splits and replacements are recursive functions over blocks and signs. No theorem of the
library could be used for the inductions; `UpTo` and `BlockByBlock` do them with sets: a set of
numbers up to m with 0 and every successor misses none, because the least missing one
(`WFMin`) would have a predecessor that is there.

`CharacterProofs`, from `CharacterAssumption` (there is an episode; the bounds are naturals):

* `IdentityInductive`: the inductive invariant `IdentityInv`;
* `NothingIsLost`: AllIsTold;
* `HistoryInductive`: with it, the second invariant `HistoryInv`;
* `LaterStaysLater`, `NobodyIsSplitOrJoined`, `IdsKeepTheirPersons`: EarlierStaysHidden,
  PeopleStayWhole, IdKeepsItsPerson.

Who somebody is at a boundary is the end of a way along the merges (`Stands`). Three things have
to be known of these first. The merges that are told are determined although each depends on
those before it (`ToldOnlyOneWay`, `KeptIsTold`), and those told up to an episode are those told
among the merges up to it (`KeptUpTo`). They never close a circle (`KeptIsAcyclic`): a circle has
a last merge, which was then not acceptable. So a way without a circle ends, at a record that
is there (`StandsEnds`, `SurvivorSurvives`). Merging then loses nobody (`MergedTells`), and
`IdentityInv` has only to say that the document, and a generation under way with what it left of
the document, have exactly the names that were found, and that every used id is below the next.
Every operation of a save has a lemma about the names it passes on (`CutTells`,
`RenumberedTells`, `WithNamesTells`, `PreservedTells`, `NewEventsTell`).

The other three compare a document with the one before it. `HistoryInv` says of the document
that everybody has a name from where he first appears (`Rooted`; without it a cut would change
what is shown before it), that its merges are between known ids (`MergesFit`, `MergesKnown`; an
id given out later would otherwise be merged at once) and all told, and that `called` has
whoever stands anywhere in it; and of a generation that its records go on from those the
document has before its first episode (`GoesOn`), and its merges likewise (`MergesGoOn`). With
it:

* a save that gives no id back writes what the generation has (`PlainSave`), so readers before
  its first episode are shown the same (`SameShown`);
* a save that gives ids back writes the generation under other ids. These are given back to one
  person each and to nobody who has another (`GivenApart`), so merges that are each their source's
  only one stay acyclic, told and in the same ways (`RenamedTold`, `RenamedStands`), and the same
  people survive (`SurvivorsCarried`);
* who gets an id back shares a name with somebody it stood for (`GivenBackWasCalled`), who keeps
  one keeps a name from the document (`BaseWasCalled`), and a new one is given out once.

In three places the code looks for the first or last of something (`CHOOSE` over a sequence or
a set of numbers). Their values are found with the library's theorem on least elements of a
well-founded set (`WFMin`), which takes no operator parameter and stands in for the induction.

`RunnerInv`, `ExInv`, `WholeInv`, `PaidInv`, `ReaderInv` and `LibraryIInv` were model-checked on the instances of
`runner_safety`, `extraction_safety`, `reader` and `library_fetch` before they were proved,
and the invariants of GenerationProofs and ServiceProofs on the scenes of `components` and `reader`; `IdentityInv`
and `HistoryInv` with 2 names, 2 episodes, 4 findings and a merge: 327 752 states.

Only model-checked:

* liveness (ControlTakesEffect, QueuedIsServed, QueuedJobIsServed), which is out of TLAPS's reach.

Every invariant and action property of a passing run is stated by a theorem.

## 5. What is not modelled

* Images, raw HTML, titles, progress and messages: no property depends on them. Schema
  versions of body files and the maintenance of the database.
* The writer lock and barrier: held for the life of a process; the models have one process
  because of them. The read APIs, library views and storage usage only read. The fixture
  builder is a test tool. Atomic replacement of a file (write, rename) is taken as one step.
* The site parsers and page layouts, as text. Which URLs may be asked, redirects, sizes.
* Of the extraction: the heuristic mode, prompts and answers as text, estimates of tokens and
  what they make of a batch, job documents that are malformed or of another schema version,
  the job index, progress, and the pruning of jobs after the removal of a novel.
* Scoring and heuristics of characters and terms; several terms at once (their histories do
  not touch one another).
* The preferences document (one record, last write wins), the cache of model limits
  (`LookupOpenRouterModelInfo`), streaming of the assistant's answer, its snapshots of characters
  and terms.
* The rest of viewer-web: presentation.

## 6. Disagreements between code and documentation

1. `stale_skip`: `UpsertWorkToc` moves the new source timestamps into a row that keeps
   its old body and its status complete. If the attempt stops before the episode is
   fetched, the next attempt that may skip takes the old body for current.
2. `reservation_gap`: a download stores its new work before its task holds it, so an
   update of that work is accepted in between. The download then fails at
   `SetTaskWorkID`.
3. `extraction_retry`: a reprocessing up to an episode before the character frontier
   saves the terms with the lower frontier first. A crash or error before the character
   events leaves terms behind characters, which every later job refuses as state of an
   old version; only a clear helps.
4. `extraction_pausing`: a Cancel that arrives late ends the next run of the job and
   leaves it running without a worker. A pause accepted then makes it pausing, which no
   worker takes up: it stays so until the next start.
5. `identity_redo`: a redo may give the survivor of a merge the id of the person who was
   merged into it. Both records then have one id and are one person at every boundary, also
   for a reader before the episode of the merge.

The models show more behaviours that a reader of the documentation may not
expect; no run is kept for them.

Of the fetcher:

* `CompleteWorkForTask` does not notice that the work was removed during the attempt:
  the task succeeds without one.
* The pacing of requests is not kept over a restart of the process.

Of the extraction:

* Nobody looks at the context between the last answer and the saves, so a canceled
  extraction can still be reflected in the canonical state.
* A cancel makes the status of a job final at once, so a clear is accepted while the
  worker still generates, and the worker's saves outlive it.
* The worker moves a checkpoint that does not fit before any status is saved. A pause in
  between keeps "failed" from being saved, and a resume then sends everything again.
  NeverPaidTwice is therefore stated for runs without a change of the checkpoint schema.
* Of two merge decisions about one source the later replaces the earlier; two of one episode
  are taken in the order of their ids, so giving ids back may change which one counts.
* A redo may change the id that is shown at earlier boundaries. It keeps the merges from before
  its first episode with their old ids next to those it renumbered (`event_store.go:140`). The old
  id may then come back as a record of its own, whose names every later save merges again.
* After a torn save of a redo the old profile is served until the job runs again.
* A term saved by an earlier generation that turns out to be the name of a character is
  filtered from the generation's result but comes back from disk in `SaveGeneratedTerms`;
  `core_test.go:674` says of the result that it "must be removed". TermsFollowTheText tells
  readers of it accordingly.

Of the reader's side:

* `load_passages` compares the etag of a hit with that of the text now remembered
  (`readerassistant/service.go:1422`). Two searches of one run can read two texts under one etag:
  the first between two saves, the second while the file of the next save is there and its row is
  not. The passage is then cut from the newer text at the position of the hit in the older one,
  where the code means to ask for a new search and `docs/reader-ai-assistant.md:42` promises what
  surrounds the hit. PassageFitsItsHit says how far it can go.
* A generation of a proofreading can read the old etag and the new text, and the transaction of the
  save fail. The result of the text that was taken back is stored under the etag of the text that
  stays, and served for it until it is generated again or deleted, although
  `docs/reader-ai-proofread.md:37` ties a result to the etag of its original. ServedSaysTheSame
  therefore lets the version be a newer one than the etag's.
* A follower of a proofreading in flight may get the answer for an older text, or its
  leader's failure. A generation that finishes after the removal of its novel writes its file
  again, and rows of the usage of a removed novel can come back.
* A request whose response is lost or unreadable may be charged without a trace in the usage
  (`docs/extraction.md:34` says so of extractions); BilledIsRecorded bounds rows by what was told.
* A failed run of the assistant is recorded with no tokens although earlier turns were paid
  (`docs/architecture.md:338`), and the attempts of a tool chat before the last are not counted;
  BilledIsRecorded asks for neither.
* `docs/state-schema-policy.md:249` says that a key that cannot be decrypted fails the start;
  the start only reads the document, and the failure comes with the first generation.
* AI settings have no version: the list of a stale tab replaces newer profiles; a profile that
  was selected in one read may be gone at the save, which then selects the first one; two
  profiles with one id are not refused.
* Overlapping registrations of one ISBN may leave two entries (TwinsNeedARace exempts them); a
  write after a removal brings the entry back; a failed lookup replaces good data and may lose
  the chosen cover.

## 7. What is left

1. LibraryFetch with images and checkpoints of warnings; a crash inside a clear; the pruning
   of extraction jobs after a removal.
2. A composition of TaskRunner with LibraryFetch in which both interleavings meet; of
   ReaderState's removal with generations that are under way.
3. Proofs of what these add; of the passing runs, only the three liveness properties are without one.
