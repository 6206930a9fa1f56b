------------------------------- MODULE AIUsage -------------------------------
(***************************************************************************)
(* The OpenRouter client of viewer-api and the usage database.  A run of   *)
(* proofreading is one chat, or two if the first answer is refused; a run  *)
(* of the reader assistant is a chat for every turn.  The client repeats a *)
(* request that may succeed, and asks once more without a schema where no  *)
(* provider enforces one.  Any request may be billed, but what was billed  *)
(* is only seen in a response that arrives whole and can be decoded.  Runs *)
(* end in one row of a database whose schema this release knows, or does   *)
(* not.                                                                    *)
(***************************************************************************)
EXTENDS Naturals, FiniteSets

CONSTANTS Runs,           \* runs of one novel
          Kinds,          \* kind of a run: "proofread" or "assistant"
          Schemas,        \* what the database file is at the start
          MaxTurns,       \* readerAssistantMaxAgentTurns
          MaxAsks         \* attempts of a chat

ASSUME UsageAssumption ==
  /\ Kinds \in [Runs -> {"proofread", "assistant"}]
  /\ Schemas \subseteq {"absent", "empty", "unversioned", "current", "partial", "future"}
  /\ {MaxTurns, MaxAsks} \subseteq Nat \ {0}

VARIABLES calls,     \* a run: phase, turn, attempt, schema, tokens of the
                     \* chat (spent) and of the run (total), its status
          billed,    \* what every run has been charged, how much of it a
                     \* response told the client, and how much of that was
                     \* for answers (HTTP 2xx)
          file,      \* schema of the database, or that there is none
          rows,      \* ai_usage_runs with their requests
          removed    \* the novel has been removed

usage == <<calls, billed, file, rows, removed>>

Chats(r) == IF Kinds[r] = "proofread" THEN 2 ELSE MaxTurns

\* The schemas this release reads: none yet, the tables before migrations
\* had numbers, and its own.
Known == {"absent", "empty", "unversioned", "current"}

-----------------------------------------------------------------------------
(* The client                                                               *)

Billed(r, n, seen, answer) ==
  billed' = [billed EXCEPT ![r] = [all |-> @.all + n, seen |-> @.seen + seen,
                                   answers |-> @.answers + answer]]

\* What a failed request may have cost, and what the client sees of it: usage
\* beside the error, or nothing where no response came, it broke off, was too
\* large or cannot be decoded (doOpenRouterChatRequest returns no usage then).
FailedCharges == {c \in {0, 1} \X {0, 1} : c[2] <= c[1]}

\* The tokens of all attempts of a chat count; a tool chat knows only the
\* last one.
SpentOn_Last(r, n) == n
SpentOn(r, n) == IF Kinds[r] = "proofread" THEN calls[r].spent + n ELSE n

Begin(r) ==
  /\ calls[r].phase = "idle"
  /\ calls' = [calls EXCEPT ![r].phase = "asking", ![r].schema = Kinds[r] = "proofread"]
  /\ UNCHANGED <<billed, file, rows, removed>>

\* The chat ends well: one more turn, or the answer that ends the run.
Answered(r, n) ==
  LET total == calls[r].total + SpentOn(r, n)
      next == [calls[r] EXCEPT !.total = total, !.spent = 0, !.attempt = 0,
                 !.turn = @ + 1, !.schema = Kinds[r] = "proofread"]
      last == next.turn = Chats(r)
  IN \/ calls' = [calls EXCEPT ![r] = [next EXCEPT !.phase = "record", !.status = "completed"]]
     \/ calls' = [calls EXCEPT ![r] =
          IF last THEN [next EXCEPT !.phase = "record", !.status = "failed"] ELSE next]

\* An error ends the run.  Proofreading counts the tokens that came with it,
\* the assistant records its failed runs without tokens.
Broken(r, n) ==
  calls' = [calls EXCEPT ![r].phase = "record", ![r].status = "failed",
              ![r].total = IF Kinds[r] = "proofread" THEN @ + SpentOn(r, n) ELSE 0]

\* A text, or calls of tools; also an empty or truncated text.
Response(r) ==
  /\ calls[r].phase = "asking" /\ Billed(r, 1, 1, 1)
  /\ Answered(r, 1) \/ Broken(r, 1)
  /\ UNCHANGED <<file, rows, removed>>

\* Refused for good, an answer that is too large or no JSON, or the caller is
\* gone.
Refused(r) ==
  /\ calls[r].phase \in {"asking", "pausing"}
  /\ \/ /\ calls[r].phase = "asking"
        /\ \E c \in FailedCharges : Billed(r, c[1], c[2], 0) /\ Broken(r, c[2])
     \/ calls[r].phase = "pausing" /\ UNCHANGED billed /\ Broken(r, 0)
  /\ UNCHANGED <<file, rows, removed>>

\* 408, 429, 5xx, a broken connection or no answer in time.
Busy(r) ==
  /\ calls[r].phase = "asking"
  /\ \E c \in FailedCharges :
       /\ Billed(r, c[1], c[2], 0)
       /\ IF calls[r].attempt + 1 = MaxAsks THEN Broken(r, c[2])
          ELSE calls' = [calls EXCEPT ![r].phase = "pausing", ![r].attempt = @ + 1,
                           ![r].spent = SpentOn(r, c[2])]
  /\ UNCHANGED <<file, rows, removed>>

Again(r) ==
  /\ calls[r].phase = "pausing"
  /\ calls' = [calls EXCEPT ![r].phase = "asking"]
  /\ UNCHANGED <<billed, file, rows, removed>>

\* No endpoint can enforce the schema: a chat of its own without it, with
\* all its attempts.
WithoutSchema(r) ==
  /\ calls[r].phase = "asking" /\ calls[r].schema
  /\ calls' = [calls EXCEPT ![r].schema = FALSE, ![r].attempt = 0]
  /\ UNCHANGED <<billed, file, rows, removed>>

-----------------------------------------------------------------------------
(* The database                                                             *)

Accepts(schema) == schema \in Known

\* A removal and a start migrate what is there and create nothing.
Migrated == IF file \in {"absent", "empty"} THEN file ELSE "current"

UsageRow(r) == [run |-> r, status |-> calls[r].status, tokens |-> calls[r].total]

\* What the pages on usage show; an error where the schema is not known.
UsageShown == IF Accepts(file) THEN rows ELSE {}

\* SaveUsageRun; the run ends as well if the row cannot be written.
Record(r) ==
  /\ calls[r].phase = "record"
  /\ calls' = [calls EXCEPT ![r].phase = "done"]
  /\ IF Accepts(file) THEN file' = "current" /\ rows' = {x \in rows : x.run # r} \cup {UsageRow(r)}
     ELSE UNCHANGED <<file, rows>>
  /\ UNCHANGED <<billed, removed>>

RecordFails(r) ==
  /\ calls[r].phase = "record"
  /\ calls' = [calls EXCEPT ![r].phase = "done"]
  /\ UNCHANGED <<billed, file, rows, removed>>

\* The novel is removed: its usage goes, if the preflight of the removal let
\* it begin.
PruneUsage ==
  /\ ~ removed /\ Accepts(file) /\ removed' = TRUE /\ rows' = {}
  /\ file' = Migrated
  /\ UNCHANGED <<calls, billed>>

\* The process is killed and started again: the runs are gone, and the
\* database is migrated if there is one.  It does not start with another.
Restart ==
  /\ Accepts(file) /\ \E r \in Runs : calls[r].phase \notin {"idle", "done"}
  /\ calls' = [r \in Runs |-> IF calls[r].phase = "idle" THEN calls[r]
                              ELSE [calls[r] EXCEPT !.phase = "done"]]
  /\ file' = Migrated
  /\ UNCHANGED <<billed, rows, removed>>

\* The file is replaced under the running program, by one of a later release
\* or one that was put together by hand.
FileReplaced(schema) ==
  /\ file # schema /\ schema \in Schemas \ Known
  /\ file' = schema /\ rows' = {}
  /\ UNCHANGED <<calls, billed, removed>>

UsageInit ==
  /\ calls = [r \in Runs |-> [phase |-> "idle", turn |-> 0, attempt |-> 0, schema |-> FALSE,
                              spent |-> 0, total |-> 0, status |-> "none"]]
  /\ billed = [r \in Runs |-> [all |-> 0, seen |-> 0, answers |-> 0]]
  /\ file \in Schemas \cap Known /\ rows = {} /\ removed = FALSE

UsageAtEnd == \A r \in Runs : calls[r].phase = "done"

UsageNext ==
  \/ \E r \in Runs :
       \/ Begin(r) \/ Response(r) \/ Refused(r) \/ Busy(r) \/ Again(r) \/ WithoutSchema(r)
       \/ Record(r) \/ RecordFails(r)
  \/ PruneUsage \/ Restart
  \/ \E schema \in Schemas : FileReplaced(schema)

UsageSpec == UsageInit /\ [][UsageNext]_usage

-----------------------------------------------------------------------------
(* Properties                                                               *)

\* A row tells what the responses told: for proofreading all of it, also of a
\* failed run, with every attempt and the chat without a schema in it; for a
\* completed run of the assistant at least its answers.  No row tells more than
\* was charged, and charges nobody saw are in none (GenerateOpenRouterChat,
\* recordUsage, runReaderAssistantAgentLoop).
BilledIsRecorded ==
  \A x \in UsageShown :
    /\ Kinds[x.run] = "proofread" => x.tokens = billed[x.run].seen
    /\ x.status = "completed" => x.tokens >= billed[x.run].answers
    /\ x.tokens <= billed[x.run].all

=============================================================================
