----------------------------- MODULE MCComponents -----------------------------
(***************************************************************************)
(* The components that share no state with one another, side by side: each *)
(* behaviour plays one scene, and the parts of the others stay as they     *)
(* begin.                                                                  *)
(***************************************************************************)
EXTENDS TaskState, ParallelIdentity, CharacterIdentity, PoliteFetch, AIUsage, TermHistory,
        AISettings, Publications, Proofread, TLC

CONSTANTS a, b, r1, r2

VARIABLE scene

components ==
  <<scene, stateVars, parallel, identity, polite, usage, termVars, aiSettings, publications,
    proofread>>

-----------------------------------------------------------------------------
(* "tasks": two spellings of one site work, two rows of works, and lists of *)
(* one or two requests.                                                     *)

Code    == [site |-> "syosetu", work |-> "n1", form |-> "ncode"]
Page    == [site |-> "syosetu", work |-> "n1", form |-> "episode url"]
MCTargets == {Code, Page}
Download(t, w, o) == [kind |-> "download", target |-> t, work |-> w, opts |-> o]
Update(w, o) == [kind |-> "update", target |-> NoTarget, work |-> w, opts |-> o]
ResumeOf(w) == [kind |-> "resume", target |-> NoTarget, work |-> w, opts |-> {}]

MCBatches ==
  { <<Download(Code, NoWork, {})>>,
    <<Download(Page, NoWork, {}), Update(1, {})>>,
    <<Download(Code, 1, {"force"})>>,
    <<Update(1, {}), Update(1, {})>>,
    <<Update(2, {"skip_unchanged"}), ResumeOf(1)>> }

\* A task that is stored gets the next identifier; identifiers mean nothing else.
InOrder == \A t, u \in TaskIDs :
  t < u /\ tasks[u].status # "absent" => tasks[t].status # "absent"

(* "parallel": two batches, the second is halved when it is too long.       *)

MCPrints == [whole |-> <<"x", "y">>, halved |-> <<"x", "y1", "y2">>]

(* "identity": two names, many findings or many merges.                     *)

MCNames == {a, b}
OneOrTheOther == findings + joined + tears <= 4 /\ (findings < MaxFindings \/ joined + tears = 0)

(* "fetching": a site with a long pause after every second request, and one *)
(* without.                                                                 *)

Slow == [Interval |-> 1, WaitSteps |-> 2, StepsWait |-> 3, RetryWait |-> 2,
         MaxRetries |-> 1]
Plain == [Interval |-> 2, WaitSteps |-> 0, StepsWait |-> 0, RetryWait |-> 0,
          MaxRetries |-> 1]
MCPolicies == {Slow, Plain}

(* "usage": a run of each kind; only one of them is long.                   *)

MCKinds == r1 :> "proofread" @@ r2 :> "assistant"
OneLongRun == \E r \in Runs : calls[r].phase \in {"idle", "done"} /\ billed[r].all <= 1

(* "terms": two things to say about a term, one of them with its reading.   *)

MCSayings == {[says |-> {"x"}, read |-> ""], [says |-> {"y"}, read |-> "r"]}

(* "settings": a file with keys in plain text, and what two tabs may send:  *)
(* a selection, keys, lists with and without a profile, and one of an older *)
(* client.                                                                  *)

KeepKeys == [openrouter |-> "keep", googleBooks |-> "keep"]
Nothing == [kind |-> "put", mode |-> "", select |-> "", providers |-> KeepKeys, profiles |-> <<>>]
Profile(id, source, op, beside) ==
  [id |-> id, source |-> source, op |-> op, beside |-> beside, model |-> TRUE]
MCPutRequests ==
  { [Nothing EXCEPT !.select = "b"],
    [Nothing EXCEPT !.mode = "llm"],
    [Nothing EXCEPT !.providers = [openrouter |-> "k2", googleBooks |-> "clear"]],
    [Nothing EXCEPT !.select = "default",
       !.profiles = <<Profile("default", "shared", "keep", "keep"),
                      Profile("b", "custom", "k1", "keep")>>],
    [Nothing EXCEPT !.profiles = <<Profile("b", "custom", "keep", "keep"),
                                   Profile("default", "custom", "keep", "keep")>>],
    [Nothing EXCEPT !.select = "b", !.profiles = <<Profile("b", "", "keep", "keep")>>],
    [Nothing EXCEPT !.select = "default", !.profiles = <<Profile("", "", "keep", "k2")>>] }
MCOldFiles ==
  { [revision |-> 0, mode |-> m, selected |-> "default",
     providers |-> [openrouter |-> PlainKey("k0"), googleBooks |-> PlainKey("k0")],
     profiles |-> <<[id |-> "default", model |-> TRUE, stored |-> PlainKey("k1"),
                     source |-> IF m = "llm" THEN "custom" ELSE "shared"],
                    [id |-> "b", model |-> m = "llm", stored |-> PlainKey("k2"),
                     source |-> "custom"]>>] : m \in {"llm", "heuristic"} }

(* "books": a file of the first version, or a book with its cover.          *)

OldEntry == [id |-> Base("novel", ""), kind |-> "novel", isbn |-> "", status |-> "unknown",
             image |-> FALSE]
OneBook == [OldEntry EXCEPT !.id = Base("novel", "i1"), !.isbn = "i1",
                                !.status = "manual", !.image = TRUE]
MCFiles == {[entries |-> {OldEntry}, cover |-> NoId],
            [entries |-> {OneBook}, cover |-> OneBook.id]}

(* "proofread": an indented paragraph after the end of a sentence and one   *)
(* after a figure, then a version with another break and an afterword.      *)

Paragraph(text, indent) ==
  [kind |-> "paragraph", section |-> "body", text |-> text, indent |-> indent]
Figure == [kind |-> "figure", section |-> "body", text |-> <<"figure">>, indent |-> FALSE]
Afterword == [Paragraph(<<"c">>, FALSE) EXCEPT !.section = "afterword"]
MCVersions ==
  << <<Paragraph(<<"stop">>, FALSE), Paragraph(<<"b">>, TRUE), Figure,
       Paragraph(<<"c">>, FALSE)>>,
     <<Paragraph(<<"b", "stop", "a">>, FALSE), Afterword>> >>
Symmetry == Permutations(Callers)
\* A program that was upgraded meets a row and a file that agree.
OneUpset == prompt = 1 \/ (original.before = 0 /\ original.row = original.file)

-----------------------------------------------------------------------------
ComponentsInit ==
  /\ scene \in {"tasks", "parallel", "identity", "fetching", "usage", "terms", "settings",
                "books", "proofread"}
  /\ Init /\ ParallelInit /\ CharacterInit /\ PoliteInit /\ UsageInit /\
     TermInit /\ AISettingsInit /\ PublicationsInit /\ ProofreadInit
  /\ scene # "parallel" => strategy = Identity
  /\ scene # "fetching" => policy = Slow
  /\ scene # "usage" => file = "current"
  /\ scene # "settings" => aiDoc.mode = "llm"
  /\ scene # "books" => shelf.cover = NoId

TaskScene ==
  /\ scene = "tasks" /\ Next
  /\ UNCHANGED <<scene, parallel, identity, polite, usage, termVars, aiSettings,
                 publications, proofread>>
ParallelScene ==
  /\ scene = "parallel" /\ ParallelNext
  /\ UNCHANGED <<scene, stateVars, identity, polite, usage, termVars, aiSettings,
                 publications, proofread>>
IdentityScene ==
  /\ scene = "identity" /\ CharacterNext
  /\ UNCHANGED <<scene, stateVars, parallel, polite, usage, termVars, aiSettings,
                 publications, proofread>>
FetchingScene ==
  /\ scene = "fetching" /\ PoliteNext
  /\ UNCHANGED <<scene, stateVars, parallel, identity, usage, termVars, aiSettings,
                 publications, proofread>>
UsageScene ==
  /\ scene = "usage" /\ UsageNext
  /\ UNCHANGED <<scene, stateVars, parallel, identity, polite, termVars, aiSettings,
                 publications, proofread>>
TermScene ==
  /\ scene = "terms" /\ TermNext
  /\ UNCHANGED <<scene, stateVars, parallel, identity, polite, usage, aiSettings,
                 publications, proofread>>
SettingsScene ==
  /\ scene = "settings" /\ AISettingsNext
  /\ UNCHANGED <<scene, stateVars, parallel, identity, polite, usage, termVars,
                 publications, proofread>>
BookScene ==
  /\ scene = "books" /\ PublicationsNext
  /\ UNCHANGED <<scene, stateVars, parallel, identity, polite, usage, termVars,
                 aiSettings, proofread>>
ProofreadScene ==
  /\ scene = "proofread" /\ ProofreadNext
  /\ UNCHANGED <<scene, stateVars, parallel, identity, polite, usage, termVars,
                 aiSettings, publications>>

\* Scenes may come to an end.
TheEnd ==
  /\ \/ scene = "parallel" /\ ParallelAtEnd
     \/ scene = "fetching" /\ PoliteAtEnd
     \/ scene = "usage" /\ UsageAtEnd
     \/ scene = "proofread" /\ ProofreadAtEnd
  /\ UNCHANGED components

ComponentsNext ==
  \/ TaskScene
  \/ ParallelScene
  \/ IdentityScene
  \/ FetchingScene
  \/ UsageScene
  \/ TermScene
  \/ SettingsScene
  \/ BookScene
  \/ ProofreadScene
  \/ TheEnd
ComponentsSpec == ComponentsInit /\ [][ComponentsNext]_components
=============================================================================
