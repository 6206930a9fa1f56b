--------------------------- MODULE ReaderAssistant ---------------------------
(***************************************************************************)
(* The reader assistant of viewer-api: a language model asks for tools     *)
(* that read the episodes of one novel up to the spoiler boundary of the   *)
(* reader, over a table of contents read when the run began.  Searches go  *)
(* through the memory of the run and a text cache that the runs, and the   *)
(* readers who open episodes, fill; meanwhile novel-fetcher revises        *)
(* episodes, the file of the text first and then the row that has its      *)
(* ETag.  An episode is read the other way round, the ETag in one request  *)
(* and the text in the next, so that the text may be newer than the ETag   *)
(* it is remembered under.  Every episode holds the word that is looked    *)
(* for at most once, early in the text or late.                            *)
(***************************************************************************)
EXTENDS Naturals, FiniteSets

CONSTANTS Book,          \* episodes 1..Book, in the order of the table
          Openings,      \* the places of the word in the first texts:
                         \* "none", "early" or "late"
          Questions,      \* the episode being read, the boundary, and whether
                         \* the table of contents can be read
          Revisions,     \* what an episode may become: [episode, place]
          Buckets,       \* parts of a search that must be heard
          RangeLimit,    \* episodes of one range
          Limits,        \* values of maxResults
          MaxEdits, MaxCalls, MaxRuns,
          MaxMishaps     \* losses of the cache and failures to read or to save

ASSUME AssistantAssumption ==
  /\ {Book, Buckets, RangeLimit} \subseteq Nat \ {0} /\ Limits \subseteq Nat \ {0}
  /\ {MaxEdits, MaxCalls, MaxRuns, MaxMishaps} \subseteq Nat
  /\ Openings \subseteq [1..Book -> {"none", "early", "late"}]
  /\ Revisions \subseteq [episode : 1..Book, place : {"none", "early", "late"}]
  /\ \A q \in Questions : q.boundary \in 1..q.current /\ q.current \in 1..Book

VARIABLES texts,     \* an episode in the library: the ETag of its row and the
                     \* text of its file, which has the ETag it would get
          saving,    \* the save under way: its episode and the former text
          edits,     \* texts written so far, the source of new etags
          table,     \* reader_search_texts
          opening,   \* an episode asked for by a reader, of which the ETag is
                     \* known
          opened,    \* an episode loaded for a reader, not yet in the table
          run,       \* the run: phase, request, contents, registry
          search,    \* the search under way
          told,      \* the matches told to the model in this run
          result,    \* the texts in the last answer of a tool
          runs, mishaps

assistant ==
  <<texts, saving, edits, table, opening, opened, run, search, told, result, runs, mishaps>>

Chapters == 1..Book
Unset == 0
Mishap == mishaps < MaxMishaps /\ mishaps' = mishaps + 1

-----------------------------------------------------------------------------
(* The library and the text cache.                                          *)

\* A text and the ETag it was loaded under.
TextRow(e, t) == [episode |-> e, etag |-> t.etag, text |-> t.text]
Labelled(r) == [etag |-> r.etag, text |-> r.text]

\* Save replaces the row of the episode whatever etag it had.
SavedRow(rows, e, t) == {r \in rows : r.episode # e} \cup {TextRow(e, t)}

CachedRows_Any(from, to) == {r \in table : r.episode \in from..to}
\* GetMany, with the etags of the table of contents.
CachedRows(from, to) ==
  {r \in table : r.episode \in from..to /\ r.etag = run.toc[r.episode]}

\* saveEpisodeBody writes the file while the row keeps the former ETag; what
\* an earlier save left in the file may be written again.
SaveBody ==
  /\ saving = {}
  /\ \/ /\ edits < MaxEdits /\ edits' = edits + 1
        /\ \E r \in Revisions :
             /\ texts' = [texts EXCEPT ![r.episode].text =
                             [etag |-> edits + 1, place |-> r.place]]
             /\ saving' = {[episode |-> r.episode, before |-> texts[r.episode].text]}
     \/ /\ \E e \in Chapters :
             /\ texts[e].text.etag # texts[e].etag
             /\ saving' = {[episode |-> e, before |-> texts[e].text]}
        /\ UNCHANGED <<texts, edits>>
  /\ UNCHANGED <<table, opening, opened, run, search, told, result, runs, mishaps>>

\* The transaction commits, or it fails and the file is restored.
SaveRow ==
  /\ \E s \in saving :
       \/ texts' = [texts EXCEPT ![s.episode].etag = texts[s.episode].text.etag]
       \/ texts' = [texts EXCEPT ![s.episode].text = s.before]
  /\ saving' = {}
  /\ UNCHANGED <<edits, table, opening, opened, run, search, told, result, runs, mishaps>>

\* novel-fetcher is killed during a save: the file stays as it is.
SaveStops ==
  /\ saving # {} /\ saving' = {}
  /\ UNCHANGED <<texts, edits, table, opening, opened, run, search, told, result, runs, mishaps>>

\* readerview loads an episode, as everybody does: the ETag is from the table
\* of contents, and the text from a second request.
OpenEpisode ==
  /\ opening = {} /\ opened = {} /\ runs < MaxRuns
  /\ \E e \in Chapters : opening' = {[episode |-> e, etag |-> texts[e].etag]}
  /\ UNCHANGED <<texts, saving, edits, table, opened, run, search, told, result, runs, mishaps>>

OpenBody ==
  /\ \E o \in opening :
       opened' \in {{[episode |-> o.episode, etag |-> o.etag, text |-> texts[o.episode].text]}, {}}
  /\ opening' = {}
  /\ UNCHANGED <<texts, saving, edits, table, run, search, told, result, runs, mishaps>>

\* The text is written through a while later.
WriteThrough ==
  /\ \E row \in opened : table' = SavedRow(table, row.episode, row)
  /\ opened' = {}
  /\ UNCHANGED <<texts, saving, edits, opening, run, search, told, result, runs, mishaps>>

\* The table is rebuilt, quarantined at start, or pruned with its novel.
RebuildCache ==
  /\ table # {} /\ table' = {} /\ Mishap
  /\ UNCHANGED <<texts, saving, edits, opening, opened, run, search, told, result, runs>>

-----------------------------------------------------------------------------
(* The request, its ranges and what it may see.                             *)

NoRun == [phase |-> "idle", current |-> 1, boundary |-> 1, toc |-> <<>>,
          calls |-> 0, ordinal |-> 0, memory |-> <<>>, hits |-> <<>>]
NoSearch == [on |-> FALSE, next |-> 1, to |-> 0, max |-> 0, found |-> {}, rows |-> {},
             asked |-> {}]

Respond ==
  /\ run.phase = "idle" /\ runs < MaxRuns /\ runs' = runs + 1
  /\ \E q \in Questions :
       run' = [NoRun EXCEPT !.phase = "asking", !.current = q.current, !.boundary = q.boundary,
                 !.toc = [e \in {e \in Chapters : q.listed} |-> texts[e].etag]]
  /\ told' = {} /\ result' = {}
  /\ UNCHANGED <<texts, saving, edits, table, opening, opened, search, mishaps>>

NumberOf(e) == IF e \in DOMAIN run.toc THEN e ELSE 0
BoundaryNumber == NumberOf(run.boundary)
Visible_Current(e) == NumberOf(e) # 0 /\ NumberOf(e) <= NumberOf(run.current)
Visible(e) == NumberOf(e) # 0 /\ NumberOf(e) <= BoundaryNumber

\* The range the arguments stand for, or none.
EpisodeRange(from, to, limit) ==
  LET recent == IF BoundaryNumber > limit THEN BoundaryNumber - limit + 1 ELSE 1
      start == IF from # Unset THEN from ELSE IF to = Unset THEN recent ELSE 1
      end == IF to # Unset THEN to ELSE BoundaryNumber
  IN {r \in {<<start, end>>} :
        1 <= start /\ start <= end /\ end <= BoundaryNumber /\ end - start + 1 <= limit}

CanCall == run.phase = "asking" /\ ~ search.on /\ run.calls < MaxCalls

Told(id, e, text) == [id |-> id, episode |-> e, text |-> text]
Bodies(es) == {Told(<<>>, e, texts[e].text) : e \in es}

\* A tool that reads the library and leaves no trace in the run.
Answers(bodies) ==
  /\ result' = bodies
  /\ run' = [run EXCEPT !.calls = @ + 1]
  /\ UNCHANGED <<texts, saving, edits, table, opening, opened, search, told, runs, mishaps>>

GetCurrentEpisode ==
  CanCall /\ Answers(IF Visible(run.current) THEN Bodies({run.current}) ELSE {})

GetPreviousEpisode ==
  LET previous == NumberOf(run.current) - 1
  IN /\ CanCall
     /\ Answers(IF NumberOf(run.current) > 1 /\ previous <= BoundaryNumber
                THEN Bodies({previous}) ELSE {})

LoadEpisode ==
  /\ CanCall
  /\ \E e \in Chapters : Answers(IF Visible(e) THEN Bodies({e}) ELSE {})

\* load_episode_range as excerpts or summary, and search_episodes.
LoadEpisodeRange ==
  /\ CanCall
  /\ \E from, to \in Chapters \cup {Unset} :
       Answers(Bodies(UNION {r[1]..r[2] : r \in EpisodeRange(from, to, RangeLimit)}))

-----------------------------------------------------------------------------
(* search_full_text                                                         *)

BeginSearch ==
  /\ CanCall
  /\ \E to \in Chapters \cup {Unset}, max \in Limits :
       \E r \in EpisodeRange(1, to, Book) : \E rows \in {CachedRows(r[1], r[2]), {}} :
         /\ search' = [on |-> TRUE, next |-> r[1], to |-> r[2], max |-> max, found |-> {},
                       rows |-> rows, asked |-> {}]
         /\ IF rows = CachedRows(r[1], r[2]) THEN UNCHANGED mishaps ELSE Mishap
  /\ run' = [run EXCEPT !.calls = @ + 1, !.ordinal = @ + 1]
  /\ result' = {}
  /\ UNCHANGED <<texts, saving, edits, table, opening, opened, told, runs>>

Remembered(e) == IF e \in DOMAIN run.memory THEN {run.memory[e]} ELSE {}
InMemory(e) == {t \in Remembered(e) : t.etag = run.toc[e]}
InRows(e) == {Labelled(r) : r \in {r \in search.rows : r.episode = e}}

Remember(e, t) == [x \in DOMAIN run.memory \cup {e} |-> IF x = e THEN t ELSE run.memory[x]]

Found(e, t) ==
  search' = [search EXCEPT !.next = e + 1, !.asked = {},
               !.found = IF t.text.place = "none" THEN @ ELSE @ \cup {TextRow(e, t)}]

Searching == search.on /\ search.next <= search.to

\* One episode of the range, from the memory of the run or from the rows looked
\* up at the start of the search.
SearchEpisode ==
  /\ Searching
  /\ LET e == search.next
         kept == InMemory(e) IN
     IF kept # {} THEN (\E t \in kept : Found(e, t)) /\ UNCHANGED run
     ELSE \E t \in InRows(e) : Found(e, t) /\ run' = [run EXCEPT !.memory = Remember(e, t)]
  /\ UNCHANGED <<texts, saving, edits, table, opening, opened, told, result, runs, mishaps>>

\* Neither has it: the library is asked, for the ETag first.
AskEpisode ==
  /\ Searching /\ search.asked = {}
  /\ InMemory(search.next) = {} /\ InRows(search.next) = {}
  /\ search' = [search EXCEPT !.asked = {texts[search.next].etag}]
  /\ UNCHANGED <<texts, saving, edits, table, opening, opened, run, told, result, runs, mishaps>>

\* The text, whatever ETag it has by now, goes into the memory and the table; a
\* failed Save is ignored.
FreshEpisode ==
  /\ Searching
  /\ \E etag \in search.asked :
       LET e == search.next
           t == [etag |-> etag, text |-> texts[e].text]
       IN /\ Found(e, t) /\ run' = [run EXCEPT !.memory = Remember(e, t)]
          /\ \/ table' = SavedRow(table, e, t) /\ UNCHANGED mishaps
             \/ Mishap /\ UNCHANGED table
  /\ UNCHANGED <<texts, saving, edits, opening, opened, told, result, runs>>

\* The episode cannot be read: it is left out.
SkipEpisode ==
  /\ Searching
  /\ InMemory(search.next) = {} /\ InRows(search.next) = {}
  /\ search' = [search EXCEPT !.next = @ + 1, !.asked = {}] /\ Mishap
  /\ UNCHANGED <<texts, saving, edits, table, opening, opened, run, told, result, runs>>

Better(c, d) ==
  \/ c.text.place = "early" /\ d.text.place = "late"
  \/ c.text.place = d.text.place /\ c.episode < d.episode

\* The place of c in found, sorted.
RankIn(found, c) == 1 + Cardinality({d \in found : Better(d, c)})

FirstFound(found) == CHOOSE e \in {c.episode : c \in found} : \A c \in found : e <= c.episode
LastFound(found) == CHOOSE e \in {c.episode : c \in found} : \A c \in found : e >= c.episode

\* The episodes of part number k of the span in which the word was found.
Part(found, k) ==
  LET span == LastFound(found) - FirstFound(found) + 1
      parts == IF span < Buckets THEN span ELSE Buckets
  IN FirstFound(found) + (span * k) \div parts .. FirstFound(found) + (span * (k + 1)) \div parts - 1

\* The best of every part that is not among the top already.
Coverage(found, top) ==
  LET left(k) == {c \in found \ top : c.episode \in Part(found, k)}
      parts == {k \in 0..Buckets - 1 : k < LastFound(found) - FirstFound(found) + 1}
  IN UNION {{c \in left(k) : \A d \in left(k) \ {c} : Better(c, d)} : k \in parts}

Top(found, max) == {c \in found : RankIn(found, c) <= max}

\* The matches told and their numbers: the top by rank, then the rest in the
\* order of the table.
Selected(found, max) ==
  LET top == Top(found, max)
      rest == IF found = {} THEN {} ELSE Coverage(found, top)
  IN [c \in top \cup rest |->
        IF c \in top THEN RankIn(found, c)
        ELSE Cardinality(top) + 1 + Cardinality({d \in rest : d.episode < c.episode})]

HitID_Reused(i) == <<1, i>>
HitID(i) == <<run.ordinal, i>>

EndSearch ==
  /\ search.on /\ search.next > search.to
  /\ LET number == Selected(search.found, search.max)
         matches == {[id |-> HitID(number[c]), episode |-> c.episode, etag |-> c.etag,
                      text |-> c.text] : c \in DOMAIN number}
         ids == {m.id : m \in matches}
     IN /\ run' = [run EXCEPT !.hits = [h \in ids \cup DOMAIN @ |->
                     IF h \in ids THEN CHOOSE m \in matches : m.id = h ELSE @[h]]]
        /\ told' = told \cup matches
        /\ result' = {Told(m.id, m.episode, m.text) : m \in matches}
  /\ search' = NoSearch
  /\ UNCHANGED <<texts, saving, edits, table, opening, opened, runs, mishaps>>

-----------------------------------------------------------------------------
(* load_passages                                                            *)

SameText(hit, t) == hit.etag = t.etag

Passage(hit) == Told(hit.id, hit.episode, run.memory[hit.episode].text)

\* One hit that cannot be used makes the call a recoverable error.
LoadPassages ==
  /\ CanCall
  /\ \E ids \in SUBSET DOMAIN run.hits :
       LET hits == {run.hits[h] : h \in ids} IN
       /\ ids # {}
       /\ Answers(IF \A h \in hits : Visible(h.episode) /\ SameText(h, run.memory[h.episode])
                  THEN {Passage(h) : h \in hits} ELSE {})

\* The model answers, the AI service fails, the turns run out, or the reader
\* is gone.
EndRun ==
  /\ run.phase = "asking"
  /\ run' = NoRun /\ search' = NoSearch /\ told' = {} /\ result' = {}
  /\ UNCHANGED <<texts, saving, edits, table, opening, opened, runs, mishaps>>

AssistantInit ==
  /\ \E o \in Openings :
       texts = [e \in Chapters |-> [etag |-> 0, text |-> [etag |-> 0, place |-> o[e]]]]
  /\ saving = {} /\ edits = 0 /\ table = {} /\ opening = {} /\ opened = {}
  /\ run = NoRun /\ search = NoSearch /\ told = {} /\ result = {} /\ runs = 0 /\ mishaps = 0

AssistantAtEnd == run.phase = "idle" /\ runs = MaxRuns /\ opening = {} /\ opened = {}

AssistantNext ==
  \/ SaveBody \/ SaveRow \/ SaveStops
  \/ OpenEpisode \/ OpenBody \/ WriteThrough \/ RebuildCache
  \/ Respond \/ GetCurrentEpisode \/ GetPreviousEpisode \/ LoadEpisode \/ LoadEpisodeRange
  \/ BeginSearch \/ SearchEpisode \/ AskEpisode \/ FreshEpisode \/ SkipEpisode \/ EndSearch
  \/ LoadPassages \/ EndRun

AssistantSpec == AssistantInit /\ [][AssistantNext]_assistant

-----------------------------------------------------------------------------
(* Properties                                                               *)

\* No tool hands the model text of an episode after the boundary of the
\* reader, whichever way it was found, kept and asked for
\* (readerAssistantEpisodeVisible and the ranges).
BoundaryKept == \A r \in result : r.episode <= run.boundary

\* A passage is of the episode of its hit and not older than the ETag of the
\* hit, although texts change under the run and ids are given by several
\* searches; and it is the text in which the hit was found, unless one of the
\* two is newer than that ETag, for a save that came between its two requests
\* or did not reach the row (loadPassagesResult).
PassageFitsItsHit ==
  \A r \in result : r.id # <<>> =>
    /\ \E m \in told : m.id = r.id
    /\ \A m \in told : m.id = r.id =>
         /\ m.episode = r.episode /\ r.text.etag >= m.etag
         /\ m.text # r.text => m.text.etag > m.etag \/ r.text.etag > m.etag

\* A search never tells a text older than the table of contents of its run:
\* rows that an earlier run, or a reader who was slow, left in the cache are
\* not taken for the current text (readerAssistantEpisodeTextForSearch).
SearchIsCurrent == \A m \in told : m.text.etag >= run.toc[m.episode]

=============================================================================
