------------------------------ MODULE Proofread ------------------------------
(***************************************************************************)
(* AI proofreading of an episode in viewer-api: a language model mends     *)
(* breaks and spaces of the text, and the answer is kept beside the        *)
(* episode, for as long as the episode keeps its ETag.  Several tabs ask   *)
(* for it at once while novel-fetcher revises the episode: the file of its *)
(* text first, then the row that has its ETag.  Readers ask for the ETag   *)
(* first and for the text in a second request, so that a text can come     *)
(* under the ETag of an earlier one.                                       *)
(*                                                                         *)
(* A text is a sequence of characters that are no white space; a break     *)
(* after character o, and an ideographic space there, are members of sets  *)
(* of offsets.  The ETag of a version of the episode is its number.        *)
(***************************************************************************)
EXTENDS Naturals, Sequences

CONSTANTS Callers,       \* requests that generate
          Sections,      \* preface, body, afterword
          Signs,         \* the characters; a figure or a blank counts as one
          Versions,      \* the versions of the episode, each a sequence of blocks
          MaxUpgrades

Block == [kind : {"paragraph", "blank", "figure"}, section : Sections,
          indent : BOOLEAN, text : Seq(Signs) \ {<<>>}]

ASSUME ProofreadAssumption ==
  /\ Versions \in Seq(Seq(Block)) /\ Versions # <<>>
  /\ "other" \in Signs /\ MaxUpgrades \in Nat

VARIABLES original,    \* the episode in the library: the versions its row and
                       \* its file have, the newest that was ever written, and
                       \* during a save the one to go back to, else 0
          prompt,      \* promptVersion of the running program
          kept,        \* the stored result: no or one record
          flight,      \* the generation under way: no or one record
          callers,     \* each idle | leading | waiting | done
          reader,      \* a request that reads: idle or reading, the ETag it loaded
          served       \* the last response to any of them

proofread == <<original, prompt, kept, flight, callers, reader, served>>

-----------------------------------------------------------------------------
(* The text                                                                 *)

\* The maximal runs of paragraphs that have text and share a section.
IsText(doc, i) == doc[i].kind = "paragraph"
OneSegment(doc, i, j) ==
  \A k \in i..j : IsText(doc, k) /\ doc[k].section = doc[i].section
editableSegments(doc) ==
  LET firsts == {i \in DOMAIN doc : IsText(doc, i) /\ (i = 1 \/ ~ OneSegment(doc, i - 1, i))}
      lasts == {i \in DOMAIN doc : IsText(doc, i) /\ (i = Len(doc) \/ ~ OneSegment(doc, i, i + 1))}
  IN {s \in [first : firsts, last : lasts] :
        s.first <= s.last /\ OneSegment(doc, s.first, s.last)}

\* The text of blocks: each sign with the kind and the section of its block.
Cells(b) ==
  [o \in DOMAIN b.text |-> [kind |-> b.kind, section |-> b.section, sign |-> b.text[o]]]
TextOf(blocks) ==
  LET upto[n \in 0..Len(blocks)] ==
        IF n = 0 THEN <<>> ELSE upto[n - 1] \o Cells(blocks[n])
  IN upto[Len(blocks)]
OffsetOf(blocks, i) == Len(TextOf(SubSeq(blocks, 1, i - 1)))

\* What blocks say: their text, breaks and indents.
Layout(blocks) ==
  [text    |-> TextOf(blocks),
   breaks  |-> {OffsetOf(blocks, i) : i \in DOMAIN blocks \ {1}},
   indents |-> {OffsetOf(blocks, i) : i \in {i \in DOMAIN blocks : blocks[i].indent}}]
SegmentLayout(doc, s) == Layout(SubSeq(doc, s.first, s.last))

Stops(text) == {o \in DOMAIN text : text[o].sign = "stop"}

\* The breaks at the ends of sentences are those of the source, whatever the
\* answer says; a paragraph that begins where the source is indented is.
BreaksOf(source, answer) ==
  (answer.breaks \ Stops(source.text)) \cup (source.breaks \cap Stops(source.text))
Mended(source, answer) ==
  LET breaks == BreaksOf(source, answer)
  IN [text |-> answer.text, breaks |-> breaks,
      indents |-> answer.indents \cup (source.indents \cap (breaks \cup {0}))]

\* Else the output is invalid: white space apart, the text must be the same,
\* and no indented paragraph may have lost its beginning.
ValidOutput(source, answer) ==
  /\ answer.text = source.text
  /\ source.indents \subseteq BreaksOf(source, answer) \cup {0}

\* Sign by sign: the n-th begins a paragraph or belongs to the last one.
WithSign(section, layout, n, paragraphs) ==
  LET sign == layout.text[n].sign
      last == Len(paragraphs)
  IN IF n - 1 \in layout.breaks \cup {0}
       THEN Append(paragraphs, [kind |-> "paragraph", section |-> section,
                                indent |-> n - 1 \in layout.indents, text |-> <<sign>>])
       ELSE [paragraphs EXCEPT ![last].text = Append(@, sign)]
ParagraphsOf(section, layout) ==
  LET split[n \in 0..Len(layout.text)] ==
        IF n = 0 THEN <<>> ELSE WithSign(section, layout, n, split[n - 1])
  IN split[Len(layout.text)]

\* Segments are replaced from the last to the first, by their places in the
\* source.
Replaced(blocks, s, section, layout) ==
  SubSeq(blocks, 1, s.first - 1) \o ParagraphsOf(section, layout)
    \o SubSeq(blocks, s.last + 1, Len(blocks))
ReplacedAt(doc, answer, i, blocks) ==
  IF \E s \in editableSegments(doc) : s.first = i
    THEN LET s == CHOOSE s \in editableSegments(doc) : s.first = i
         IN Replaced(blocks, s, doc[i].section, Mended(SegmentLayout(doc, s), answer[s]))
    ELSE blocks
Applied(doc, answer) ==
  LET applied[n \in 0..Len(doc)] ==
        IF n = 0 THEN doc ELSE ReplacedAt(doc, answer, Len(doc) + 1 - n, applied[n - 1])
  IN applied[Len(doc)]

\* What the model may answer about a segment: any breaks, its first
\* paragraph indented or the ones that were, and sometimes another text.
AnswersAbout(source) ==
  {[text |-> t, breaks |-> b, indents |-> n] :
     t \in {source.text, [source.text EXCEPT ![1].sign = "other"]},
     b \in SUBSET (1..Len(source.text) - 1),
     n \in {{}, {0}, source.indents}}

-----------------------------------------------------------------------------
(* Requests                                                                 *)

NoReader == [phase |-> "idle", etag |-> 0]
NoResponse == [status |-> "none", etag |-> 0, doc |-> <<>>]
Ready(etag, doc) == [status |-> "ready", etag |-> etag, doc |-> doc]
Failed == [status |-> "failed", etag |-> 0, doc |-> <<>>]
NotGenerated(etag) == [status |-> "not_generated", etag |-> etag, doc |-> <<>>]

\* saveEpisodeBody: the file is replaced under the row of the former text.
\* A text whose save failed may be fetched again.
ReviseFile ==
  /\ original.before = 0
  /\ \E v \in {original.newest, original.newest + 1} \cap DOMAIN Versions :
       original' = [original EXCEPT !.file = v, !.newest = v, !.before = original.file]
  /\ UNCHANGED <<prompt, kept, flight, callers, reader, served>>

\* The transaction commits, or it fails and the file is restored.
ReviseRow ==
  /\ original.before # 0
  /\ original' \in {[original EXCEPT !.row = original.file, !.before = 0],
                    [original EXCEPT !.file = original.before, !.before = 0]}
  /\ UNCHANGED <<prompt, kept, flight, callers, reader, served>>

\* novel-fetcher is killed during a save: the file stays as it is.
ReviseStops ==
  /\ original.before # 0 /\ original' = [original EXCEPT !.before = 0]
  /\ UNCHANGED <<prompt, kept, flight, callers, reader, served>>

\* Generate: the first caller leads, the others wait for its response.
Generate(c) ==
  /\ callers[c] = "idle"
  /\ callers' = [callers EXCEPT ![c] = IF flight = {} THEN "leading" ELSE "waiting"]
  /\ flight' = IF flight # {} THEN flight
               ELSE {[leader |-> c, at |-> "load", etag |-> 0, text |-> 0, attempt |-> 0,
                      response |-> NoResponse]}
  /\ UNCHANGED <<original, prompt, kept, reader, served>>

\* A caller that waits is gone, or its time is up.
LeaveFlight(c) ==
  /\ callers[c] = "waiting"
  /\ callers' = [callers EXCEPT ![c] = "done"]
  /\ UNCHANGED <<original, prompt, kept, flight, reader, served>>

GiveUp(f) == flight' = {[f EXCEPT !.at = "end", !.response = Failed]}

\* generateOnce loads the episode: its ETag from the table of contents, and
\* then its text.  It may be gone, have no text, or AI is off.
LoadEtag ==
  \E f \in flight :
    /\ f.at = "load"
    /\ flight' = {[f EXCEPT !.at = "body", !.etag = original.row]} \/ GiveUp(f)
    /\ UNCHANGED <<original, prompt, kept, callers, reader, served>>

LoadText ==
  \E f \in flight :
    /\ f.at = "body"
    /\ flight' = {[f EXCEPT !.at = "ask", !.text = original.file]} \/ GiveUp(f)
    /\ UNCHANGED <<original, prompt, kept, callers, reader, served>>

\* The request fails for good, or the leader is gone.
AskFails ==
  \E f \in flight : f.at = "ask" /\ GiveUp(f)
    /\ UNCHANGED <<original, prompt, kept, callers, reader, served>>

\* The model answers: one more try if the output is invalid.
Answer ==
  \E f \in flight :
    /\ f.at = "ask"
    /\ LET doc == Versions[f.text]
           segments == editableSegments(doc)
           about == [s \in segments |-> AnswersAbout(SegmentLayout(doc, s))]
       IN \E answer \in [segments -> UNION {about[s] : s \in segments}] :
            /\ \A s \in segments : answer[s] \in about[s]
            /\ flight' = {IF \A s \in segments : ValidOutput(SegmentLayout(doc, s), answer[s])
                            THEN [f EXCEPT !.at = "write", !.response = Ready(f.etag, Applied(doc, answer))]
                          ELSE IF f.attempt = 0 THEN [f EXCEPT !.attempt = 1]
                          ELSE [f EXCEPT !.at = "refused"]}
    /\ UNCHANGED <<original, prompt, kept, callers, reader, served>>

Refuse ==
  \E f \in flight : f.at = "refused" /\ GiveUp(f)
    /\ UNCHANGED <<original, prompt, kept, callers, reader, served>>

\* The result is written under the ETag that was asked for before the text.
Write ==
  \E f \in flight :
    /\ f.at = "write"
    /\ kept' = {[etag |-> f.etag, prompt |-> prompt, doc |-> f.response.doc]}
    /\ flight' = {[f EXCEPT !.at = "end"]}
    /\ UNCHANGED <<original, prompt, callers, reader, served>>

WriteFails ==
  \E f \in flight : f.at = "write" /\ GiveUp(f)
    /\ UNCHANGED <<original, prompt, kept, callers, reader, served>>

\* The flight is taken out, and everybody on it gets the one response.
Land ==
  \E f \in flight :
    /\ f.at = "end"
    /\ flight' = {}
    /\ callers' = [c \in Callers |->
         IF callers[c] \in {"leading", "waiting"}
           THEN "done" ELSE callers[c]]
    /\ served' = f.response
    /\ UNCHANGED <<original, prompt, kept, reader>>

\* Get: the episode first, of which it only uses the ETag, then the file.
GetEpisode ==
  /\ reader.phase = "idle"
  /\ reader' = [reader EXCEPT !.phase = "reading", !.etag = original.row]
  /\ UNCHANGED <<original, prompt, kept, flight, callers, served>>

Fits_Any(r) == r.prompt = prompt
Fits(r) == r.etag = reader.etag /\ r.prompt = prompt
GetResult ==
  /\ reader.phase = "reading"
  /\ reader' = NoReader
  /\ served' =
       IF \E r \in kept : Fits(r) THEN CHOOSE q \in {Ready(reader.etag, r.doc) : r \in kept} : TRUE
       ELSE NotGenerated(reader.etag)
  /\ UNCHANGED <<original, prompt, kept, flight, callers>>

\* DELETE, and the removal of the novel.
Delete ==
  /\ kept # {} /\ kept' = {}
  /\ UNCHANGED <<original, prompt, flight, callers, reader, served>>

\* The program is stopped, and a newer one starts with another prompt.
Upgrade ==
  /\ prompt <= MaxUpgrades /\ prompt' = prompt + 1
  /\ flight' = {}
  /\ callers' = [c \in Callers |-> IF callers[c] \in {"idle", "done"} THEN callers[c]
                                   ELSE "done"]
  /\ reader' = NoReader
  /\ UNCHANGED <<original, kept, served>>

ProofreadInit ==
  /\ original = [row |-> 1, file |-> 1, newest |-> 1, before |-> 0]
  /\ prompt = 1 /\ kept = {} /\ flight = {}
  /\ callers = [c \in Callers |-> "idle"]
  /\ reader = NoReader /\ served = NoResponse

ProofreadAtEnd == flight = {} /\ reader = NoReader /\ \A c \in Callers : callers[c] = "done"

ProofreadNext ==
  \/ ReviseFile \/ ReviseRow \/ ReviseStops
  \/ LoadEtag \/ LoadText \/ AskFails \/ Answer \/ Refuse \/ Write \/ WriteFails \/ Land
  \/ GetEpisode \/ GetResult \/ Delete \/ Upgrade
  \/ \E c \in Callers : Generate(c) \/ LeaveFlight(c)

ProofreadSpec == ProofreadInit /\ [][ProofreadNext]_proofread

-----------------------------------------------------------------------------
(* Properties                                                               *)

\* Two documents say the same: the same signs, figures and blanks under the
\* same sections in the same order, the same breaks at the ends of sentences
\* and no indented paragraph joined to another.
SameWords(source, doc) ==
  LET old == Layout(source)
      new == Layout(doc)
  IN /\ old.text = new.text
     /\ old.breaks \cap Stops(old.text) = new.breaks \cap Stops(new.text)
     /\ old.indents \subseteq new.indents

\* Whatever is served as ready says what one version of the episode says, from
\* beginning to end, and none from before the ETag it carries, however many
\* saves, upgrades, deletions and generations met it on the way (Get,
\* generateOnce, applyOutput).
ServedSaysTheSame ==
  served.status = "ready" =>
    \E v \in served.etag..original.newest : SameWords(Versions[v], served.doc)

=============================================================================
