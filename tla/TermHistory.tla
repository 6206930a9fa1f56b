----------------------------- MODULE TermHistory -----------------------------
(***************************************************************************)
(* What readers are told about one term of a novel: its histories in       *)
(* term_profiles (terms/store.go), written before the character events by  *)
(* generations that go on or redo, one batch after the other or in         *)
(* parallel.  A serial answer is a snapshot that stands for all before it, *)
(* a parallel one adds facts.  A text is the set of what it says.          *)
(***************************************************************************)
EXTENDS Naturals

CONSTANTS LastEpisode,  \* the number of episodes
          MayBeSaid     \* what a batch may say about the term, and its reading
                        \* (or category) if that is given

ASSUME TermAssumption ==
  LastEpisode \in Nat \ {0} /\ \A a \in MayBeSaid : a.says # {} /\ a.read \in STRING

VARIABLES termDoc,      \* term_profiles: frontier and histories; frontier 0 if
                        \* there is no file
          charFrontier, \* frontier of the character events
          personAt,     \* episode at which the term was saved as the name of a
                        \* character, 0 if never
          termRun,      \* the generation under way
          said          \* what the answers said, by episode, and the first
                        \* episode of the batch that said it

termVars == <<termDoc, charFrontier, personAt, termRun, said>>

All == 1..LastEpisode
NoTerm == [reads |-> [e \in All |-> ""], descs |-> [e \in All |-> {}], facts |-> [e \in All |-> {}]]
NotTold == [e \in All |-> [serial |-> TRUE, says |-> {}, read |-> "", since |-> 0]]
NoTermRun == [stage |-> "none", serial |-> TRUE, from |-> 0, upTo |-> 0, lo |-> 0, hi |-> 0,
              work |-> NoTerm, raw |-> NoTerm, person |-> 0, said |-> NotTold]

Lower(m, n) == IF m < n THEN m ELSE n

-----------------------------------------------------------------------------
(* Histories                                                                *)

\* A term of which nothing is described is dropped, with its readings.
Described(h) == IF \A e \in All : h.descs[e] = {} /\ h.facts[e] = {} THEN NoTerm ELSE h

Filtered(h, kept) == Described(
  [reads |-> [e \in All |-> IF e \in kept THEN h.reads[e] ELSE ""],
   descs |-> [e \in All |-> IF e \in kept THEN h.descs[e] ELSE {}],
   facts |-> [e \in All |-> IF e \in kept THEN h.facts[e] ELSE {}]])

ReplaceFromEpisodeIndex(h, from) == Filtered(h, 1..(from - 1))
TruncateAfter(h, boundary) == Filtered(h, 1..boundary)

\* Of one episode the newer reading and snapshot win, facts are joined.
ApplyTermDelta(old, new) == Described(
  [reads |-> [e \in All |-> IF new.reads[e] # "" THEN new.reads[e] ELSE old.reads[e]],
   descs |-> [e \in All |-> IF new.descs[e] # {} THEN new.descs[e] ELSE old.descs[e]],
   facts |-> [e \in All |-> old.facts[e] \cup new.facts[e]]])

CombineTermFacts(old, new) ==
  [ApplyTermDelta(old, new) EXCEPT !.descs = [e \in All |-> old.descs[e] \cup new.descs[e]]]

ApplyParallelTermFacts(old, new) ==
  ApplyTermDelta(old, [new EXCEPT !.descs = NoTerm.descs, !.facts = new.descs])

Latest(given) == IF given = {} THEN 0 ELSE CHOOSE e \in given : \A d \in given : d <= e

\* The last snapshot up to the boundary, and the facts since.
ProjectTerms(h, boundary) ==
  LET base == Latest({e \in 1..boundary : h.descs[e] # {}})
      read == Latest({e \in 1..boundary : h.reads[e] # ""})
      text == (IF base = 0 THEN {} ELSE h.descs[base])
                \cup UNION {h.facts[e] : e \in (base + 1)..boundary}
  IN [says |-> text, read |-> IF text = {} \/ read = 0 THEN "" ELSE h.reads[read]]

\* The term frontier, the character frontier and the reader's boundary.
VisibilityCap(boundary) == Lower(boundary, Lower(charFrontier, termDoc.front))
ShownTerm(boundary) == ProjectTerms(termDoc.hist, VisibilityCap(boundary))

-----------------------------------------------------------------------------
(* A generation                                                             *)

\* The job refuses terms that are behind the characters: the state of an
\* older version, or of a redo that was torn.
BeginTerms(from, upTo, serial) ==
  /\ termRun.stage = "none"
  /\ charFrontier > 0 => termDoc.front >= charFrontier
  /\ from \in 1..(charFrontier + 1) /\ from <= upTo
  /\ termRun' = [NoTermRun EXCEPT !.stage = "batches", !.serial = serial,
       !.from = from, !.upTo = upTo, !.lo = from, !.hi = from,
       !.work = IF from <= charFrontier THEN ReplaceFromEpisodeIndex(termDoc.hist, from)
                ELSE TruncateAfter(termDoc.hist, charFrontier),
       !.person = IF personAt < from THEN personAt ELSE 0]
  /\ UNCHANGED <<termDoc, charFrontier, personAt, said>>

KeepsFiles == UNCHANGED <<termDoc, charFrontier, personAt, said>>

\* A batch may hold several episodes, an episode may take several batches.
NextBatch(lo, hi) ==
  /\ termRun.stage = "batches"
  /\ lo \in {termRun.hi, termRun.hi + 1} /\ lo <= hi /\ hi <= termRun.upTo
  /\ hi > termRun.hi
  /\ termRun' = [termRun EXCEPT !.lo = lo, !.hi = hi]
  /\ KeepsFiles

\* Any episode will do.
ValidDate_Any(e) == TRUE
ValidDate(e) == e \in termRun.lo..termRun.hi

\* What a serial answer says replaces, what a parallel one says adds.
Heard(e, says, read) ==
  LET old == termRun.said[e] IN
  [serial |-> termRun.serial, says |-> IF termRun.serial THEN says ELSE old.says \cup says,
   read |-> IF read # "" THEN read ELSE old.read, since |-> termRun.lo]

\* An answer about episode e of the batch; the job fails if it is about
\* another.  Serial answers are merged at once, parallel ones at the end.
TermAnswer(e, says, read) ==
  LET new == [NoTerm EXCEPT !.descs[e] = says, !.reads[e] = read] IN
  /\ termRun.stage = "batches"
  /\ termRun' =
       IF ~ ValidDate(e) THEN NoTermRun
       ELSE IF termRun.serial
       THEN [termRun EXCEPT !.work = IF termRun.person # 0 THEN NoTerm ELSE ApplyTermDelta(@, new),
                            !.said[e] = Heard(e, says, read)]
       ELSE [termRun EXCEPT !.raw = CombineTermFacts(@, new), !.said[e] = Heard(e, says, read)]
  /\ KeepsFiles

\* The batch finds that the term is the name of a character.
FindPerson ==
  /\ termRun.stage = "batches" /\ termRun.person = 0
  /\ termRun' = [termRun EXCEPT !.person = termRun.lo,
                   !.work = IF termRun.serial THEN NoTerm ELSE @]
  /\ KeepsFiles

FailTerms ==
  /\ termRun.stage = "batches" /\ termRun' = NoTermRun /\ KeepsFiles

Generated ==
  IF termRun.person # 0 THEN NoTerm
  ELSE IF termRun.serial THEN termRun.work
  ELSE ApplyParallelTermFacts(termRun.work, termRun.raw)

\* What is stored before the first episode of the generation stays; so does a
\* term that has become the name of a character by now.
SaveTerms ==
  /\ termRun.stage = "batches" /\ termRun.hi = termRun.upTo
  /\ termDoc' = [front |-> termRun.upTo,
       hist |-> ApplyTermDelta(ReplaceFromEpisodeIndex(termDoc.hist, termRun.from), Generated)]
  /\ said' = [e \in All |-> IF e < termRun.from THEN said[e]
                            ELSE IF termRun.person # 0 THEN NotTold[e] ELSE termRun.said[e]]
  /\ termRun' = [termRun EXCEPT !.stage = "characters"]
  /\ UNCHANGED <<charFrontier, personAt>>

SaveCharacters ==
  /\ termRun.stage = "characters"
  /\ charFrontier' = termRun.upTo /\ personAt' = termRun.person
  /\ termRun' = NoTermRun
  /\ UNCHANGED <<termDoc, said>>

\* An error or the end of the process between the two writes.
TermsAlone ==
  /\ termRun.stage = "characters"
  /\ termRun' = NoTermRun
  /\ KeepsFiles

\* The state of the novel is cleared.
ClearTerms ==
  /\ termRun.stage = "none" /\ termDoc.front > 0
  /\ termDoc' = [front |-> 0, hist |-> NoTerm]
  /\ charFrontier' = 0 /\ personAt' = 0 /\ said' = NotTold
  /\ UNCHANGED termRun

TermInit ==
  /\ termDoc = [front |-> 0, hist |-> NoTerm]
  /\ charFrontier = 0 /\ personAt = 0 /\ termRun = NoTermRun /\ said = NotTold

TermNext ==
  \/ \E from, upTo \in All, serial \in BOOLEAN : BeginTerms(from, upTo, serial)
  \/ \E lo, hi \in All : NextBatch(lo, hi)
  \/ \E e \in All, answer \in MayBeSaid : TermAnswer(e, answer.says, answer.read)
  \/ FindPerson \/ FailTerms \/ SaveTerms \/ SaveCharacters \/ TermsAlone \/ ClearTerms

TermSpec == TermInit /\ [][TermNext]_termVars

-----------------------------------------------------------------------------
(* Properties                                                               *)

\* What the answers said up to a boundary: the last snapshot and the facts
\* after it, by batches that had not read further.
Saying(boundary) ==
  LET heard == {e \in 1..VisibilityCap(boundary) : said[e].says # {} /\ said[e].since <= boundary}
      base == Latest({e \in heard : said[e].serial})
      read == Latest({e \in heard : said[e].read # ""})
  IN [says |-> UNION {said[e].says : e \in {d \in heard : d >= base}},
      read |-> IF read = 0 THEN "" ELSE said[read].read]

\* Whatever was generated serially, in parallel, twice, or only halfway: at
\* every boundary readers are shown exactly what the answers about the text up
\* to there said (docs/extraction.md:11, :28 and :37).
TermsFollowTheText == \A b \in All : ShownTerm(b) = Saying(b)
=============================================================================
