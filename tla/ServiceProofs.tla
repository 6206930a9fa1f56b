---------------------------- MODULE ServiceProofs ----------------------------
(***************************************************************************)
(* Proofs about four services, for every value of the constants: the       *)
(* assistant keeps the boundary of the reader (ReaderAssistant), the       *)
(* fetcher the pauses of a host (PoliteFetch), the shelf the cover and its *)
(* books (Publications), and a proofreading the words of one version that  *)
(* is not older than its ETag (Proofread). They share no state.            *)
(***************************************************************************)
EXTENDS ReaderAssistant, PoliteFetch, Publications, Proofread, Integers, FiniteSetTheorems,
        SequenceTheorems, WellFoundedInduction, TLAPS

(***************************************************************************)
(* The assistant of the reader.                                            *)
(***************************************************************************)

Places == {"none", "early", "late"}
Text == [etag : Nat, place : Places]
Labels == [etag : Nat, text : Text]
TextRows == [episode : Chapters, etag : Nat, text : Text]
Matches == [id : Nat \X Nat, episode : Chapters, etag : Nat, text : Text]

Tables == [{} -> Nat] \cup [Chapters -> Nat]
Memories == UNION {[E -> Labels] : E \in SUBSET Chapters}
Registries == UNION {[H -> Matches] : H \in SUBSET (Nat \X Nat)}

Runs ==
  [phase : {"idle", "asking"}, current : Chapters, boundary : Chapters, toc : Tables,
   calls : Nat, ordinal : Nat, memory : Memories, hits : Registries]

Searches ==
  [on : BOOLEAN, next : Nat \ {0}, to : Nat, max : Nat, found : SUBSET TextRows,
   rows : SUBSET TextRows, asked : SUBSET Nat]

AssistantTypes ==
  /\ edits \in Nat /\ texts \in [Chapters -> Labels]
  /\ saving \in SUBSET [episode : Chapters, before : Text]
  /\ table \in SUBSET TextRows /\ opened \in SUBSET TextRows
  /\ opening \in SUBSET [episode : Chapters, etag : Nat]
  /\ run \in Runs /\ search \in Searches /\ told \in SUBSET Matches

\* A search under way: its range, and where its rows and candidates are from.
SearchHolds ==
  /\ search.on => run.phase = "asking" /\ DOMAIN run.toc = Chapters /\ search.to <= run.boundary
  /\ ~ search.on => search.found = {} /\ search.rows = {} /\ search.asked = {}
  /\ \A r \in search.rows : r.etag = run.toc[r.episode]
  /\ \A c \in search.found :
       /\ c.episode < search.next /\ c.episode <= search.to /\ c.text.place # "none"
       /\ c.episode \in DOMAIN run.memory /\ c.text.etag >= run.toc[c.episode]
  /\ \A c, d \in search.found : c.episode = d.episode => c = d

\* An ETag that was asked for before the text is not newer than the row is now.
AskedFirst ==
  /\ \A a \in search.asked : /\ search.on /\ search.next <= search.to
                             /\ run.toc[search.next] <= a /\ a <= texts[search.next].etag
  /\ \A o \in opening : o.etag <= texts[o.episode].etag

\* The texts that are held somewhere, under the ETags they are held under; the
\* former text of a save under the one it would be restored to.
InLibrary == {TextRow(e, texts[e]) : e \in Chapters}
InTheWay ==
  {TextRow(s.episode, [etag |-> texts[s.episode].etag, text |-> s.before]) : s \in saving}
InTheRun ==
  {TextRow(e, run.memory[e]) : e \in DOMAIN run.memory} \cup {TextRow(m.episode, m) : m \in told}
Held == InLibrary \cup InTheWay \cup InTheRun \cup table \cup opened \cup search.rows
        \cup search.found

\* No text is older than the ETag it is held under, and two texts of an episode
\* would never get the same ETag.
HeldFits ==
  /\ \A r \in Held : r.etag <= r.text.etag /\ r.text.etag <= edits
  /\ \A q, r \in Held : q.episode = r.episode /\ q.text.etag = r.text.etag => q.text = r.text

ToldByTheRun ==
  /\ \A m, n \in told : m.id = n.id => m = n
  /\ \A m \in told : /\ m.id[1] <= run.ordinal /\ (search.on => m.id[1] < run.ordinal)
                     /\ m.episode \in DOMAIN run.memory
  /\ \A h \in DOMAIN run.hits : run.hits[h] \in told /\ run.hits[h].id = h
  /\ run.phase = "idle" => told = {}

Current ==
  /\ run.phase = "asking" => \A e \in DOMAIN run.toc : texts[e].etag >= run.toc[e]
  /\ SearchIsCurrent

Shown == BoundaryKept /\ PassageFitsItsHit

AssistantInv ==
  /\ AssistantTypes /\ SearchHolds /\ AskedFirst /\ HeldFits /\ ToldByTheRun /\ Current /\ Shown
-----------------------------------------------------------------------------
LEMMA NothingHeld == <<>> \in [{} -> Nat] /\ <<>> \in [{} -> Labels] /\ <<>> \in [{} -> Matches]
  OBVIOUS

\* What there is between runs.
LEMMA NoRunIsARun == NoRun \in Runs /\ NoSearch \in Searches
<1>1. 1 \in Chapters
  BY AssistantAssumption DEF Chapters
<1>2. <<>> \in Memories
  BY NothingHeld DEF Memories
<1>3. <<>> \in Registries
  BY NothingHeld DEF Registries
<1>4. <<>> \in Tables
  BY NothingHeld DEF Tables
<1>5. NoRun \in Runs
  BY <1>1, <1>2, <1>3, <1>4 DEF NoRun, Runs
<1> QED
  BY <1>5 DEF NoSearch, Searches

\* Two candidates of a search are never equally good: the order of the
\* candidates is total.
LEMMA BetterIsAnOrder ==
  ASSUME NEW F \in SUBSET TextRows, \A c \in F : c.text.place # "none",
         \A c, d \in F : c.episode = d.episode => c = d
  PROVE  /\ \A c \in F : ~ Better(c, c)
         /\ \A c, d \in F : c # d => Better(c, d) \/ Better(d, c)
         /\ \A b, c, d \in F : Better(b, c) /\ Better(c, d) => Better(b, d)
<1>1. \A c \in F : c.text.place \in {"early", "late"} /\ c.episode \in Nat
  BY DEF TextRows, Text, Places, Chapters
<1> QED
  BY <1>1 DEF Better

\* A search has at most one candidate of each episode.
LEMMA CandidatesAreFinite ==
  ASSUME NEW F \in SUBSET TextRows, \A c, d \in F : c.episode = d.episode => c = d
  PROVE  IsFiniteSet(F)
<1> DEFINE f == [c \in F |-> c.episode]
<1>1. f \in Injection(F, Chapters)
  BY DEF TextRows, Injection, IsInjective
<1>2. IsFiniteSet(Chapters)
  BY FS_Interval, AssistantAssumption DEF Chapters
<1> QED
  BY <1>1, <1>2, FS_Injection

\* A set with one element less is smaller.
LEMMA SmallerSet ==
  ASSUME NEW S, IsFiniteSet(S), NEW T \in SUBSET S, NEW x \in S, x \notin T
  PROVE  Cardinality(T) \in Nat /\ Cardinality(S) \in Nat /\ Cardinality(T) < Cardinality(S)
<1>1. IsFiniteSet(T) /\ Cardinality(T) <= Cardinality(S) /\ Cardinality(T) # Cardinality(S)
  BY FS_Subset
<1> QED
  BY <1>1, FS_CardinalityType

\* A better candidate has a smaller number.
LEMMA BetterIsBefore ==
  ASSUME NEW F \in SUBSET TextRows, \A c \in F : c.text.place # "none",
         \A c, d \in F : c.episode = d.episode => c = d,
         NEW c \in F, NEW d \in F, Better(c, d)
  PROVE  RankIn(F, c) \in Nat \ {0} /\ RankIn(F, d) \in Nat /\ RankIn(F, c) < RankIn(F, d)
<1> DEFINE S == {b \in F : Better(b, d)}
           T == {b \in F : Better(b, c)}
<1>1. T \in SUBSET S /\ c \in S /\ c \notin T
  BY BetterIsAnOrder
<1>2. IsFiniteSet(S)
  BY CandidatesAreFinite, FS_Subset
<1>3. Cardinality(T) \in Nat /\ Cardinality(S) \in Nat /\ Cardinality(T) < Cardinality(S)
  <2> HIDE DEF S, T
  <2> QED
    BY <1>1, <1>2, SmallerSet
<1> QED
  BY <1>3 DEF RankIn

LEMMA RankIsAtMost ==
  ASSUME NEW F \in SUBSET TextRows, \A c \in F : c.text.place # "none",
         \A c, d \in F : c.episode = d.episode => c = d,
         NEW max \in Nat, NEW c \in Top(F, max)
  PROVE  /\ IsFiniteSet(Top(F, max)) /\ Cardinality(Top(F, max)) \in Nat
         /\ RankIn(F, c) \in 1..Cardinality(Top(F, max))
<1> DEFINE B == {b \in F : Better(b, c)}
<1>1. c \in F /\ RankIn(F, c) <= max
  BY DEF Top
<1>2. IsFiniteSet(F)
  BY CandidatesAreFinite
<1>3. B \in SUBSET F /\ c \notin B
  BY <1>1, BetterIsAnOrder
<1>4. \A b \in B : RankIn(F, b) \in Nat /\ RankIn(F, c) \in Nat /\ RankIn(F, b) < RankIn(F, c)
  <2> TAKE b \in B
  <2>1. b \in F /\ Better(b, c)
    OBVIOUS
  <2> HIDE DEF B
  <2> QED
    BY <1>1, <2>1, BetterIsBefore
<1>5. B \cup {c} \in SUBSET Top(F, max)
  <2>1. \A b \in B : b \in Top(F, max)
    BY <1>1, <1>4, <1>3 DEF Top
  <2> QED
    BY <2>1
<1>6. IsFiniteSet(B) /\ Cardinality(B) \in Nat /\ IsFiniteSet(Top(F, max))
      /\ Cardinality(Top(F, max)) \in Nat
  <2>1. Top(F, max) \in SUBSET F
    BY DEF Top
  <2> HIDE DEF B
  <2> QED
    BY <1>2, <1>3, <2>1, FS_Subset, FS_CardinalityType
<1>7. Cardinality(B \cup {c}) = Cardinality(B) + 1
  <2> HIDE DEF B
  <2> QED
    BY <1>3, <1>6, FS_AddElement
<1>8. Cardinality(B \cup {c}) <= Cardinality(Top(F, max))
  <2> HIDE DEF B
  <2> QED
    BY <1>5, <1>6, FS_Subset
<1>9. RankIn(F, c) = 1 + Cardinality(B)
  BY DEF RankIn
<1> QED
  BY <1>6, <1>7, <1>8, <1>9

\* Two matches of a search are not told under one number (Selected).
LEMMA NumbersDiffer ==
  ASSUME NEW F \in SUBSET TextRows, \A c \in F : c.text.place # "none",
         \A c, d \in F : c.episode = d.episode => c = d, NEW max \in Nat
  PROVE  /\ DOMAIN Selected(F, max) \subseteq F
         /\ \A c \in DOMAIN Selected(F, max) : Selected(F, max)[c] \in Nat
         /\ \A c, d \in DOMAIN Selected(F, max) :
              Selected(F, max)[c] = Selected(F, max)[d] => c = d
<1> DEFINE top == Top(F, max)
           rest == IF F = {} THEN {} ELSE Coverage(F, top)
           before(c) == {d \in rest : d.episode < c.episode}
           number == Selected(F, max)
<1>1. number = [c \in top \cup rest |-> IF c \in top THEN RankIn(F, c)
                                        ELSE Cardinality(top) + 1 + Cardinality(before(c))]
  BY DEF Selected
<1>2. top \in SUBSET F
  BY DEF Top
<1>3. rest \in SUBSET F
  BY DEF Coverage
<1>4. IsFiniteSet(F)
  BY CandidatesAreFinite
<1>5. IsFiniteSet(top) /\ Cardinality(top) \in Nat
  <2> HIDE DEF top
  <2> QED
    BY <1>2, <1>4, FS_Subset, FS_CardinalityType
<1>6. \A c \in top : RankIn(F, c) \in 1..Cardinality(top)
  BY RankIsAtMost
<1>7. \A c : IsFiniteSet(before(c)) /\ Cardinality(before(c)) \in Nat
  <2> TAKE c
  <2>1. before(c) \in SUBSET F
    BY <1>3
  <2> HIDE DEF before
  <2> QED
    BY <2>1, <1>4, FS_Subset, FS_CardinalityType
<1>8. \A c, d \in top : RankIn(F, c) = RankIn(F, d) => c = d
  <2> SUFFICES ASSUME NEW c \in top, NEW d \in top, c # d
               PROVE  RankIn(F, c) # RankIn(F, d)
    OBVIOUS
  <2>1. c \in F /\ d \in F
    BY <1>2
  <2>2. Better(c, d) \/ Better(d, c)
    BY <2>1, BetterIsAnOrder
  <2> HIDE DEF top
  <2> QED
    BY <2>1, <2>2, BetterIsBefore
<1>9. \A c, d \in rest : Cardinality(before(c)) = Cardinality(before(d)) => c = d
  <2>1. \A c, d \in rest : c.episode < d.episode => Cardinality(before(c)) < Cardinality(before(d))
    <3> SUFFICES ASSUME NEW c \in rest, NEW d \in rest, c.episode < d.episode
                 PROVE  Cardinality(before(c)) < Cardinality(before(d))
      OBVIOUS
    <3>1. \A b \in rest : b.episode \in Nat
      BY <1>3 DEF TextRows, Chapters
    <3>2. before(c) \in SUBSET before(d) /\ c \in before(d) /\ c \notin before(c)
      BY <3>1
    <3>3. IsFiniteSet(before(d))
      BY <1>7
    <3> HIDE DEF before
    <3> QED
      BY <3>2, <3>3, SmallerSet
  <2> SUFFICES ASSUME NEW c \in rest, NEW d \in rest, c # d
               PROVE  Cardinality(before(c)) # Cardinality(before(d))
    OBVIOUS
  <2>2. c.episode \in Nat /\ d.episode \in Nat /\ c.episode # d.episode
    BY <1>3 DEF TextRows, Chapters
  <2>3. c.episode < d.episode \/ d.episode < c.episode
    BY <2>2
  <2> HIDE DEF before, rest
  <2> QED
    BY <2>1, <2>3, <1>7
<1> HIDE DEF top, rest, before, number
<1>10. DOMAIN number = top \cup rest
  BY <1>1
<1>11. \A c \in top : number[c] = RankIn(F, c)
  BY <1>1
<1>12. \A c \in rest \ top : number[c] = Cardinality(top) + 1 + Cardinality(before(c))
  BY <1>1
<1>13. \A c, d \in top \cup rest : number[c] = number[d] => c = d
  BY <1>5, <1>6, <1>7, <1>8, <1>9, <1>11, <1>12
<1>14. \A c \in top \cup rest : number[c] \in Nat
  BY <1>5, <1>6, <1>7, <1>11, <1>12
<1> QED
  BY <1>2, <1>3, <1>10, <1>13, <1>14 DEF number
-----------------------------------------------------------------------------
\* The assistant begins with no run, and a cache that is current or empty.
LEMMA AssistantInitInv == AssistantInit => AssistantInv
<1> SUFFICES ASSUME AssistantInit PROVE AssistantInv
  OBVIOUS
<1>0. /\ run = NoRun /\ search = NoSearch /\ told = {} /\ result = {} /\ saving = {}
      /\ table = {} /\ opened = {} /\ opening = {} /\ edits = 0
  BY DEF AssistantInit
<1>1. PICK o \in Openings :
        texts = [e \in Chapters |-> [etag |-> 0, text |-> [etag |-> 0, place |-> o[e]]]]
  BY DEF AssistantInit
<1>2. \A e \in Chapters : o[e] \in Places
  BY AssistantAssumption DEF Chapters, Places
<1>3. /\ texts \in [Chapters -> Labels]
      /\ \A e \in Chapters : texts[e].etag = 0 /\ texts[e].text.etag = 0
  BY <1>1, <1>2 DEF Text, Labels
<1>4. AssistantTypes
  BY <1>0, <1>3, NoRunIsARun DEF AssistantTypes
<1>5. SearchHolds /\ AskedFirst
  BY <1>0 DEF SearchHolds, AskedFirst, NoSearch
<1>6. HeldFits
  <2>1. Held = InLibrary
    BY <1>0 DEF Held, InTheWay, InTheRun, NoRun, NoSearch
  <2>2. \A r \in InLibrary : r.etag = 0 /\ r.text.etag = 0 /\ r.text = texts[r.episode].text
    BY <1>3 DEF InLibrary, TextRow
  <2> QED
    BY <2>1, <2>2, <1>0 DEF HeldFits
<1>7. ToldByTheRun
  BY <1>0 DEF ToldByTheRun, NoRun
<1>8. Current
  BY <1>0 DEF Current, SearchIsCurrent, NoRun
<1>9. Shown
  BY <1>0 DEF Shown, BoundaryKept, PassageFitsItsHit
<1> QED
  BY <1>4, <1>5, <1>6, <1>7, <1>8, <1>9 DEF AssistantInv

LEMMA HeldIsTyped ==
  ASSUME AssistantTypes
  PROVE  Held \subseteq TextRows
<1>1. texts \in [Chapters -> Labels] /\ \A e \in Chapters : texts[e] \in Labels
  BY DEF AssistantTypes
<1>2. InLibrary \subseteq TextRows
  BY <1>1 DEF InLibrary, TextRow, TextRows, Labels
<1>3. InTheWay \subseteq TextRows
  BY <1>1 DEF AssistantTypes, InTheWay, TextRow, TextRows, Labels
<1>4. \A e \in DOMAIN run.memory : e \in Chapters /\ run.memory[e] \in Labels
  BY DEF AssistantTypes, Runs, Memories
<1>5. InTheRun \subseteq TextRows
  BY <1>4 DEF AssistantTypes, InTheRun, TextRow, TextRows, Labels, Matches
<1>6. table \cup opened \cup search.rows \cup search.found \subseteq TextRows
  BY DEF AssistantTypes, Searches
<1> QED
  BY <1>2, <1>3, <1>5, <1>6 DEF Held

\* No text is new, and none is held under a newer ETag than its own.
LEMMA HeldBefore ==
  ASSUME HeldFits, edits' = edits,
         \A r \in Held' : \/ r \in Held
                          \/ /\ r.etag <= r.text.etag
                             /\ \E q \in Held : q.episode = r.episode /\ q.text = r.text
  PROVE  HeldFits'
<1>1. \A r \in Held' : \E q \in Held : q.episode = r.episode /\ q.text = r.text
  OBVIOUS
<1>2. \A r \in Held' : r.etag <= r.text.etag /\ r.text.etag <= edits
  BY DEF HeldFits
<1>3. \A q, r \in Held' : q.episode = r.episode /\ q.text.etag = r.text.etag => q.text = r.text
  BY <1>1 DEF HeldFits
<1> QED
  BY <1>2, <1>3 DEF HeldFits

\* The row of an episode is not newer than its file, and older than the next
\* save.
LEMMA RowsAndFiles ==
  ASSUME AssistantInv, NEW e \in Chapters
  PROVE  /\ texts[e] = [etag |-> texts[e].etag, text |-> texts[e].text]
         /\ texts[e].etag \in Nat /\ texts[e].text \in Text /\ texts[e].text.etag \in Nat
         /\ texts[e].etag <= texts[e].text.etag /\ texts[e].text.etag <= edits /\ edits \in Nat
         /\ TextRow(e, texts[e]) \in Held
<1>1. texts[e] \in Labels /\ edits \in Nat
  BY DEF AssistantInv, AssistantTypes
<1>2. TextRow(e, texts[e]) \in Held
  BY DEF Held, InLibrary
<1>3. texts[e].etag <= texts[e].text.etag /\ texts[e].text.etag <= edits
  BY <1>2 DEF AssistantInv, HeldFits, TextRow
<1> QED
  BY <1>1, <1>2, <1>3 DEF Labels, Text

\* A save: rows only get newer ETags.
LEMMA LibraryKeeps ==
  ASSUME AssistantInv, UNCHANGED <<table, opening, opened, run, search, told, result>>,
         edits' \in Nat, texts' \in [Chapters -> Labels],
         saving' \in SUBSET [episode : Chapters, before : Text],
         \A e \in Chapters : texts[e].etag <= texts'[e].etag, HeldFits'
  PROVE  AssistantInv'
<1> USE DEF AssistantInv
<1>1. AssistantTypes'
  BY DEF AssistantTypes
<1>2. SearchHolds'
  BY DEF SearchHolds
<1>3. \A e \in Chapters : texts[e].etag \in Nat /\ texts'[e].etag \in Nat
  BY DEF AssistantTypes, Labels
<1>4. AskedFirst'
  <2>1. ASSUME NEW o \in opening PROVE o.etag <= texts'[o.episode].etag
    <3>1. o.episode \in Chapters /\ o.etag \in Nat /\ o.etag <= texts[o.episode].etag
      BY <2>1 DEF AssistantTypes, AskedFirst
    <3> QED
      BY <3>1, <1>3
  <2>2. ASSUME NEW a \in search.asked
        PROVE  /\ search.on /\ search.next <= search.to
               /\ run.toc[search.next] <= a /\ a <= texts'[search.next].etag
    <3>1. /\ search.on /\ search.next <= search.to
          /\ run.toc[search.next] <= a /\ a <= texts[search.next].etag
      BY <2>2 DEF AskedFirst
    <3>2. a \in Nat /\ search.next \in Nat \ {0} /\ search.to \in Nat /\ run.boundary \in Chapters
      BY <2>2 DEF AssistantTypes, Searches, Runs
    <3>3. search.to <= run.boundary
      BY <3>1 DEF SearchHolds
    <3>4. search.next \in Chapters
      BY <3>1, <3>2, <3>3, AssistantAssumption DEF Chapters
    <3> QED
      BY <3>1, <3>2, <3>4, <1>3
  <2> QED
    BY <2>1, <2>2 DEF AskedFirst
<1>5. ToldByTheRun'
  BY DEF ToldByTheRun
<1>6. Current'
  <2>1. ASSUME run.phase = "asking", NEW e \in DOMAIN run.toc PROVE texts'[e].etag >= run.toc[e]
    <3>1. e \in Chapters /\ run.toc[e] \in Nat
      BY DEF AssistantTypes, Runs, Tables
    <3>2. texts[e].etag >= run.toc[e]
      BY <2>1 DEF Current
    <3> QED
      BY <3>1, <3>2, <1>3
  <2> QED
    BY <2>1 DEF Current, SearchIsCurrent
<1>7. Shown'
  BY DEF Shown, BoundaryKept, PassageFitsItsHit
<1> QED
  BY <1>1, <1>2, <1>4, <1>5, <1>6, <1>7

\* What is held elsewhere does not notice a save.
LEMMA HeldElsewhere ==
  ASSUME UNCHANGED <<table, opened, run, search, told>>, NEW r \in Held'
  PROVE  r \in Held \/ r \in InLibrary' \/ r \in InTheWay'
BY DEF Held, InTheRun

LEMMA SaveBodyKeeps == AssistantInv /\ SaveBody => AssistantInv'
<1> SUFFICES ASSUME AssistantInv, SaveBody PROVE AssistantInv'
  OBVIOUS
<1>1. UNCHANGED <<table, opening, opened, run, search, told, result>> /\ saving = {}
  BY DEF SaveBody
<1>2. texts \in [Chapters -> Labels] /\ edits \in Nat /\ HeldFits /\ Held \subseteq TextRows
  BY HeldIsTyped DEF AssistantInv, AssistantTypes
<1>3. ASSUME NEW e \in Chapters, NEW new \in Text, new.etag = edits + 1, edits' = edits + 1,
             texts' = [texts EXCEPT ![e].text = new],
             saving' = {[episode |-> e, before |-> texts[e].text]}
      PROVE  AssistantInv'
  <2>1. texts[e] \in Labels /\ texts[e].etag \in Nat /\ texts[e].text \in Text
    BY <1>2 DEF Labels
  <2>2. [texts[e] EXCEPT !.text = new] \in Labels
    BY <2>1 DEF Labels
  <2>3. /\ texts' \in [Chapters -> Labels] /\ \A d \in Chapters : texts'[d].etag = texts[d].etag
        /\ \A d \in Chapters : d # e => texts'[d] = texts[d]
        /\ texts'[e].text = new
    BY <1>2, <1>3, <2>1, <2>2 DEF Labels
  <2>4. \A d \in Chapters : texts[d].etag <= texts'[d].etag
    BY <1>2, <2>3 DEF Labels
  <2>5. ASSUME NEW r \in Held'
        PROVE  r \in Held \/ r = [episode |-> e, etag |-> texts[e].etag, text |-> new]
    <3>1. CASE r \in InLibrary'
      <4>1. PICK d \in Chapters : r = TextRow(d, texts'[d])
        BY <3>1 DEF InLibrary
      <4>2. CASE d = e
        BY <4>1, <4>2, <2>3 DEF TextRow
      <4>3. CASE d # e
        BY <4>1, <4>3, <2>3 DEF Held, InLibrary
      <4> QED
        BY <4>2, <4>3
    <3>2. CASE r \in InTheWay'
      <4>1. r = TextRow(e, [etag |-> texts'[e].etag, text |-> texts[e].text])
        BY <1>3, <3>2 DEF InTheWay
      <4>2. r = TextRow(e, texts[e])
        BY <4>1, <2>3 DEF TextRow
      <4> QED
        BY <4>2 DEF Held, InLibrary
    <3> QED
      BY <1>1, <3>1, <3>2, HeldElsewhere
  <2>6. HeldFits'
    <3>1. \A r \in Held : /\ r.etag \in Nat /\ r.text.etag \in Nat
                          /\ r.etag <= r.text.etag /\ r.text.etag <= edits
      BY <1>2 DEF HeldFits, TextRows, Text
    <3>2. texts[e].etag <= edits
      <4>1. /\ texts[e].etag \in Nat /\ texts[e].text.etag \in Nat
            /\ texts[e].etag <= texts[e].text.etag /\ texts[e].text.etag <= edits
        BY RowsAndFiles
      <4> QED
        BY <4>1, <1>2
    <3>3. ASSUME NEW r \in Held' PROVE r.etag <= r.text.etag /\ r.text.etag <= edits + 1
      <4>1. CASE r \in Held
        BY <4>1, <3>1, <1>2
      <4>2. CASE r = [episode |-> e, etag |-> texts[e].etag, text |-> new]
        BY <4>2, <3>2, <1>2, <1>3, <2>1
      <4> QED
        BY <4>1, <4>2, <2>5
    <3>4. ASSUME NEW q \in Held', NEW r \in Held', q.episode = r.episode,
                 q.text.etag = r.text.etag
          PROVE  q.text = r.text
      <4> DEFINE n == [episode |-> e, etag |-> texts[e].etag, text |-> new]
      <4>1. \A x \in Held : x.text.etag # edits + 1
        BY <3>1, <1>2
      <4>2. n.text = new
        OBVIOUS
      <4>3. q \in Held \/ q = n
        BY <2>5
      <4>4. r \in Held \/ r = n
        BY <2>5
      <4> HIDE DEF n
      <4> QED
        BY <4>1, <4>2, <4>3, <4>4, <1>2, <1>3, <3>4 DEF HeldFits
    <3> QED
      BY <1>3, <3>3, <3>4 DEF HeldFits
  <2>7. saving' \in SUBSET [episode : Chapters, before : Text] /\ edits' \in Nat
    BY <1>2, <1>3, <2>1
  <2> QED
    BY <1>1, <2>3, <2>4, <2>6, <2>7, LibraryKeeps
<1>4. ASSUME NEW e \in Chapters, UNCHANGED <<texts, edits>>,
             saving' = {[episode |-> e, before |-> texts[e].text]}
      PROVE  AssistantInv'
  <2>1. texts[e] \in Labels /\ texts[e].text \in Text
    BY <1>2 DEF Labels
  <2>2. ASSUME NEW r \in Held' PROVE r \in Held
    <3>1. CASE r \in InLibrary'
      BY <1>4, <3>1 DEF Held, InLibrary
    <3>2. CASE r \in InTheWay'
      <4>1. r = TextRow(e, [etag |-> texts[e].etag, text |-> texts[e].text])
        BY <1>4, <3>2 DEF InTheWay
      <4>2. r = TextRow(e, texts[e])
        BY <4>1 DEF TextRow
      <4> QED
        BY <4>2 DEF Held, InLibrary
    <3> QED
      BY <1>1, <3>1, <3>2, HeldElsewhere
  <2>3. HeldFits'
    BY <1>2, <1>4, <2>2, HeldBefore
  <2>4. \A d \in Chapters : texts[d].etag <= texts'[d].etag
    BY <1>2, <1>4 DEF Labels
  <2>5. saving' \in SUBSET [episode : Chapters, before : Text]
    BY <1>4, <2>1
  <2> QED
    BY <1>1, <1>2, <1>4, <2>3, <2>4, <2>5, LibraryKeeps
<1>5. CASE /\ edits' = edits + 1
           /\ \E r \in Revisions :
                /\ texts' = [texts EXCEPT ![r.episode].text = [etag |-> edits + 1, place |-> r.place]]
                /\ saving' = {[episode |-> r.episode, before |-> texts[r.episode].text]}
  <2>1. PICK r \in Revisions :
          /\ texts' = [texts EXCEPT ![r.episode].text = [etag |-> edits + 1, place |-> r.place]]
          /\ saving' = {[episode |-> r.episode, before |-> texts[r.episode].text]}
    BY <1>5
  <2>2. r.episode \in Chapters /\ r.place \in Places
    BY AssistantAssumption DEF Chapters, Places
  <2> DEFINE new == [etag |-> edits + 1, place |-> r.place]
  <2>3. new \in Text /\ new.etag = edits + 1
    BY <1>2, <2>2 DEF Text
  <2>4. texts' = [texts EXCEPT ![r.episode].text = new]
    BY <2>1
  <2> HIDE DEF new
  <2> QED
    BY <1>3, <1>5, <2>1, <2>2, <2>3, <2>4
<1> QED
  BY <1>4, <1>5 DEF SaveBody

LEMMA SaveRowKeeps == AssistantInv /\ SaveRow => AssistantInv'
<1> SUFFICES ASSUME AssistantInv, SaveRow PROVE AssistantInv'
  OBVIOUS
<1>1. /\ UNCHANGED <<edits, table, opening, opened, run, search, told, result>> /\ saving' = {}
      /\ \E s \in saving :
           \/ texts' = [texts EXCEPT ![s.episode].etag = texts[s.episode].text.etag]
           \/ texts' = [texts EXCEPT ![s.episode].text = s.before]
  BY DEF SaveRow
<1>2. texts \in [Chapters -> Labels] /\ edits \in Nat /\ HeldFits
  BY DEF AssistantInv, AssistantTypes
<1>3. PICK s \in saving :
        \/ texts' = [texts EXCEPT ![s.episode].etag = texts[s.episode].text.etag]
        \/ texts' = [texts EXCEPT ![s.episode].text = s.before]
  BY <1>1
<1> DEFINE e == s.episode
           done == [texts[e] EXCEPT !.etag = texts[e].text.etag]
           undone == [texts[e] EXCEPT !.text = s.before]
<1>4. e \in Chapters /\ s.before \in Text
  BY DEF AssistantInv, AssistantTypes
<1>5. /\ texts[e].etag \in Nat /\ texts[e].text \in Text /\ texts[e].text.etag \in Nat
      /\ texts[e].etag <= texts[e].text.etag /\ TextRow(e, texts[e]) \in Held /\ texts[e] \in Labels
  BY <1>2, <1>4, RowsAndFiles
<1>6. /\ done = [etag |-> texts[e].text.etag, text |-> texts[e].text] /\ done \in Labels
      /\ undone = [etag |-> texts[e].etag, text |-> s.before] /\ undone \in Labels
  BY <1>4, <1>5 DEF Labels
<1>7. /\ texts'[e] = done \/ texts'[e] = undone
      /\ \A d \in Chapters : d # e => texts'[d] = texts[d]
      /\ texts' \in [Chapters -> Labels]
  <2>1. \/ texts' = [texts EXCEPT ![e] = done]
        \/ texts' = [texts EXCEPT ![e] = undone]
    BY <1>3
  <2> HIDE DEF e, done, undone
  <2> QED
    BY <2>1, <1>2, <1>4, <1>6
<1>8. \A d \in Chapters : texts[d].etag <= texts'[d].etag
  <2>1. ASSUME NEW d \in Chapters PROVE texts[d].etag <= texts[d].etag
    BY <1>2 DEF Labels
  <2>2. texts[e].etag <= done.etag /\ texts[e].etag <= undone.etag
    BY <1>4, <1>5, <1>6, <2>1
  <2> HIDE DEF e, done, undone
  <2> QED
    BY <2>1, <2>2, <1>7
<1>9. TextRow(e, undone) \in Held
  BY <1>6 DEF Held, InTheWay
<1>10. /\ TextRow(e, done).etag <= TextRow(e, done).text.etag
       /\ TextRow(e, done).episode = TextRow(e, texts[e]).episode
       /\ TextRow(e, done).text = TextRow(e, texts[e]).text
  BY <1>5, <1>6 DEF TextRow
<1>11. HeldFits'
  <2>1. ASSUME NEW r \in Held'
        PROVE  \/ r \in Held
               \/ /\ r.etag <= r.text.etag
                  /\ \E q \in Held : q.episode = r.episode /\ q.text = r.text
    <3>1. r \in Held \/ r \in InLibrary'
      BY <1>1, HeldElsewhere DEF InTheWay
    <3>2. CASE r \in InLibrary'
      <4>1. PICK d \in Chapters : r = TextRow(d, texts'[d])
        BY <3>2 DEF InLibrary
      <4>2. CASE d # e
        BY <4>1, <4>2, <1>7 DEF Held, InLibrary
      <4>3. CASE d = e
        <5> HIDE DEF e, done, undone
        <5>1. r = TextRow(e, done) \/ r = TextRow(e, undone)
          BY <4>1, <4>3, <1>7
        <5> QED
          BY <5>1, <1>5, <1>9, <1>10
      <4> QED
        BY <4>2, <4>3
    <3> QED
      BY <3>1, <3>2
  <2> QED
    BY <1>1, <1>2, <2>1, HeldBefore
<1> QED
  BY <1>1, <1>2, <1>7, <1>8, <1>11, LibraryKeeps

LEMMA SaveStopsKeeps == AssistantInv /\ SaveStops => AssistantInv'
<1> SUFFICES ASSUME AssistantInv, SaveStops PROVE AssistantInv'
  OBVIOUS
<1>1. /\ UNCHANGED <<texts, edits, table, opening, opened, run, search, told, result>>
      /\ saving' = {}
  BY DEF SaveStops
<1>2. texts \in [Chapters -> Labels] /\ edits \in Nat /\ HeldFits
  BY DEF AssistantInv, AssistantTypes
<1>3. Held' \subseteq Held
  BY <1>1 DEF Held, InLibrary, InTheWay, InTheRun
<1>4. HeldFits'
  BY <1>1, <1>2, <1>3, HeldBefore
<1>5. \A d \in Chapters : texts[d].etag <= texts'[d].etag
  BY <1>1, <1>2 DEF Labels
<1> QED
  BY <1>1, <1>2, <1>4, <1>5, LibraryKeeps

\* What only touches the cache and the open episode: a text is held under the
\* ETag that was asked for before it.
LEMMA CacheKeeps ==
  ASSUME AssistantInv,
         UNCHANGED <<texts, saving, edits, run, search, told, result>>,
         \A o \in opening' : \/ o \in opening
                             \/ \E e \in Chapters : o = [episode |-> e, etag |-> texts[e].etag],
         \A r \in table' \cup opened' :
           \/ r \in table \cup opened
           \/ \E s \in table \cup opened : r = TextRow(s.episode, s)
           \/ \E o \in opening :
                r = [episode |-> o.episode, etag |-> o.etag, text |-> texts[o.episode].text]
  PROVE  AssistantInv'
<1> USE DEF AssistantInv
<1>0. \A s \in table \cup opened : TextRow(s.episode, s) = s
  BY DEF AssistantTypes, TextRow, TextRows
<1>1. ASSUME NEW r \in table' \cup opened'
      PROVE  /\ r \in TextRows
             /\ \/ r \in Held
                \/ /\ r.etag <= r.text.etag
                   /\ \E q \in Held : q.episode = r.episode /\ q.text = r.text
  <2>1. CASE r \in table \cup opened
    BY <2>1 DEF AssistantTypes, Held
  <2>2. CASE \E o \in opening :
               r = [episode |-> o.episode, etag |-> o.etag, text |-> texts[o.episode].text]
    <3>1. PICK o \in opening :
            r = [episode |-> o.episode, etag |-> o.etag, text |-> texts[o.episode].text]
      BY <2>2
    <3>2. o.episode \in Chapters /\ o.etag \in Nat /\ o.etag <= texts[o.episode].etag
      BY DEF AssistantTypes, AskedFirst
    <3>3. /\ texts[o.episode].etag \in Nat /\ texts[o.episode].text \in Text
          /\ texts[o.episode].text.etag \in Nat
          /\ texts[o.episode].etag <= texts[o.episode].text.etag
          /\ TextRow(o.episode, texts[o.episode]) \in Held
      BY <3>2, RowsAndFiles
    <3>4. /\ r \in TextRows /\ r.etag = o.etag /\ r.text = texts[o.episode].text
          /\ r.episode = o.episode
      BY <3>1, <3>2, <3>3 DEF TextRows
    <3>5. r.etag <= r.text.etag
      BY <3>2, <3>3, <3>4
    <3>6. /\ TextRow(o.episode, texts[o.episode]).episode = r.episode
          /\ TextRow(o.episode, texts[o.episode]).text = r.text
      BY <3>4 DEF TextRow
    <3> QED
      BY <3>3, <3>4, <3>5, <3>6
  <2> QED
    BY <1>0, <1>1, <2>1, <2>2
<1>2. \A o \in opening' : o \in [episode : Chapters, etag : Nat] /\ o.etag <= texts[o.episode].etag
  <2> TAKE o \in opening'
  <2>1. CASE o \in opening
    BY <2>1 DEF AssistantTypes, AskedFirst
  <2>2. CASE \E e \in Chapters : o = [episode |-> e, etag |-> texts[e].etag]
    <3>1. PICK e \in Chapters : o = [episode |-> e, etag |-> texts[e].etag]
      BY <2>2
    <3>2. texts[e].etag \in Nat
      BY RowsAndFiles
    <3> QED
      BY <3>1, <3>2
  <2> QED
    BY <2>1, <2>2
<1>3. AssistantTypes'
  BY <1>1, <1>2 DEF AssistantTypes
<1>4. SearchHolds'
  BY DEF SearchHolds
<1>5. AskedFirst'
  BY <1>2 DEF AskedFirst
<1>6. HeldFits'
  <2>1. ASSUME NEW r \in Held'
        PROVE  \/ r \in Held
               \/ /\ r.etag <= r.text.etag
                  /\ \E q \in Held : q.episode = r.episode /\ q.text = r.text
    <3>1. r \in Held \/ r \in table' \cup opened'
      BY DEF Held, InLibrary, InTheWay, InTheRun
    <3> QED
      BY <3>1, <1>1
  <2> QED
    BY <2>1, HeldBefore
<1>7. ToldByTheRun'
  BY DEF ToldByTheRun
<1>8. Current'
  BY DEF Current, SearchIsCurrent
<1>9. Shown'
  BY DEF Shown, BoundaryKept, PassageFitsItsHit
<1> QED
  BY <1>3, <1>4, <1>5, <1>6, <1>7, <1>8, <1>9 DEF AssistantInv

LEMMA OpenEpisodeKeeps == AssistantInv /\ OpenEpisode => AssistantInv'
  BY CacheKeeps DEF OpenEpisode

LEMMA OpenBodyKeeps == AssistantInv /\ OpenBody => AssistantInv'
  BY CacheKeeps DEF OpenBody

LEMMA WriteThroughKeeps == AssistantInv /\ WriteThrough => AssistantInv'
  BY CacheKeeps DEF WriteThrough, SavedRow

LEMMA RebuildCacheKeeps == AssistantInv /\ RebuildCache => AssistantInv'
  BY CacheKeeps DEF RebuildCache

LEMMA RespondKeeps == AssistantInv /\ Respond => AssistantInv'
<1> SUFFICES ASSUME AssistantInv, Respond PROVE AssistantInv'
  OBVIOUS
<1> USE DEF AssistantInv
<1>0. /\ run.phase = "idle" /\ told' = {} /\ result' = {}
      /\ UNCHANGED <<texts, saving, edits, table, opening, opened, search>>
  BY DEF Respond
<1>1. PICK q \in Questions :
        run' = [NoRun EXCEPT !.phase = "asking", !.current = q.current, !.boundary = q.boundary,
                  !.toc = [e \in {e \in Chapters : q.listed} |-> texts[e].etag]]
  BY DEF Respond
<1> DEFINE listed == {e \in Chapters : q.listed}
           toc == [e \in listed |-> texts[e].etag]
<1>2. q.current \in Chapters /\ q.boundary \in Chapters
  BY AssistantAssumption DEF Chapters
<1>3. listed = {} \/ listed = Chapters
  OBVIOUS
<1>4. texts \in [Chapters -> Labels]
  BY DEF AssistantTypes
<1>5. toc \in Tables /\ DOMAIN toc = listed
      /\ \A e \in listed : e \in Chapters /\ toc[e] = texts[e].etag /\ texts[e].etag \in Nat
  BY <1>3, <1>4 DEF Labels, Tables
<1>6. run' = [NoRun EXCEPT !.phase = "asking", !.current = q.current, !.boundary = q.boundary,
                !.toc = toc]
  BY <1>1
<1> HIDE DEF toc, listed
<1>7. run' \in Runs
  BY <1>2, <1>5, <1>6, NoRunIsARun DEF Runs
<1>8. /\ run'.phase = "asking" /\ run'.toc = toc /\ run'.memory = <<>> /\ run'.hits = <<>>
      /\ run'.boundary = q.boundary
  BY <1>6 DEF NoRun
<1>9. ~ search.on /\ search.found = {} /\ search.rows = {} /\ search.asked = {}
  BY <1>0 DEF SearchHolds
<1>10. AssistantTypes'
  BY <1>0, <1>7 DEF AssistantTypes
<1>11. SearchHolds' /\ AskedFirst'
  BY <1>0, <1>9 DEF SearchHolds, AskedFirst
<1>12. HeldFits'
  <2>1. Held' \subseteq Held
    BY <1>0, <1>8, <1>9 DEF Held, InLibrary, InTheWay, InTheRun
  <2> QED
    BY <1>0, <2>1, HeldBefore
<1>13. ToldByTheRun'
  BY <1>0, <1>8 DEF ToldByTheRun
<1>14. Current'
  BY <1>0, <1>5, <1>8 DEF Current, SearchIsCurrent
<1>15. Shown'
  BY <1>0 DEF Shown, BoundaryKept, PassageFitsItsHit
<1> QED
  BY <1>10, <1>11, <1>12, <1>13, <1>14, <1>15 DEF AssistantInv
-----------------------------------------------------------------------------
\* What the passage of a hit is.
FitsAHit(r) ==
  /\ \E m \in told : m.id = r.id
  /\ \A m \in told : m.id = r.id =>
       /\ m.episode = r.episode /\ r.text.etag >= m.etag
       /\ m.text # r.text => m.text.etag > m.etag \/ r.text.etag > m.etag

\* Answers counts the call and shows texts; nothing else of the run changes.
LEMMA AnswersKeeps ==
  ASSUME AssistantInv, NEW bodies, Answers(bodies),
         \A r \in bodies : r.episode <= run.boundary /\ (r.id # <<>> => FitsAHit(r))
  PROVE  AssistantInv'
<1> USE DEF AssistantInv
<1>0. /\ result' = bodies /\ run' = [run EXCEPT !.calls = @ + 1]
      /\ UNCHANGED <<texts, saving, edits, table, opening, opened, search, told, runs, mishaps>>
  BY DEF Answers
<1>1. run \in Runs
  BY DEF AssistantTypes
<1>2. run' \in Runs
  BY <1>0, <1>1 DEF Runs
<1>3. /\ run'.phase = run.phase /\ run'.boundary = run.boundary /\ run'.toc = run.toc
      /\ run'.memory = run.memory /\ run'.hits = run.hits /\ run'.ordinal = run.ordinal
  BY <1>0, <1>1 DEF Runs
<1>4. AssistantTypes'
  BY <1>0, <1>2 DEF AssistantTypes
<1>5. SearchHolds' /\ AskedFirst'
  BY <1>0, <1>3 DEF SearchHolds, AskedFirst
<1>6. HeldFits'
  <2>1. Held' \subseteq Held
    BY <1>0, <1>3 DEF Held, InLibrary, InTheWay, InTheRun
  <2> QED
    BY <1>0, <2>1, HeldBefore
<1>7. ToldByTheRun'
  BY <1>0, <1>3 DEF ToldByTheRun
<1>8. Current'
  BY <1>0, <1>3 DEF Current, SearchIsCurrent
<1>9. Shown'
  BY <1>0, <1>3 DEF Shown, BoundaryKept, PassageFitsItsHit, FitsAHit
<1> QED
  BY <1>4, <1>5, <1>6, <1>7, <1>8, <1>9 DEF AssistantInv

LEMMA BodiesAreAnonymous ==
  ASSUME NEW es, NEW n, \A e \in es : e <= n
  PROVE  \A r \in Bodies(es) : r.episode <= n /\ r.id = <<>>
  BY DEF Bodies, Told

LEMMA Numbers ==
  ASSUME AssistantTypes
  PROVE  /\ run.boundary \in Nat /\ run.current \in Nat
         /\ BoundaryNumber \in 0..run.boundary
         /\ \A e \in Chapters : NumberOf(e) \in {0, e} /\ (Visible(e) => e <= run.boundary)
         /\ BoundaryNumber # 0 => DOMAIN run.toc = Chapters
<1>1. run.boundary \in Chapters /\ run.current \in Chapters
      /\ (DOMAIN run.toc = {} \/ DOMAIN run.toc = Chapters)
  BY DEF AssistantTypes, Runs, Tables
<1>2. \A e \in Chapters : e \in Nat \ {0}
  BY DEF Chapters
<1> QED
  BY <1>1, <1>2 DEF BoundaryNumber, NumberOf, Visible

\* A range ends at the boundary at the latest.
LEMMA RangesEndInTime ==
  ASSUME AssistantTypes, NEW from \in Nat, NEW to \in Chapters \cup {Unset},
         NEW limit \in Nat \ {0}, NEW r \in EpisodeRange(from, to, limit)
  PROVE  /\ r[1] \in Nat \ {0} /\ r[2] \in Nat /\ r[1] <= r[2] /\ r[2] <= run.boundary
         /\ r[2] \in Chapters /\ DOMAIN run.toc = Chapters
<1> DEFINE recent == IF BoundaryNumber > limit THEN BoundaryNumber - limit + 1 ELSE 1
           start == IF from # Unset THEN from ELSE IF to = Unset THEN recent ELSE 1
           end == IF to # Unset THEN to ELSE BoundaryNumber
<1>1. r = <<start, end>> /\ 1 <= start /\ start <= end /\ end <= BoundaryNumber
  BY DEF EpisodeRange
<1>2. BoundaryNumber \in 0..run.boundary /\ run.boundary \in Nat /\ run.boundary \in Chapters
  BY Numbers DEF AssistantTypes, Runs
<1>3. to \in Nat
  BY DEF Chapters, Unset
<1>4. start \in Nat /\ end \in Nat
  BY <1>2, <1>3
<1>5. r[1] = start /\ r[2] = end
  <2> HIDE DEF start, end
  <2> QED
    BY <1>1
<1> HIDE DEF start, end
<1>6. end \in 1..run.boundary
  BY <1>1, <1>2, <1>4
<1>7. end \in Chapters
  BY <1>2, <1>6, AssistantAssumption DEF Chapters
<1>8. DOMAIN run.toc = Chapters
  BY <1>1, <1>2, <1>4, Numbers
<1> QED
  BY <1>1, <1>4, <1>5, <1>6, <1>7, <1>8

LEMMA ToolsKeep ==
  AssistantInv /\ (GetCurrentEpisode \/ GetPreviousEpisode \/ LoadEpisode \/ LoadEpisodeRange)
    => AssistantInv'
<1> SUFFICES ASSUME AssistantInv PROVE
      GetCurrentEpisode \/ GetPreviousEpisode \/ LoadEpisode \/ LoadEpisodeRange => AssistantInv'
  OBVIOUS
<1>1. AssistantTypes
  BY DEF AssistantInv
<1>2. \A es : Answers(Bodies(es)) /\ (\A e \in es : e <= run.boundary) => AssistantInv'
  BY BodiesAreAnonymous, AnswersKeeps
<1>3. Answers({}) => AssistantInv'
  BY AnswersKeeps
<1>4. ASSUME GetCurrentEpisode PROVE AssistantInv'
  <2>1. run.current \in Chapters
    BY <1>1 DEF AssistantTypes, Runs
  <2>2. Visible(run.current) => \A e \in {run.current} : e <= run.boundary
    BY <2>1, <1>1, Numbers
  <2> QED
    BY <1>2, <1>3, <1>4, <2>2 DEF GetCurrentEpisode
<1>5. ASSUME GetPreviousEpisode PROVE AssistantInv'
  <2> DEFINE previous == NumberOf(run.current) - 1
  <2>1. run.current \in Chapters
    BY <1>1 DEF AssistantTypes, Runs
  <2>2. NumberOf(run.current) \in Nat
    BY <2>1, <1>1, Numbers
  <2>3. previous <= BoundaryNumber => \A e \in {previous} : e <= run.boundary
    BY <2>2, <1>1, Numbers
  <2> QED
    BY <1>2, <1>3, <1>5, <2>3 DEF GetPreviousEpisode
<1>6. ASSUME LoadEpisode PROVE AssistantInv'
  <2>1. PICK e \in Chapters : Answers(IF Visible(e) THEN Bodies({e}) ELSE {})
    BY <1>6 DEF LoadEpisode
  <2>2. Visible(e) => \A d \in {e} : d <= run.boundary
    BY <1>1, Numbers
  <2> QED
    BY <1>2, <1>3, <2>1, <2>2
<1>7. ASSUME LoadEpisodeRange PROVE AssistantInv'
  <2>1. PICK from \in Chapters \cup {Unset}, to \in Chapters \cup {Unset} :
          Answers(Bodies(UNION {r[1]..r[2] : r \in EpisodeRange(from, to, RangeLimit)}))
    BY <1>7 DEF LoadEpisodeRange
  <2>2. from \in Nat /\ RangeLimit \in Nat \ {0}
    BY AssistantAssumption DEF Chapters, Unset
  <2>3. \A r \in EpisodeRange(from, to, RangeLimit) : \A e \in r[1]..r[2] : e <= run.boundary
    <3> TAKE r \in EpisodeRange(from, to, RangeLimit)
    <3>1. r[1] \in Nat /\ r[2] \in Nat /\ r[2] <= run.boundary /\ run.boundary \in Nat
      BY <1>1, <2>2, RangesEndInTime, Numbers
    <3> QED
      BY <3>1
  <2>4. \A e \in UNION {r[1]..r[2] : r \in EpisodeRange(from, to, RangeLimit)} : e <= run.boundary
    BY <2>3
  <2> QED
    BY <1>2, <2>1, <2>4
<1> QED
  BY <1>4, <1>5, <1>6, <1>7

LEMMA BeginSearchKeeps == AssistantInv /\ BeginSearch => AssistantInv'
<1> SUFFICES ASSUME AssistantInv, BeginSearch PROVE AssistantInv'
  OBVIOUS
<1> USE DEF AssistantInv
<1>0. /\ run.phase = "asking" /\ ~ search.on /\ result' = {}
      /\ run' = [run EXCEPT !.calls = @ + 1, !.ordinal = @ + 1]
      /\ UNCHANGED <<texts, saving, edits, table, opening, opened, told>>
  BY DEF BeginSearch, CanCall
<1>1. PICK to \in Chapters \cup {Unset}, max \in Limits :
        \E r \in EpisodeRange(1, to, Book) : \E rows \in {CachedRows(r[1], r[2]), {}} :
          search' = [on |-> TRUE, next |-> r[1], to |-> r[2], max |-> max, found |-> {},
                     rows |-> rows, asked |-> {}]
  BY DEF BeginSearch
<1>2. PICK r \in EpisodeRange(1, to, Book) : \E rows \in {CachedRows(r[1], r[2]), {}} :
          search' = [on |-> TRUE, next |-> r[1], to |-> r[2], max |-> max, found |-> {},
                     rows |-> rows, asked |-> {}]
  BY <1>1
<1>3. PICK rows \in {CachedRows(r[1], r[2]), {}} :
          search' = [on |-> TRUE, next |-> r[1], to |-> r[2], max |-> max, found |-> {},
                     rows |-> rows, asked |-> {}]
  BY <1>2
<1>4. /\ r[1] \in Nat \ {0} /\ r[2] \in Nat /\ r[2] <= run.boundary /\ DOMAIN run.toc = Chapters
  <2>1. Book \in Nat \ {0}
    BY AssistantAssumption
  <2> QED
    BY <2>1, RangesEndInTime
<1>5. /\ rows \in SUBSET table /\ \A x \in rows : x.etag = run.toc[x.episode]
  BY <1>3 DEF CachedRows
<1>6. run \in Runs
  BY DEF AssistantTypes
<1>7. run' \in Runs
  <2>1. run.calls + 1 \in Nat /\ run.ordinal + 1 \in Nat
    BY <1>6 DEF Runs
  <2>2. [run EXCEPT !.calls = run.calls + 1] \in Runs
    BY <1>6, <2>1 DEF Runs
  <2>3. run' = [[run EXCEPT !.calls = run.calls + 1] EXCEPT !.ordinal = run.ordinal + 1]
    BY <1>0, <1>6 DEF Runs
  <2> QED
    BY <2>1, <2>2, <2>3 DEF Runs
<1>8. /\ run'.phase = run.phase /\ run'.boundary = run.boundary /\ run'.toc = run.toc
      /\ run'.memory = run.memory /\ run'.hits = run.hits /\ run'.ordinal = run.ordinal + 1
      /\ run.ordinal \in Nat
  BY <1>0, <1>6 DEF Runs
<1>9. search'.on /\ search'.to = r[2] /\ search'.found = {} /\ search'.rows = rows
      /\ search'.asked = {}
  BY <1>3
<1>10. search' \in Searches
  <2>1. max \in Nat
    BY AssistantAssumption
  <2>2. rows \in SUBSET TextRows
    BY <1>5 DEF AssistantTypes
  <2> QED
    BY <1>3, <1>4, <2>1, <2>2 DEF Searches
<1>11. AssistantTypes'
  BY <1>0, <1>7, <1>10 DEF AssistantTypes
<1>12. SearchHolds' /\ AskedFirst'
  BY <1>0, <1>4, <1>5, <1>8, <1>9 DEF SearchHolds, AskedFirst
<1>13. HeldFits'
  <2>1. Held' \subseteq Held
    BY <1>0, <1>5, <1>8, <1>9 DEF Held, InLibrary, InTheWay, InTheRun
  <2> QED
    BY <1>0, <2>1, HeldBefore
<1>14. ToldByTheRun'
  <2>1. \A m \in told : m.id[1] \in Nat
    BY DEF AssistantTypes, Matches
  <2>2. \A m \in told : m.id[1] <= run.ordinal
    BY DEF ToldByTheRun
  <2>3. \A m \in told : m.id[1] <= run.ordinal + 1 /\ m.id[1] < run.ordinal + 1
    BY <2>1, <2>2, <1>8
  <2> QED
    BY <2>3, <1>0, <1>8 DEF ToldByTheRun
<1>15. Current'
  BY <1>0, <1>8 DEF Current, SearchIsCurrent
<1>16. Shown'
  BY <1>0 DEF Shown, BoundaryKept, PassageFitsItsHit
<1> QED
  BY <1>11, <1>12, <1>13, <1>14, <1>15, <1>16 DEF AssistantInv
-----------------------------------------------------------------------------
LEMMA NextIsAChapter ==
  ASSUME AssistantTypes, SearchHolds, search.on, search.next <= search.to
  PROVE  /\ search.next \in Chapters /\ search.next \in DOMAIN run.toc
         /\ run.toc[search.next] \in Nat /\ run.phase = "asking"
<1>1. run.boundary \in Chapters /\ search.next \in Nat \ {0} /\ search.to \in Nat
  BY DEF AssistantTypes, Runs, Searches
<1>2. search.to <= run.boundary /\ DOMAIN run.toc = Chapters /\ run.phase = "asking"
  BY DEF SearchHolds
<1>3. search.next \in Chapters
  BY <1>1, <1>2, AssistantAssumption DEF Chapters
<1>4. run.toc \in Tables
  BY DEF AssistantTypes, Runs
<1>5. run.toc[search.next] \in Nat
  BY <1>2, <1>3, <1>4 DEF Tables
<1> QED
  BY <1>2, <1>3, <1>5

LEMMA MemoryGrows ==
  ASSUME AssistantTypes, NEW e \in Chapters, NEW t \in Labels
  PROVE  /\ Remember(e, t) \in Memories /\ DOMAIN Remember(e, t) = DOMAIN run.memory \cup {e}
         /\ Remember(e, t)[e] = t
         /\ \A x \in DOMAIN run.memory : x # e => Remember(e, t)[x] = run.memory[x]
<1>1. run.memory \in Memories
  BY DEF AssistantTypes, Runs
<1>2. PICK E \in SUBSET Chapters : run.memory \in [E -> Labels]
  BY <1>1 DEF Memories
<1>3. Remember(e, t) \in [E \cup {e} -> Labels]
  BY <1>2 DEF Remember
<1>4. E \cup {e} \in SUBSET Chapters
  OBVIOUS
<1>5. Remember(e, t) \in Memories
  BY <1>3, <1>4 DEF Memories
<1> QED
  BY <1>2, <1>5 DEF Remember

\* A text of the episode is taken, under an ETag that is not newer, with its
\* place for a candidate if the word is in it.
LEMMA FoundKeeps ==
  ASSUME AssistantInv, search.on, search.next <= search.to, NEW t \in Labels,
         \E q \in Held : q.episode = search.next /\ q.text = t.text,
         t.etag <= t.text.etag, t.text.etag >= run.toc[search.next], Found(search.next, t),
         \/ run' = run /\ search.next \in DOMAIN run.memory
         \/ run' = [run EXCEPT !.memory = Remember(search.next, t)],
         table' = table \/ table' = SavedRow(table, search.next, t),
         UNCHANGED <<texts, saving, edits, opening, opened, told, result>>
  PROVE  AssistantInv'
<1> DEFINE e == search.next
           c0 == TextRow(e, t)
<1>1. AssistantTypes /\ SearchHolds /\ AskedFirst /\ HeldFits /\ ToldByTheRun /\ Current /\ Shown
  BY DEF AssistantInv
<1>2. e \in Chapters /\ e \in DOMAIN run.toc /\ run.toc[e] \in Nat /\ run.phase = "asking"
  BY <1>1, NextIsAChapter
<1>3. t.text \in Text /\ t.etag \in Nat
  BY DEF Labels
<1>4. run \in Runs /\ search \in Searches
  BY <1>1 DEF AssistantTypes
<1>5. run' \in Runs
  <2>1. Remember(e, t) \in Memories
    BY <1>1, <1>2, MemoryGrows
  <2>2. [run EXCEPT !.memory = Remember(e, t)] \in Runs
    BY <1>4, <2>1 DEF Runs
  <2> QED
    BY <1>4, <2>2
<1>6. /\ run'.phase = run.phase /\ run'.boundary = run.boundary /\ run'.toc = run.toc
      /\ run'.hits = run.hits /\ run'.ordinal = run.ordinal
  BY <1>4 DEF Runs
<1>7. /\ DOMAIN run'.memory = DOMAIN run.memory \cup {e}
      /\ \A x \in DOMAIN run'.memory :
           \/ x = e /\ run'.memory[x] = t
           \/ x \in DOMAIN run.memory /\ run'.memory[x] = run.memory[x]
  <2>1. CASE run' = run /\ e \in DOMAIN run.memory
    BY <2>1
  <2>2. CASE run' = [run EXCEPT !.memory = Remember(e, t)]
    <3>1. run'.memory = Remember(e, t)
      BY <2>2, <1>4 DEF Runs
    <3>2. /\ DOMAIN Remember(e, t) = DOMAIN run.memory \cup {e} /\ Remember(e, t)[e] = t
          /\ \A x \in DOMAIN run.memory : x # e => Remember(e, t)[x] = run.memory[x]
      BY <1>1, <1>2, MemoryGrows
    <3> HIDE DEF e
    <3> QED
      BY <3>1, <3>2
  <2> QED
    BY <2>1, <2>2
<1>8. c0 \in TextRows /\ c0.episode = e /\ c0.text = t.text /\ c0.etag = t.etag
  BY <1>2, <1>3 DEF TextRow, TextRows
<1>9. /\ search'.found \in {search.found, search.found \cup {c0}}
      /\ t.text.place = "none" => search'.found = search.found
      /\ search'.next = e + 1 /\ search'.on /\ search'.to = search.to
      /\ search'.rows = search.rows /\ search'.max = search.max /\ search'.asked = {}
  BY <1>4 DEF Found, Searches
<1>10. search' \in Searches
  <2>1. search'.found \in SUBSET TextRows
    BY <1>4, <1>8, <1>9 DEF Searches
  <2>2. e + 1 \in Nat \ {0}
    BY <1>4 DEF Searches
  <2>3. search' = [[[search EXCEPT !.next = e + 1] EXCEPT !.asked = {}]
                     EXCEPT !.found = search'.found]
    BY <1>4 DEF Found, Searches
  <2>4. [[search EXCEPT !.next = e + 1] EXCEPT !.asked = {}] \in Searches
    BY <1>4, <2>2 DEF Searches
  <2> QED
    BY <2>1, <2>3, <2>4 DEF Searches
<1> HIDE DEF c0
<1>11. \A r \in table' : r \in table \/ r = c0
  BY DEF SavedRow, c0
<1>12. AssistantTypes'
  <2>1. table' \in SUBSET TextRows
    BY <1>1, <1>8, <1>11 DEF AssistantTypes
  <2> QED
    BY <1>1, <1>5, <1>10, <2>1 DEF AssistantTypes
<1>13. \A c \in search'.found : c \in search.found \/ (c = c0 /\ t.text.place # "none")
  BY <1>9
<1>14. \A c \in search.found : c.episode \in Nat /\ c.episode < e
  BY <1>1, <1>4 DEF SearchHolds, Searches, TextRows, Chapters
<1>15. SearchHolds'
  <2>1. e \in Nat /\ search.to \in Nat
    BY <1>4 DEF Searches
  <2>2. \A c \in search'.found :
          /\ c.episode < e + 1 /\ c.episode <= search.to /\ c.text.place # "none"
          /\ c.episode \in DOMAIN run'.memory /\ c.text.etag >= run.toc[c.episode]
    BY <2>1, <1>1, <1>7, <1>8, <1>13, <1>14 DEF SearchHolds
  <2>3. \A c, d \in search'.found : c.episode = d.episode => c = d
    BY <2>1, <1>1, <1>8, <1>13, <1>14 DEF SearchHolds
  <2>4. search.on => run.phase = "asking" /\ DOMAIN run.toc = Chapters /\ search.to <= run.boundary
    BY <1>1 DEF SearchHolds
  <2>5. \A r \in search.rows : r.etag = run.toc[r.episode]
    BY <1>1 DEF SearchHolds
  <2> QED
    BY <2>2, <2>3, <2>4, <2>5, <1>6, <1>9 DEF SearchHolds
<1>16. AskedFirst'
  BY <1>1, <1>9 DEF AskedFirst
<1>17. HeldFits'
  <2>1. \A x \in DOMAIN run'.memory :
          \/ TextRow(x, run'.memory[x]) = c0
          \/ x \in DOMAIN run.memory /\ TextRow(x, run'.memory[x]) = TextRow(x, run.memory[x])
    BY <1>7 DEF c0
  <2>2. \A r \in Held' : r \in Held \/ r = c0
    BY <2>1, <1>9, <1>11, <1>13 DEF Held, InLibrary, InTheWay, InTheRun
  <2>3. c0.etag <= c0.text.etag /\ \E q \in Held : q.episode = c0.episode /\ q.text = c0.text
    BY <1>8
  <2> QED
    BY <1>1, <2>2, <2>3, HeldBefore
<1>18. ToldByTheRun'
  BY <1>1, <1>6, <1>7, <1>9 DEF ToldByTheRun
<1>19. Current'
  BY <1>1, <1>6 DEF Current, SearchIsCurrent
<1>20. Shown'
  BY <1>1, <1>6 DEF Shown, BoundaryKept, PassageFitsItsHit
<1> QED
  BY <1>12, <1>15, <1>16, <1>17, <1>18, <1>19, <1>20 DEF AssistantInv

LEMMA SearchEpisodeKeeps == AssistantInv /\ SearchEpisode => AssistantInv'
<1> SUFFICES ASSUME AssistantInv, SearchEpisode PROVE AssistantInv'
  OBVIOUS
<1> DEFINE e == search.next
<1>1. AssistantTypes /\ SearchHolds /\ HeldFits
  BY DEF AssistantInv
<1>2. /\ search.on /\ e <= search.to
      /\ UNCHANGED <<texts, saving, edits, table, opening, opened, told, result>>
  BY DEF SearchEpisode, Searching
<1>3. e \in Chapters /\ e \in DOMAIN run.toc /\ run.toc[e] \in Nat
  BY <1>1, <1>2, NextIsAChapter
\* Both the memory and the rows hold the text under the ETag of the table.
<1>4. ASSUME NEW t \in Labels, t.etag = run.toc[e], TextRow(e, t) \in Held
      PROVE  /\ t.etag <= t.text.etag /\ t.text.etag >= run.toc[e]
             /\ \E q \in Held : q.episode = e /\ q.text = t.text
  <2>1. TextRow(e, t).episode = e /\ TextRow(e, t).text = t.text /\ TextRow(e, t).etag = t.etag
    BY DEF TextRow
  <2>2. t.etag <= t.text.etag
    BY <2>1, <1>1, <1>4 DEF HeldFits
  <2>3. t.etag \in Nat /\ t.text.etag \in Nat
    BY DEF Labels, Text
  <2> QED
    BY <2>1, <2>2, <2>3, <1>3, <1>4
<1>5. CASE InMemory(e) # {}
  <2>1. PICK t \in InMemory(e) : Found(e, t) /\ UNCHANGED run
    BY <1>5 DEF SearchEpisode
  <2>2. e \in DOMAIN run.memory /\ t = run.memory[e] /\ t.etag = run.toc[e]
    BY DEF InMemory, Remembered
  <2>3. t \in Labels
    BY <2>2, <1>1 DEF AssistantTypes, Runs, Memories
  <2>4. TextRow(e, t) \in Held
    BY <2>2 DEF Held, InTheRun
  <2> QED
    BY <1>2, <1>4, <2>1, <2>2, <2>3, <2>4, FoundKeeps
<1>6. CASE InMemory(e) = {}
  <2>1. PICK t \in InRows(e) : Found(e, t) /\ run' = [run EXCEPT !.memory = Remember(e, t)]
    BY <1>6 DEF SearchEpisode
  <2>2. PICK r \in search.rows : r.episode = e /\ t = Labelled(r)
    BY <2>1 DEF InRows
  <2>3. r \in TextRows /\ r.etag = run.toc[e]
    BY <2>2, <1>1 DEF SearchHolds, AssistantTypes, Searches
  <2>4. t \in Labels /\ t.etag = run.toc[e] /\ TextRow(e, t) = r
    BY <2>2, <2>3 DEF Labelled, Labels, TextRow, TextRows
  <2>5. TextRow(e, t) \in Held
    BY <2>4 DEF Held
  <2> QED
    BY <1>2, <1>4, <2>1, <2>4, <2>5, FoundKeeps
<1> QED
  BY <1>5, <1>6

LEMMA FreshEpisodeKeeps == AssistantInv /\ FreshEpisode => AssistantInv'
<1> SUFFICES ASSUME AssistantInv, FreshEpisode PROVE AssistantInv'
  OBVIOUS
<1> DEFINE e == search.next
<1>1. AssistantTypes /\ SearchHolds /\ AskedFirst
  BY DEF AssistantInv
<1>2. search.on /\ e <= search.to /\ UNCHANGED <<texts, saving, edits, opening, opened, told, result>>
  BY DEF FreshEpisode, Searching
<1>3. PICK etag \in search.asked :
        LET t == [etag |-> etag, text |-> texts[e].text]
        IN /\ Found(e, t) /\ run' = [run EXCEPT !.memory = Remember(e, t)]
           /\ table' = SavedRow(table, e, t) \/ table' = table
  BY DEF FreshEpisode
<1> DEFINE t == [etag |-> etag, text |-> texts[e].text]
<1>4. /\ Found(e, t) /\ run' = [run EXCEPT !.memory = Remember(e, t)]
      /\ table' = table \/ table' = SavedRow(table, e, t)
  BY <1>3
<1>5. e \in Chapters /\ run.toc[e] \in Nat
  BY <1>1, <1>2, NextIsAChapter
<1>6. etag \in Nat /\ run.toc[e] <= etag /\ etag <= texts[e].etag
  BY <1>1 DEF AskedFirst, AssistantTypes, Searches
<1>7. /\ texts[e].etag \in Nat /\ texts[e].text \in Text /\ texts[e].text.etag \in Nat
      /\ texts[e].etag <= texts[e].text.etag /\ TextRow(e, texts[e]) \in Held
  BY <1>5, RowsAndFiles
<1>8. t \in Labels /\ t.etag = etag /\ t.text = texts[e].text
  BY <1>6, <1>7 DEF Labels
<1>9. t.etag <= t.text.etag /\ t.text.etag >= run.toc[e]
  BY <1>5, <1>6, <1>7, <1>8
<1>10. \E q \in Held : q.episode = e /\ q.text = t.text
  <2>1. TextRow(e, texts[e]).episode = e /\ TextRow(e, texts[e]).text = t.text
    BY <1>8 DEF TextRow
  <2> QED
    BY <1>7, <2>1
<1> HIDE DEF t
<1> QED
  BY <1>2, <1>4, <1>8, <1>9, <1>10, FoundKeeps
-----------------------------------------------------------------------------
\* An episode is asked for, or left out.
LEMMA SearchGoesOn ==
  ASSUME AssistantInv, NEW next \in Nat, NEW asked \in SUBSET Nat,
         search' = [search EXCEPT !.next = next, !.asked = asked], search.on,
         search.next <= next,
         \A a \in asked : next <= search.to /\ run.toc[next] <= a /\ a <= texts[next].etag,
         UNCHANGED <<texts, saving, edits, table, opening, opened, run, told, result>>
  PROVE  AssistantInv'
<1> USE DEF AssistantInv
<1>1. search \in Searches
  BY DEF AssistantTypes
<1>2. /\ search'.next = next /\ search'.on /\ search'.to = search.to
      /\ search'.found = search.found /\ search'.rows = search.rows /\ search'.asked = asked
  BY <1>1 DEF Searches
<1>3. search' \in Searches
  <2>1. next \in Nat \ {0}
    BY <1>1 DEF Searches
  <2>2. [search EXCEPT !.next = next] \in Searches
    BY <1>1, <2>1 DEF Searches
  <2>3. search' = [[search EXCEPT !.next = next] EXCEPT !.asked = asked]
    BY <1>1 DEF Searches
  <2> QED
    BY <2>2, <2>3 DEF Searches
<1>4. AssistantTypes'
  BY <1>3 DEF AssistantTypes
<1>5. SearchHolds'
  <2>1. search.next \in Nat /\ \A c \in search.found : c.episode \in Nat
    BY <1>1 DEF Searches, TextRows, Chapters
  <2>2. \A c \in search.found : c.episode < next
    BY <2>1 DEF SearchHolds
  <2> QED
    BY <2>2, <1>2 DEF SearchHolds
<1>6. AskedFirst'
  BY <1>2 DEF AskedFirst
<1>7. HeldFits'
  <2>1. Held' \subseteq Held
    BY <1>2 DEF Held, InLibrary, InTheWay, InTheRun
  <2> QED
    BY <2>1, HeldBefore
<1>8. ToldByTheRun'
  BY <1>2 DEF ToldByTheRun
<1>9. Current'
  BY DEF Current, SearchIsCurrent
<1>10. Shown'
  BY DEF Shown, BoundaryKept, PassageFitsItsHit
<1> QED
  BY <1>4, <1>5, <1>6, <1>7, <1>8, <1>9, <1>10

LEMMA AskEpisodeKeeps == AssistantInv /\ AskEpisode => AssistantInv'
<1> SUFFICES ASSUME AssistantInv, AskEpisode PROVE AssistantInv'
  OBVIOUS
<1> DEFINE e == search.next
<1>1. AssistantTypes /\ SearchHolds /\ Current
  BY DEF AssistantInv
<1>2. /\ search.on /\ e <= search.to /\ search' = [search EXCEPT !.asked = {texts[e].etag}]
      /\ UNCHANGED <<texts, saving, edits, table, opening, opened, run, told, result>>
  BY DEF AskEpisode, Searching
<1>3. e \in Chapters /\ e \in DOMAIN run.toc /\ run.toc[e] \in Nat /\ run.phase = "asking"
  BY <1>1, <1>2, NextIsAChapter
<1>4. texts[e].etag \in Nat /\ run.toc[e] <= texts[e].etag
  BY <1>1, <1>3, RowsAndFiles DEF Current
<1>5. search \in Searches /\ e \in Nat
  BY <1>1 DEF AssistantTypes, Searches
<1>6. search' = [search EXCEPT !.next = e, !.asked = {texts[e].etag}]
  BY <1>2, <1>5 DEF Searches
<1> DEFINE asked == {texts[e].etag}
<1>7. /\ asked \in SUBSET Nat /\ e <= e
      /\ \A a \in asked : e <= search.to /\ run.toc[e] <= a /\ a <= texts[e].etag
  BY <1>2, <1>4, <1>5
<1>8. search' = [search EXCEPT !.next = e, !.asked = asked]
  BY <1>6
<1> HIDE DEF asked
<1> QED
  BY <1>2, <1>5, <1>7, <1>8, SearchGoesOn

LEMMA SkipEpisodeKeeps == AssistantInv /\ SkipEpisode => AssistantInv'
<1> SUFFICES ASSUME AssistantInv, SkipEpisode PROVE AssistantInv'
  OBVIOUS
<1> DEFINE next == search.next + 1
           asked == {}
<1>1. /\ search' = [search EXCEPT !.next = next, !.asked = asked] /\ search.on
      /\ UNCHANGED <<texts, saving, edits, table, opening, opened, run, told, result>>
  <2>1. search' = [search EXCEPT !.next = @ + 1, !.asked = {}]
    BY DEF SkipEpisode
  <2> QED
    BY <2>1 DEF SkipEpisode, Searching
<1>2. search.next \in Nat
  BY DEF AssistantInv, AssistantTypes, Searches
<1>3. /\ next \in Nat /\ asked \in SUBSET Nat /\ search.next <= next
      /\ \A a \in asked : next <= search.to /\ run.toc[next] <= a /\ a <= texts[next].etag
  BY <1>2
<1> HIDE DEF next, asked
<1> QED
  BY <1>1, <1>3, SearchGoesOn

LEMMA EndSearchKeeps == AssistantInv /\ EndSearch => AssistantInv'
<1> SUFFICES ASSUME AssistantInv, EndSearch PROVE AssistantInv'
  OBVIOUS
<1> DEFINE number == Selected(search.found, search.max)
           matches == {[id |-> HitID(number[c]), episode |-> c.episode, etag |-> c.etag,
                        text |-> c.text] : c \in DOMAIN number}
           ids == {m.id : m \in matches}
           hits == [h \in ids \cup DOMAIN run.hits |->
                      IF h \in ids THEN CHOOSE m \in matches : m.id = h ELSE run.hits[h]]
<1>0. AssistantTypes /\ SearchHolds /\ AskedFirst /\ HeldFits /\ ToldByTheRun /\ Current /\ Shown
  BY DEF AssistantInv
<1>1. run \in Runs /\ search \in Searches /\ told \in SUBSET Matches
  BY <1>0 DEF AssistantTypes
<1>2. /\ search.on /\ run' = [run EXCEPT !.hits = hits] /\ told' = told \cup matches
      /\ result' = {Told(m.id, m.episode, m.text) : m \in matches} /\ search' = NoSearch
      /\ UNCHANGED <<texts, saving, edits, table, opening, opened, runs, mishaps>>
  BY <1>1 DEF EndSearch, Runs
<1>3. /\ DOMAIN number \subseteq search.found
      /\ \A c \in DOMAIN number : number[c] \in Nat
      /\ \A c, d \in DOMAIN number : number[c] = number[d] => c = d
  <2>1. search.found \in SUBSET TextRows /\ search.max \in Nat
    BY <1>1 DEF Searches
  <2>2. \A c \in search.found : c.text.place # "none"
    BY <1>0 DEF SearchHolds
  <2>3. \A c, d \in search.found : c.episode = d.episode => c = d
    BY <1>0 DEF SearchHolds
  <2> HIDE DEF number
  <2> QED
    BY <2>1, <2>2, <2>3, NumbersDiffer DEF number
<1>4. run.ordinal \in Nat /\ run.boundary \in Nat
  BY <1>1 DEF Runs, Chapters
<1> HIDE DEF number
\* What a match is.
<1>5. \A m \in matches : \E c \in search.found :
        /\ c \in DOMAIN number /\ m.id = <<run.ordinal, number[c]>>
        /\ m.episode = c.episode /\ m.etag = c.etag /\ m.text = c.text
  BY <1>3 DEF HitID
<1>6. matches \in SUBSET Matches
  <2> SUFFICES ASSUME NEW c \in DOMAIN number
               PROVE  [id |-> HitID(number[c]), episode |-> c.episode, etag |-> c.etag,
                       text |-> c.text] \in Matches
    OBVIOUS
  <2>1. c \in TextRows
    BY <1>1, <1>3 DEF Searches
  <2>2. HitID(number[c]) \in Nat \X Nat
    BY <1>3, <1>4 DEF HitID
  <2> QED
    BY <2>1, <2>2 DEF TextRows, Matches
<1>7. \A m, n \in matches : m.id = n.id => m = n
  <2> SUFFICES ASSUME NEW c \in DOMAIN number, NEW d \in DOMAIN number,
                      HitID(number[c]) = HitID(number[d])
               PROVE  c = d
    OBVIOUS
  <2>1. number[c] = number[d]
    BY DEF HitID
  <2> QED
    BY <2>1, <1>3
<1>8. \A m \in matches : /\ m.id[1] = run.ordinal /\ m.episode \in DOMAIN run.memory
                         /\ m.episode <= run.boundary /\ m.text.etag >= run.toc[m.episode]
                         /\ TextRow(m.episode, m) \in Held
  <2> SUFFICES ASSUME NEW m \in matches
               PROVE  /\ m.id[1] = run.ordinal /\ m.episode \in DOMAIN run.memory
                      /\ m.episode <= run.boundary /\ m.text.etag >= run.toc[m.episode]
                      /\ TextRow(m.episode, m) \in Held
    OBVIOUS
  <2>1. PICK c \in search.found :
          /\ m.id = <<run.ordinal, number[c]>>
          /\ m.episode = c.episode /\ m.etag = c.etag /\ m.text = c.text
    BY <1>5
  <2> HIDE DEF matches
  <2>2. m.id[1] = run.ordinal
    BY <2>1
  <2>3. /\ c.episode \in DOMAIN run.memory /\ c.text.etag >= run.toc[c.episode]
        /\ c.episode <= search.to /\ search.to <= run.boundary
    BY <1>0, <1>2 DEF SearchHolds
  <2>4. c.episode \in Nat /\ search.to \in Nat
    BY <1>1 DEF Searches, TextRows, Chapters
  <2>5. c.episode <= run.boundary
    BY <2>3, <2>4, <1>4
  <2>6. TextRow(m.episode, m) = c /\ c \in Held
    BY <2>1, <1>1 DEF Searches, TextRow, TextRows, Held
  <2> QED
    BY <2>1, <2>2, <2>3, <2>5, <2>6
<1> HIDE DEF matches
<1>9. /\ ids \in SUBSET (Nat \X Nat)
      /\ \A h \in ids : hits[h] \in matches /\ hits[h].id = h
      /\ \A h \in DOMAIN run.hits \ ids : hits[h] = run.hits[h]
      /\ DOMAIN hits = ids \cup DOMAIN run.hits
  BY <1>6 DEF Matches
<1>10. hits \in Registries
  <2>1. PICK H \in SUBSET (Nat \X Nat) : run.hits \in [H -> Matches]
    BY <1>1 DEF Runs, Registries
  <2>2. \A h \in ids \cup H : hits[h] \in Matches
    BY <1>6, <1>9, <2>1
  <2>3. hits \in [ids \cup H -> Matches]
    BY <2>1, <2>2
  <2>4. ids \cup H \in SUBSET (Nat \X Nat)
    BY <1>9
  <2> HIDE DEF ids, hits
  <2> QED
    BY <2>3, <2>4 DEF Registries
<1> HIDE DEF ids, hits
<1>11. run' \in Runs
  BY <1>1, <1>2, <1>10 DEF Runs
<1>12. /\ run'.phase = run.phase /\ run'.boundary = run.boundary /\ run'.toc = run.toc
       /\ run'.memory = run.memory /\ run'.hits = hits /\ run'.ordinal = run.ordinal
  BY <1>1, <1>2 DEF Runs
<1>13. ~ search'.on /\ search'.found = {} /\ search'.rows = {} /\ search'.asked = {}
  BY <1>2 DEF NoSearch
<1>14. AssistantTypes'
  BY <1>0, <1>2, <1>6, <1>11, NoRunIsARun DEF AssistantTypes
<1>15. SearchHolds' /\ AskedFirst'
  BY <1>0, <1>2, <1>13 DEF SearchHolds, AskedFirst
<1>16. HeldFits'
  <2>1. ASSUME NEW m \in told' PROVE TextRow(m.episode, m) \in Held
    <3>1. m \in told \/ m \in matches
      BY <1>2
    <3>2. m \in told => TextRow(m.episode, m) \in Held
      BY DEF Held, InTheRun
    <3> QED
      BY <3>1, <3>2, <1>8
  <2>2. InTheRun' \subseteq Held
    <3>1. InTheRun' = {TextRow(e, run.memory[e]) : e \in DOMAIN run.memory}
                      \cup {TextRow(m.episode, m) : m \in told'}
      BY <1>12 DEF InTheRun
    <3>2. {TextRow(e, run.memory[e]) : e \in DOMAIN run.memory} \subseteq Held
      BY DEF Held, InTheRun
    <3> QED
      BY <3>1, <3>2, <2>1
  <2>3. InLibrary' = InLibrary /\ InTheWay' = InTheWay
    BY <1>2 DEF InLibrary, InTheWay
  <2>4. Held' \subseteq Held
    BY <1>2, <1>13, <2>2, <2>3 DEF Held
  <2> QED
    BY <1>0, <1>2, <2>4, HeldBefore
<1>17. ToldByTheRun'
  <2>1. \A m \in told : m.id[1] < run.ordinal /\ m.id[1] \in Nat
    BY <1>0, <1>1, <1>2 DEF ToldByTheRun, Matches
  <2>2. \A m \in told, n \in matches : m.id # n.id
    BY <2>1, <1>4, <1>8
  <2>3. \A m, n \in told \cup matches : m.id = n.id => m = n
    BY <2>2, <1>0, <1>7 DEF ToldByTheRun
  <2>4. \A m \in told \cup matches : m.id[1] <= run.ordinal /\ m.episode \in DOMAIN run.memory
    BY <2>1, <1>0, <1>4, <1>8 DEF ToldByTheRun
  <2>5. \A h \in DOMAIN hits : hits[h] \in told \cup matches /\ hits[h].id = h
    BY <1>0, <1>9 DEF ToldByTheRun
  <2>6. run.phase = "asking"
    BY <1>0, <1>2 DEF SearchHolds
  <2> QED
    BY <2>3, <2>4, <2>5, <2>6, <1>2, <1>12, <1>13 DEF ToldByTheRun
<1>18. Current'
  BY <1>0, <1>2, <1>8, <1>12 DEF Current, SearchIsCurrent
<1>19. Shown'
  <2>1. ASSUME NEW r \in result'
        PROVE  /\ r.episode <= run.boundary
               /\ \E m \in told' : m.id = r.id
               /\ \A m \in told' : m.id = r.id =>
                    m.episode = r.episode /\ r.text.etag >= m.etag /\ m.text = r.text
    <3>1. PICK n \in matches : r = Told(n.id, n.episode, n.text)
      BY <1>2
    <3>2. r.id = n.id /\ r.episode = n.episode /\ r.text = n.text
      BY <3>1 DEF Told
    <3>3. /\ n \in told' /\ n \in Matches /\ n.episode <= run.boundary
          /\ TextRow(n.episode, n) \in Held
      BY <1>2, <1>6, <1>8
    <3>4. n.etag <= n.text.etag /\ n.etag \in Nat /\ n.text.etag \in Nat
      BY <3>3, <1>0 DEF HeldFits, TextRow, Matches, Text
    <3>5. \A m \in told' : m.id = n.id => m = n
      BY <3>3, <1>17 DEF ToldByTheRun
    <3> QED
      BY <3>2, <3>3, <3>4, <3>5
  <2> QED
    BY <2>1, <1>12 DEF Shown, BoundaryKept, PassageFitsItsHit
<1> QED
  BY <1>14, <1>15, <1>16, <1>17, <1>18, <1>19 DEF AssistantInv

\* A hit whose episode is remembered under its ETag has a passage that fits.
LEMMA PassageFits ==
  ASSUME AssistantInv, NEW h \in told, SameText(h, run.memory[h.episode])
  PROVE  FitsAHit(Passage(h))
<1> DEFINE p == run.memory[h.episode]
           q == TextRow(h.episode, h)
           r == TextRow(h.episode, p)
<1>1. AssistantTypes /\ HeldFits /\ ToldByTheRun
  BY DEF AssistantInv
<1>2. h \in Matches /\ h.episode \in DOMAIN run.memory
  BY <1>1 DEF AssistantTypes, ToldByTheRun
<1>3. p \in Labels
  BY <1>1, <1>2 DEF AssistantTypes, Runs, Memories
<1>4. /\ h.etag \in Nat /\ h.text.etag \in Nat /\ p.etag \in Nat /\ p.text.etag \in Nat
      /\ h.etag = p.etag
  BY <1>2, <1>3 DEF Matches, Labels, Text, SameText
<1>5. q \in Held /\ r \in Held
  BY <1>2 DEF Held, InTheRun
<1>6. /\ q.episode = h.episode /\ q.etag = h.etag /\ q.text = h.text
      /\ r.episode = h.episode /\ r.etag = p.etag /\ r.text = p.text
  BY DEF TextRow
<1> HIDE DEF q, r
<1>7. /\ h.etag <= h.text.etag /\ p.etag <= p.text.etag
      /\ h.text.etag = p.text.etag => h.text = p.text
  BY <1>1, <1>5, <1>6 DEF HeldFits
<1>8. p.text.etag >= h.etag /\ (h.text # p.text => h.text.etag > h.etag \/ p.text.etag > h.etag)
  BY <1>4, <1>7
<1>9. /\ Passage(h).id = h.id /\ Passage(h).episode = h.episode /\ Passage(h).text = p.text
  BY DEF Passage, Told
<1>10. \A m \in told : m.id = h.id => m = h
  BY <1>1 DEF ToldByTheRun
<1> HIDE DEF p
<1> QED
  BY <1>8, <1>9, <1>10 DEF FitsAHit

LEMMA LoadPassagesKeeps == AssistantInv /\ LoadPassages => AssistantInv'
<1> SUFFICES ASSUME AssistantInv, LoadPassages PROVE AssistantInv'
  OBVIOUS
<1>0. AssistantTypes /\ ToldByTheRun
  BY DEF AssistantInv
<1>1. PICK ids \in SUBSET DOMAIN run.hits :
        LET hits == {run.hits[h] : h \in ids} IN
        Answers(IF \A h \in hits : Visible(h.episode) /\ SameText(h, run.memory[h.episode])
                THEN {Passage(h) : h \in hits} ELSE {})
  BY DEF LoadPassages
<1> DEFINE hits == {run.hits[h] : h \in ids}
           usable == \A h \in hits : Visible(h.episode) /\ SameText(h, run.memory[h.episode])
           passages == {Passage(h) : h \in hits}
<1>2. CASE usable
  <2>1. ASSUME NEW h \in hits
        PROVE  Passage(h).episode <= run.boundary /\ FitsAHit(Passage(h))
    <3>1. h \in told
      BY <1>0 DEF ToldByTheRun
    <3>2. h.episode \in Chapters
      BY <3>1, <1>0 DEF AssistantTypes, Matches
    <3>3. Visible(h.episode) /\ SameText(h, run.memory[h.episode])
      BY <1>2
    <3>4. h.episode <= run.boundary
      BY <3>2, <3>3, <1>0, Numbers
    <3>5. Passage(h).episode = h.episode
      BY DEF Passage, Told
    <3> QED
      BY <3>1, <3>3, <3>4, <3>5, PassageFits
  <2>2. \A r \in passages : r.episode <= run.boundary /\ FitsAHit(r)
    BY <2>1
  <2>3. Answers(passages)
    BY <1>1, <1>2
  <2> HIDE DEF passages
  <2> QED
    BY <2>2, <2>3, AnswersKeeps
<1>3. CASE ~ usable
  <2>1. Answers({})
    BY <1>1, <1>3
  <2> QED
    BY <2>1, AnswersKeeps
<1> QED
  BY <1>2, <1>3

LEMMA EndRunKeeps == AssistantInv /\ EndRun => AssistantInv'
<1> SUFFICES ASSUME AssistantInv, EndRun PROVE AssistantInv'
  OBVIOUS
<1> USE DEF AssistantInv
<1>0. /\ run' = NoRun /\ search' = NoSearch /\ told' = {} /\ result' = {}
      /\ UNCHANGED <<texts, saving, edits, table, opening, opened, runs, mishaps>>
  BY DEF EndRun
<1>1. AssistantTypes'
  BY <1>0, NoRunIsARun DEF AssistantTypes
<1>2. SearchHolds' /\ AskedFirst'
  BY <1>0 DEF SearchHolds, AskedFirst, NoSearch
<1>3. HeldFits'
  <2>1. Held' \subseteq Held
    BY <1>0 DEF Held, InLibrary, InTheWay, InTheRun, NoRun, NoSearch
  <2> QED
    BY <1>0, <2>1, HeldBefore
<1>4. ToldByTheRun'
  BY <1>0 DEF ToldByTheRun, NoRun
<1>5. Current'
  BY <1>0 DEF Current, SearchIsCurrent, NoRun
<1>6. Shown'
  BY <1>0 DEF Shown, BoundaryKept, PassageFitsItsHit
<1> QED
  BY <1>1, <1>2, <1>3, <1>4, <1>5, <1>6 DEF AssistantInv

LEMMA AssistantStutters == AssistantInv /\ UNCHANGED assistant => AssistantInv'
<1> SUFFICES ASSUME AssistantInv, UNCHANGED assistant PROVE AssistantInv'
  OBVIOUS
<1>1. UNCHANGED <<texts, saving, edits, table, opening, opened, run, search, told, result>>
  BY DEF assistant
<1>2. /\ \A o \in opening' : o \in opening
      /\ \A r \in table' \cup opened' : r \in table \cup opened
  BY <1>1
<1> QED
  BY <1>1, <1>2, CacheKeeps

\* Every step of saves, readers, cache and assistant keeps the invariant.
LEMMA AssistantNextInv == AssistantInv /\ [AssistantNext]_assistant => AssistantInv'
  BY SaveBodyKeeps, SaveRowKeeps, SaveStopsKeeps, OpenEpisodeKeeps, OpenBodyKeeps,
     WriteThroughKeeps, RebuildCacheKeeps, RespondKeeps, ToolsKeep, BeginSearchKeeps,
     SearchEpisodeKeeps, AskEpisodeKeeps, FreshEpisodeKeeps, SkipEpisodeKeeps, EndSearchKeeps,
     LoadPassagesKeeps, EndRunKeeps, AssistantStutters DEF AssistantNext

\* A run and the texts it works with agree on what was found where.
LEMMA AssistantSafe == AssistantSpec => []AssistantInv
  BY AssistantInitInv, AssistantNextInv, PTL DEF AssistantSpec

\* No tool hands the model text after the boundary of the reader, for any
\* episodes, revisions, ranges and searches (readerAssistantEpisodeVisible).
THEOREM BoundaryStaysKept == AssistantSpec => []BoundaryKept
<1>1. AssistantInv => BoundaryKept
  BY DEF AssistantInv, Shown
<1> QED
  BY <1>1, AssistantSafe, PTL

\* A passage is of the episode of its hit and not older than the ETag of the hit,
\* and it is the very text in which the hit was found unless one of the two came
\* under the ETag of an earlier one; for any saves, failed saves, readers and
\* searches, and any order of the two requests that read an episode
\* (loadPassagesResult, GetEpisode).
THEOREM PassagesAreHits == AssistantSpec => []PassageFitsItsHit
<1>1. AssistantInv => PassageFitsItsHit
  BY DEF AssistantInv, Shown
<1> QED
  BY <1>1, AssistantSafe, PTL

\* A search tells no text older than the table of contents of its run, whatever
\* rows the cache had (readerAssistantEpisodeTextForSearch).
THEOREM SearchesAreCurrent == AssistantSpec => []SearchIsCurrent
<1>1. AssistantInv => SearchIsCurrent
  BY DEF AssistantInv, Current
<1> QED
  BY <1>1, AssistantSafe, PTL

(***************************************************************************)
(* The pauses between requests to a host.                                  *)
(***************************************************************************)

W == policy.WaitSteps

\* Place of a request among those between two long pauses, 1 to W.
PlaceOf(counter) == IF counter % W = 0 THEN W ELSE counter % W

LastSent == sent[Len(sent)]

\* The last k requests have gone out without a long pause between them.
InARow(k) ==
  /\ k \in 1..Len(sent)
  /\ \A i \in Len(sent) - k + 1..Len(sent) - 1 : sent[i + 1] - sent[i] < stepsWait

PoliteTypes ==
  /\ policy \in Policies /\ now \in Nat
  /\ host \in [counter: Nat, last: Nat, next: Nat]
  /\ fetch \in [phase: {"idle", "waiting", "retry", "sent"}, until: Nat, attempt: Nat]
  /\ sent \in Seq(Nat)

\* The clock, the reservation and the requests that went out.
InTime ==
  /\ host.next >= host.last
  /\ fetch.phase = "waiting" => now <= fetch.until /\ host.last = fetch.until
                                /\ host.next >= fetch.until + policy.Interval
                                /\ (W > 0 /\ host.counter % W = 0 => host.next >= fetch.until + stepsWait)
  /\ Len(sent) > 0 =>
       /\ LastSent <= host.last /\ LastSent <= now
       /\ host.next >= LastSent + policy.Interval
       /\ fetch.phase = "waiting" => fetch.until >= LastSent + policy.Interval

\* As many in a row as the counter says since the last long pause.
Counted ==
  /\ Len(sent) <= W + 1
  /\ \A i \in 1..Len(sent) - 1 : sent[i + 1] - sent[i] >= policy.Interval
  /\ W > 0 => \A k \in 1..Len(sent) : InARow(k) =>
       /\ k <= W
       /\ host.next < LastSent + stepsWait => host.counter % W >= k
       /\ fetch.phase = "waiting" /\ fetch.until < LastSent + stepsWait => PlaceOf(host.counter) > k

PoliteInv == PoliteTypes /\ InTime /\ Counted

-----------------------------------------------------------------------------
LEMMA Remainders ==
  ASSUME NEW c \in Nat, NEW w \in Nat \ {0}
  PROVE  /\ c % w \in 0..w - 1
         /\ (c + 1) % w = IF c % w = w - 1 THEN 0 ELSE (c % w) + 1
<1>1. c % w \in 0..w - 1
  OBVIOUS
<1>2. c \div w \in Nat
  OBVIOUS
<1>3. c % w = c - w * (c \div w)
  OBVIOUS
<1>4. \A q, r \in Nat : r < w => (w * q + r) % w = r
  OBVIOUS
<1>5. CASE c % w = w - 1
  <2>1. c + 1 = w * (c \div w + 1) + 0
    BY <1>1, <1>2, <1>3, <1>5
  <2>2. (w * (c \div w + 1) + 0) % w = 0
    BY <1>2, <1>4
  <2> QED
    BY <1>1, <1>5, <2>1, <2>2
<1>6. CASE c % w # w - 1
  <2>1. c + 1 = w * (c \div w) + ((c % w) + 1)
    BY <1>1, <1>2, <1>3
  <2>2. (c % w) + 1 \in Nat /\ (c % w) + 1 < w
    BY <1>1, <1>6
  <2>3. (w * (c \div w) + ((c % w) + 1)) % w = (c % w) + 1
    BY <1>2, <1>4, <2>2
  <2> QED
    BY <1>1, <1>6, <2>1, <2>3
<1> QED
  BY <1>5, <1>6

LEMMA PolicyNumbers ==
  ASSUME PoliteTypes
  PROVE  /\ W \in Nat /\ policy.Interval \in Nat \ {0} /\ stepsWait \in Nat
         /\ stepsWait >= policy.Interval
BY PoliteAssumption DEF PoliteTypes, W, stepsWait, Later

LEMMA PoliteInitInv == PoliteInit => PoliteInv
<1> SUFFICES ASSUME PoliteInit PROVE PoliteInv
  OBVIOUS
<1>1. PoliteTypes /\ Len(sent) = 0
  BY DEF PoliteInit, PoliteTypes, NoFetch
<1>2. W \in Nat
  BY <1>1, PolicyNumbers
<1> QED
  BY <1>1, <1>2 DEF PoliteInit, PoliteInv, InTime, Counted, NoFetch

\* The fetch goes on without a reservation.
LEMMA FetchGoesOn ==
  ASSUME PoliteInv, UNCHANGED <<policy, now, host, sent>>,
         fetch' \in [phase: {"idle", "waiting", "retry", "sent"}, until: Nat, attempt: Nat],
         fetch'.phase # "waiting"
  PROVE  PoliteInv'
<1>1. stepsWait' = stepsWait /\ W' = W /\ LastSent' = LastSent
  BY DEF stepsWait, W, LastSent
<1>2. \A k : InARow(k)' <=> InARow(k)
  BY <1>1 DEF InARow
<1> QED
  BY <1>1, <1>2 DEF PoliteInv, PoliteTypes, InTime, Counted

LEMMA TickStep == ASSUME PoliteInv, Tick PROVE PoliteInv'
<1>1. stepsWait' = stepsWait /\ W' = W /\ LastSent' = LastSent /\ UNCHANGED <<policy, host, fetch, sent>>
  BY DEF stepsWait, W, LastSent, Tick
<1>2. \A k : InARow(k)' <=> InARow(k)
  BY <1>1 DEF InARow
<1>3. now' = now + 1 /\ now \in Nat /\ (fetch.phase = "waiting" => now < fetch.until)
  BY DEF Tick, PoliteInv, PoliteTypes
<1>4. PoliteTypes'
  BY <1>1, <1>3 DEF PoliteInv, PoliteTypes
<1>5. Len(sent) > 0 => LastSent \in Nat
  BY DEF PoliteInv, PoliteTypes, LastSent
<1>6. InTime'
  BY <1>1, <1>3, <1>5 DEF PoliteInv, PoliteTypes, InTime
<1>7. Counted'
  BY <1>1, <1>2 DEF PoliteInv, Counted, PlaceOf
<1> QED
  BY <1>4, <1>6, <1>7 DEF PoliteInv

\* A reservation follows the one before it by what its counter asks for, and a
\* host that was left alone gives the long pause by itself.
LEMMA ReserveStep ==
  ASSUME PoliteInv, NEW attempt \in Nat, Reserve(attempt), UNCHANGED <<policy, now, sent>>
  PROVE  PoliteInv'
<1> DEFINE counter == (IF Rested THEN 0 ELSE host.counter) + 1
           allowedAt == Later(IF Rested THEN 0 ELSE host.next, now)
           delay == delayAfterRequest(counter)
<1>1. stepsWait' = stepsWait /\ W' = W /\ LastSent' = LastSent
  BY DEF stepsWait, W, LastSent
<1>2. \A k : InARow(k)' <=> InARow(k)
  BY <1>1 DEF InARow
<1>3. /\ host' = [counter |-> counter, last |-> allowedAt, next |-> allowedAt + delay]
      /\ fetch' = [phase |-> "waiting", until |-> allowedAt, attempt |-> attempt]
  BY DEF Reserve
<1>4. W \in Nat /\ policy.Interval \in Nat \ {0} /\ stepsWait \in Nat /\ stepsWait >= policy.Interval
  BY PolicyNumbers DEF PoliteInv
<1>5. host.counter \in Nat /\ host.last \in Nat /\ host.next \in Nat /\ now \in Nat
  BY DEF PoliteInv, PoliteTypes
<1>6. counter \in Nat /\ allowedAt \in Nat /\ allowedAt >= now /\ allowedAt >= host.next
  BY <1>5 DEF Later, Rested
<1>7. /\ delay \in Nat /\ delay >= policy.Interval
      /\ W > 0 /\ counter % W = 0 => delay = stepsWait
  BY <1>4 DEF delayAfterRequest, W
<1>8. Len(sent) > 0 => LastSent \in Nat
  BY DEF PoliteInv, PoliteTypes, LastSent
<1>9. Rested => (Len(sent) > 0 => allowedAt >= LastSent + stepsWait)
  BY <1>4, <1>5, <1>6, <1>8 DEF Rested, PoliteInv, InTime
<1>10. ~ Rested => counter = host.counter + 1
  OBVIOUS
<1> HIDE DEF counter, allowedAt, delay
<1>11. PoliteTypes'
  BY <1>3, <1>6, <1>7 DEF PoliteInv, PoliteTypes
<1>12. InTime'
  BY <1>1, <1>3, <1>4, <1>5, <1>6, <1>7, <1>8 DEF PoliteInv, InTime
<1>13. ASSUME W > 0, NEW k \in 1..Len(sent), InARow(k)
       PROVE  /\ allowedAt + delay < LastSent + stepsWait => counter % W >= k
              /\ allowedAt < LastSent + stepsWait => PlaceOf(counter) > k
  <2>1. LastSent \in Nat /\ LastSent <= allowedAt /\ Len(sent) > 0
    BY <1>5, <1>6, <1>8, <1>13 DEF PoliteInv, PoliteTypes, InTime
  <2>2. CASE allowedAt >= LastSent + stepsWait
    BY <1>4, <1>6, <1>7, <2>1, <2>2
  <2>3. CASE allowedAt < LastSent + stepsWait
    <3>1. counter = host.counter + 1
      BY <1>4, <1>6, <1>9, <1>10, <2>1, <2>3
    <3>2. host.next < LastSent + stepsWait
      BY <1>4, <1>5, <1>6, <2>1, <2>3
    <3>3. host.counter % W >= k
      BY <1>13, <3>2 DEF PoliteInv, Counted
    <3>4. /\ host.counter % W \in 0..W - 1
          /\ counter % W = IF host.counter % W = W - 1 THEN 0 ELSE (host.counter % W) + 1
      <4>1. W \in Nat \ {0}
        BY <1>4, <1>13
      <4> HIDE DEF counter
      <4> QED
        BY <1>5, <3>1, <4>1, Remainders
    <3>5. PlaceOf(counter) = (host.counter % W) + 1
      BY <1>4, <3>4 DEF PlaceOf
    <3>6. allowedAt + delay < LastSent + stepsWait => counter % W # 0
      BY <1>4, <1>6, <1>7, <1>13, <2>1
    <3> QED
      BY <1>4, <3>3, <3>4, <3>5, <3>6
  <2> QED
    BY <1>4, <1>6, <2>1, <2>2, <2>3
<1>14. Counted'
  BY <1>1, <1>2, <1>3, <1>13 DEF PoliteInv, Counted, PlaceOf
<1> QED
  BY <1>11, <1>12, <1>14 DEF PoliteInv

\* The latest requests, with the one that goes out now.
LEMMA SentNow ==
  ASSUME PoliteInv, Send
  PROVE  \E d \in {0, 1} :
           /\ sent' \in Seq(Nat) /\ Len(sent') = Len(sent) + 1 - d
           /\ d = 0 \/ Len(sent) = W + 1
           /\ d = 1 \/ Len(sent) <= W
           /\ \A i \in 1..Len(sent') - 1 : sent'[i] = sent[i + d]
           /\ sent'[Len(sent')] = now
<1> DEFINE all == Append(sent, now)
<1>1. sent \in Seq(Nat) /\ now \in Nat /\ W \in Nat /\ Len(sent) <= W + 1
  BY PolicyNumbers DEF PoliteInv, PoliteTypes, Counted
<1>2. all \in Seq(Nat) /\ Len(all) = Len(sent) + 1
  BY <1>1
<1>3. /\ \A i \in 1..Len(sent) : all[i] = sent[i]
      /\ all[Len(sent) + 1] = now
  BY <1>1
<1>4. sent' = IF Len(all) > W + 1 THEN Tail(all) ELSE all
  BY DEF Send, W
<1>5. CASE Len(all) > W + 1
  <2>1. /\ Tail(all) \in Seq(Nat) /\ Len(Tail(all)) = Len(all) - 1
        /\ \A i \in 1..Len(all) - 1 : Tail(all)[i] = all[i + 1]
    <3>1. all # <<>>
      BY <1>1, <1>2
    <3> HIDE DEF all
    <3> QED
      BY <1>2, <3>1, HeadTailProperties
  <2>2. sent' = Tail(all) /\ Len(sent) = W + 1
    BY <1>1, <1>2, <1>4, <1>5
  <2> HIDE DEF all
  <2>3. \A i \in 1..Len(sent') - 1 : sent'[i] = sent[i + 1]
    BY <1>1, <1>2, <1>3, <2>1, <2>2
  <2>4. sent'[Len(sent')] = now
    BY <1>1, <1>2, <1>3, <2>1, <2>2
  <2>5. sent' \in Seq(Nat) /\ Len(sent') = Len(sent) + 1 - 1
    BY <1>1, <1>2, <2>1, <2>2
  <2>6. 1 \in {0, 1}
    OBVIOUS
  <2> QED
    BY <2>2, <2>3, <2>4, <2>5, <2>6
<1>6. CASE ~ (Len(all) > W + 1)
  BY <1>1, <1>2, <1>3, <1>4, <1>6
<1> QED
  BY <1>5, <1>6

LEMMA SendStep == ASSUME PoliteInv, Send PROVE PoliteInv'
<1>1. stepsWait' = stepsWait /\ W' = W /\ UNCHANGED <<policy, now, host>>
  BY DEF stepsWait, W, Send
<1>2. fetch.phase = "waiting" /\ now >= fetch.until /\ fetch' = [fetch EXCEPT !.phase = "sent"]
  BY DEF Send
<1>3. W \in Nat /\ policy.Interval \in Nat \ {0} /\ stepsWait \in Nat /\ stepsWait >= policy.Interval
  BY PolicyNumbers DEF PoliteInv
<1>4. host.counter \in Nat /\ host.last \in Nat /\ host.next \in Nat /\ now \in Nat
      /\ fetch.until \in Nat /\ sent \in Seq(Nat) /\ Len(sent) \in Nat
  BY DEF PoliteInv, PoliteTypes
<1>5. now = fetch.until /\ host.last = now
  BY <1>2, <1>4 DEF PoliteInv, InTime
<1>6. PICK d \in {0, 1} :
        /\ sent' \in Seq(Nat) /\ Len(sent') = Len(sent) + 1 - d
        /\ d = 0 \/ Len(sent) = W + 1
        /\ d = 1 \/ Len(sent) <= W
        /\ \A i \in 1..Len(sent') - 1 : sent'[i] = sent[i + d]
        /\ sent'[Len(sent')] = now
  BY SentNow
<1>7. Len(sent') > 0 /\ LastSent' = now
  BY <1>3, <1>4, <1>6 DEF LastSent
<1>8. PoliteTypes'
  BY <1>1, <1>2, <1>6 DEF PoliteInv, PoliteTypes
<1>9. InTime'
  BY <1>1, <1>2, <1>3, <1>4, <1>5, <1>7 DEF PoliteInv, PoliteTypes, InTime
\* The gap before the new request.
<1>10. Len(sent) > 0 => LastSent \in Nat /\ now - LastSent >= policy.Interval
  BY <1>2, <1>3, <1>4, <1>5 DEF PoliteInv, InTime, LastSent
<1>11. ASSUME NEW i \in 1..Len(sent') - 1
       PROVE  /\ i + d \in 1..Len(sent)
              /\ sent'[i + 1] - sent'[i] =
                   IF i + d = Len(sent) THEN now - LastSent ELSE sent[i + d + 1] - sent[i + d]
  <2>1. i + d \in 1..Len(sent) /\ sent'[i] = sent[i + d]
    BY <1>4, <1>6
  <2>2. CASE i + d = Len(sent)
    BY <1>4, <1>6, <2>1, <2>2 DEF LastSent
  <2>3. CASE i + d # Len(sent)
    <3>1. i + 1 \in 1..Len(sent') - 1 /\ (i + 1) + d = i + d + 1
      BY <1>4, <1>6, <2>1, <2>3
    <3> QED
      BY <1>6, <2>1, <2>3, <3>1
  <2> QED
    BY <2>1, <2>2, <2>3
<1>12. ASSUME NEW i \in 1..Len(sent') - 1 PROVE sent'[i + 1] - sent'[i] >= policy.Interval
  <2>1. CASE i + d = Len(sent)
    BY <1>4, <1>10, <1>11, <2>1
  <2>2. CASE i + d # Len(sent)
    BY <1>4, <1>11, <2>2 DEF PoliteInv, Counted
  <2> QED
    BY <2>1, <2>2
<1>13. W > 0 => host.counter % W \in 0..W - 1
  BY <1>3, <1>4
<1>14. W > 0 /\ host.counter % W = 0 => host.next >= now + stepsWait
  BY <1>2, <1>5 DEF PoliteInv, InTime
<1>15. ASSUME W > 0, NEW k \in 1..Len(sent'), InARow(k)'
       PROVE  k <= W /\ (host.next < now + stepsWait => host.counter % W >= k)
  <2>1. CASE k = 1
    BY <1>3, <1>4, <1>13, <1>14, <1>15, <2>1
  <2>2. CASE k > 1
    <3>1. k - 1 \in 1..Len(sent)
      BY <1>4, <1>6, <2>2
    <3>2. InARow(k - 1)
      <4> SUFFICES ASSUME NEW j \in Len(sent) - (k - 1) + 1..Len(sent) - 1
                   PROVE  sent[j + 1] - sent[j] < stepsWait
        BY <3>1 DEF InARow
      <4>1. PICK i \in 1..Len(sent') - 1 : i + d = j /\ i \in Len(sent') - k + 1..Len(sent') - 1
        <5>1. /\ j - d \in 1..Len(sent') - 1 /\ (j - d) + d = j
              /\ j - d \in Len(sent') - k + 1..Len(sent') - 1
          BY <1>4, <1>6, <2>2, <3>1
        <5> QED
          BY <5>1
      <4>2. sent'[i + 1] - sent'[i] < stepsWait
        BY <1>1, <1>15, <4>1 DEF InARow
      <4>3. j # Len(sent)
        BY <1>4
      <4> QED
        BY <1>11, <4>1, <4>2, <4>3
    <3>3. now - LastSent < stepsWait
      <4>1. /\ Len(sent') - 1 \in Len(sent') - k + 1..Len(sent') - 1
            /\ Len(sent') - 1 \in 1..Len(sent') - 1
            /\ (Len(sent') - 1) + d = Len(sent)
        BY <1>4, <1>6, <2>2, <3>1
      <4>2. sent'[(Len(sent') - 1) + 1] - sent'[Len(sent') - 1] < stepsWait
        BY <1>1, <1>15, <4>1 DEF InARow
      <4> QED
        BY <1>4, <1>11, <4>1, <4>2
    <3>4. PlaceOf(host.counter) > k - 1
      BY <1>2, <1>3, <1>4, <1>5, <1>10, <1>15, <3>1, <3>2, <3>3 DEF PoliteInv, Counted
    <3> QED
      BY <1>3, <1>4, <1>13, <1>14, <1>15, <3>4 DEF PlaceOf
  <2> QED
    BY <2>1, <2>2
<1>16. Counted'
  <2>1. Len(sent') <= W' + 1
    BY <1>1, <1>3, <1>4, <1>6 DEF PoliteInv, Counted
  <2>2. fetch'.phase # "waiting"
    BY <1>2 DEF PoliteInv, PoliteTypes
  <2> QED
    BY <1>1, <1>7, <1>12, <1>15, <2>1, <2>2 DEF Counted
<1> QED
  BY <1>8, <1>9, <1>16 DEF PoliteInv

LEMMA PoliteNextInv == PoliteInv /\ [PoliteNext]_polite => PoliteInv'
<1> SUFFICES ASSUME PoliteInv, [PoliteNext]_polite PROVE PoliteInv'
  OBVIOUS
<1>1. CASE BeginFetch
  BY <1>1, ReserveStep DEF BeginFetch
<1>2. CASE Retry
  BY <1>2, ReserveStep DEF Retry, PoliteInv, PoliteTypes
<1>3. CASE Settled \/ RequestFails \/ GiveUpWaiting
  <2>1. /\ fetch' \in [phase: {"idle", "waiting", "retry", "sent"}, until: Nat, attempt: Nat]
        /\ fetch'.phase # "waiting" /\ UNCHANGED <<policy, now, host, sent>>
    <3>1. CASE Settled \/ GiveUpWaiting
      BY <3>1 DEF Settled, GiveUpWaiting, NoFetch
    <3>2. CASE RequestFails
      <4>1. now + policy.RetryWait \in Nat
        BY PoliteAssumption DEF PoliteInv, PoliteTypes
      <4> QED
        BY <3>2, <4>1 DEF RequestFails, NoFetch, PoliteInv, PoliteTypes
    <3> QED
      BY <1>3, <3>1, <3>2
  <2> QED
    BY <2>1, FetchGoesOn
<1>4. CASE UNCHANGED polite
  <2>1. stepsWait' = stepsWait /\ W' = W /\ LastSent' = LastSent
    BY <1>4 DEF stepsWait, W, LastSent, polite
  <2>2. \A k : InARow(k)' <=> InARow(k)
    BY <1>4, <2>1 DEF InARow, polite
  <2> QED
    BY <1>4, <2>1, <2>2 DEF polite, PoliteInv, PoliteTypes, InTime, Counted, PlaceOf
<1> QED
  BY <1>1, <1>2, <1>3, <1>4, TickStep, SendStep DEF PoliteNext

\* Requests to a host keep the interval, and the long pause after WaitSteps of
\* them, for any policies, pauses and failures (reserve and delayAfterRequest).
THEOREM GapsStayKept == PoliteSpec => []GapsAreKept
<1>1. PoliteInv => GapsAreKept
  <2> SUFFICES ASSUME PoliteInv PROVE GapsAreKept
    OBVIOUS
  <2>1. Len(sent) \in Nat /\ W \in Nat /\ stepsWait \in Nat
        /\ \A i \in 1..Len(sent) : sent[i] \in Nat
    BY PolicyNumbers DEF PoliteInv, PoliteTypes
  <2>2. ASSUME W > 0, Len(sent) > W PROVE \E i \in 1..Len(sent) - 1 : sent[i + 1] - sent[i] >= stepsWait
    <3>1. ~ InARow(Len(sent))
      BY <2>1, <2>2 DEF PoliteInv, Counted
    <3> QED
      BY <2>1, <2>2, <3>1 DEF InARow
  <2> QED
    BY <2>2 DEF GapsAreKept, PoliteInv, Counted, W
<1> QED
  BY <1>1, PoliteInitInv, PoliteNextInv, PTL DEF PoliteSpec

(***************************************************************************)
(* The shelf of publications.                                              *)
(***************************************************************************)

\* The cover is the one that was chosen, and its entry is there.
CoverInv ==
  /\ shelf.cover \in {NoId, chosen}
  /\ shelf.cover = NoId \/ \E x \in shelf.entries : x.id = shelf.cover

\* A library begins with a cover that is one of its entries.
LEMMA CoverInitInv == PublicationsInit => CoverInv
BY FilesAssumption DEF PublicationsInit, CoverInv, NoId

LEMMA AskKeepsCover ==
  ASSUME CoverInv, NEW e, NEW r, Ask(e, r)
  PROVE  CoverInv'
BY DEF Ask, CoverInv

LEMMA CoverNextInv == CoverInv /\ [PublicationsNext]_publications => CoverInv'
<1> SUFFICES ASSUME CoverInv, [PublicationsNext]_publications PROVE CoverInv'
  OBVIOUS
<1>1. ASSUME NEW e \in Editors, NEW kind \in BookKinds, NEW isbn \in ISBNs, CreateEntry(e, kind, isbn)
      PROVE  CoverInv'
  BY <1>1, AskKeepsCover DEF CreateEntry
<1>2. ASSUME NEW e \in Editors, NEW x \in shelf.entries,
             \/ HideEntry(e, x) \/ ShowEntry(e, x) \/ RemoveEntry(e, x) \/ SetDisplayCover(e, x)
             \/ \E isbn \in ISBNs : PutISBN(e, x, isbn)
      PROVE  CoverInv'
  BY <1>2, AskKeepsCover DEF HideEntry, ShowEntry, RemoveEntry, SetDisplayCover, PutISBN
<1>3. ASSUME NEW e \in Editors, PutEntry(e) PROVE CoverInv'
  BY <1>3 DEF PutEntry, Saves, ChosenAmong, NormalizeCover, CanCover, CoverInv
<1>4. ASSUME NEW e \in Editors, DeleteEntry(e) PROVE CoverInv'
  BY <1>4 DEF DeleteEntry, Saves, CoverAfterDelete, ChosenAmong, CoverInv
<1>5. ASSUME NEW e \in Editors, PutDisplayCover(e) \/ ClearDisplayCover(e) PROVE CoverInv'
  BY <1>5 DEF PutDisplayCover, ClearDisplayCover, Saves, ChosenAmong, NormalizeCover, CanCover,
              CoverInv
<1>6. ASSUME NEW e \in Editors,
             NextEntryID(e) \/ DropRequest(e) \/ \E image \in BOOLEAN : LookUp(e, image)
      PROVE  CoverInv'
  BY <1>6 DEF NextEntryID, DropRequest, LookUp, CoverInv
<1>7. CASE PruneNovel
  BY <1>7 DEF PruneNovel, EmptyShelf, CoverInv
<1>8. CASE UNCHANGED publications
  BY <1>8 DEF publications, CoverInv
<1> QED
  BY <1>1, <1>2, <1>3, <1>4, <1>5, <1>6, <1>7, <1>8 DEF PublicationsNext

\* The cover that is shown is the one the user chose last, for any requests in
\* flight and any entries on file (SelectCover, DeleteEntry and CreateEntry).
THEOREM CoverStaysChosen == PublicationsSpec => []CoverWasChosen
<1>1. CoverInv => CoverWasChosen
  BY DEF CoverInv, CoverWasChosen, ShownCover, NormalizeCover
<1> QED
  BY <1>1, CoverInitInv, CoverNextInv, PTL DEF PublicationsSpec

-----------------------------------------------------------------------------
\* What a request does with the entries of its book: it writes over the only
\* one there is; a request that is still naming its entry found none.
Overwrites(r, y) ==
  CASE r.stage = "lookup" -> y.id = r.id
    [] r.stage = "write" -> y.id = r.entry.id
    [] OTHER -> FALSE

\* A request that has a book to itself.
AloneWith(e, k, i) ==
  /\ \A d \in Editors : BookOf(editing[d]) = <<k, i>> => d = e
  /\ \A y \in shelf.entries : y.kind = k /\ y.isbn = i => Overwrites(editing[e], y)

ShelfInv ==
  /\ editing = [d \in Editors |-> editing[d]]
  /\ TwinsNeedARace
  /\ \A e \in Editors : \A k, i :
       i # "" /\ BookOf(editing[e]) = <<k, i>> /\ <<k, i>> \notin raced => AloneWith(e, k, i)

LEMMA BookNames ==
  /\ \A k, i : <<k, i>> # <<>>
  /\ \A k, i, l, j : <<k, i>> = <<l, j>> <=> k = l /\ i = j
OBVIOUS

LEMMA IdleIsAboutNone == BookOf(Idle) = <<>>
BY DEF BookOf, Idle

LEMMA ShelfInitInv == PublicationsInit => ShelfInv
<1> SUFFICES ASSUME PublicationsInit PROVE ShelfInv
  OBVIOUS
<1>1. editing = [d \in Editors |-> editing[d]] /\ \A d \in Editors : BookOf(editing[d]) = <<>>
  BY IdleIsAboutNone DEF PublicationsInit
<1>2. TwinsNeedARace
  BY FilesAssumption DEF PublicationsInit, TwinsNeedARace
<1> QED
  BY <1>1, <1>2, BookNames DEF ShelfInv

LEMMA AskKeepsShelf ==
  ASSUME ShelfInv, NEW e \in Editors, NEW r, Ask(e, r),
         \A y \in shelf.entries :
           y.isbn # "" /\ BookOf(r) = <<y.kind, y.isbn>> /\ <<y.kind, y.isbn>> \notin raced =>
             Overwrites(r, y)
  PROVE  ShelfInv'
<1>1. /\ shelf' = shelf /\ raced \subseteq raced'
      /\ editing' = [editing EXCEPT ![e] = r]
      /\ \A d \in Editors : BookOf(editing[d]) = BookOf(r) => BookOf(r) \in raced'
  BY DEF Ask
<1>2. editing'[e] = r /\ \A d \in Editors \ {e} : editing'[d] = editing[d]
  BY <1>1 DEF ShelfInv
<1>3. editing' = [d \in Editors |-> editing'[d]]
  BY <1>1 DEF ShelfInv
<1>4. TwinsNeedARace'
  BY <1>1 DEF ShelfInv, TwinsNeedARace
<1>5. ASSUME NEW f \in Editors, NEW k, NEW i, i # "", BookOf(editing'[f]) = <<k, i>>,
             <<k, i>> \notin raced'
      PROVE  AloneWith(f, k, i)'
  <2>1. <<k, i>> \notin raced
    BY <1>1, <1>5
  <2>2. CASE f = e
    <3>1. ASSUME NEW d \in Editors, BookOf(editing'[d]) = <<k, i>> PROVE d = f
      BY <1>1, <1>2, <1>5, <2>2, <3>1
    <3>2. ASSUME NEW y \in shelf'.entries, y.kind = k, y.isbn = i PROVE Overwrites(editing'[f], y)
      BY <1>1, <1>2, <1>5, <2>1, <2>2, <3>2
    <3> QED
      BY <3>1, <3>2 DEF AloneWith, BookOf, Overwrites
  <2>3. CASE f # e
    <3>1. AloneWith(f, k, i)
      BY <1>2, <1>5, <2>1, <2>3 DEF ShelfInv
    <3>2. BookOf(r) # <<k, i>>
      BY <1>1, <1>2, <1>5, <2>3
    <3> QED
      BY <1>1, <1>2, <2>3, <3>1, <3>2 DEF AloneWith, BookOf, Overwrites
  <2> QED
    BY <2>2, <2>3
<1> QED
  BY <1>3, <1>4, <1>5 DEF ShelfInv, BookOf

\* A request goes on with its book.
LEMMA RequestGoesOn ==
  ASSUME ShelfInv, NEW e \in Editors, NEW r, UNCHANGED <<shelf, raced>>,
         editing' = [editing EXCEPT ![e] = r], BookOf(r) = BookOf(editing[e]),
         \A y \in shelf.entries : Overwrites(editing[e], y) => Overwrites(r, y)
  PROVE  ShelfInv'
<1>1. editing'[e] = r /\ \A d \in Editors \ {e} : editing'[d] = editing[d]
  BY DEF ShelfInv
<1>2. editing' = [d \in Editors |-> editing'[d]]
  BY DEF ShelfInv
<1>3. TwinsNeedARace'
  BY DEF ShelfInv, TwinsNeedARace
<1>4. \A d \in Editors : BookOf(editing'[d]) = BookOf(editing[d])
  BY <1>1
<1>5. ASSUME NEW f \in Editors, NEW k, NEW i, i # "", BookOf(editing'[f]) = <<k, i>>,
             <<k, i>> \notin raced'
      PROVE  AloneWith(f, k, i)'
  <2>1. AloneWith(f, k, i)
    BY <1>4, <1>5 DEF ShelfInv
  <2>2. \A y \in shelf.entries : Overwrites(editing[f], y) => Overwrites(editing'[f], y)
    BY <1>1
  <2>3. \A d \in Editors : BookOf(editing'[d]) = <<k, i>> => d = f
    BY <1>4, <2>1 DEF AloneWith
  <2>4. \A y \in shelf'.entries : y.kind = k /\ y.isbn = i => Overwrites(editing'[f], y)
    BY <2>1, <2>2 DEF AloneWith
  <2> QED
    BY <2>3, <2>4 DEF AloneWith, BookOf, Overwrites
<1> QED
  BY <1>2, <1>3, <1>5 DEF ShelfInv, BookOf

\* Requests end, entries go.
LEMMA RequestsEnd ==
  ASSUME ShelfInv, shelf'.entries \subseteq shelf.entries, raced' = raced,
         editing' = [d \in Editors |-> editing'[d]],
         \A d \in Editors : editing'[d] \in {editing[d], Idle}
  PROVE  ShelfInv'
<1>1. TwinsNeedARace'
  BY DEF ShelfInv, TwinsNeedARace
<1>2. BookOf(Idle) = <<>>
  BY IdleIsAboutNone
<1>3. ASSUME NEW f \in Editors, NEW k, NEW i, i # "", BookOf(editing'[f]) = <<k, i>>,
             <<k, i>> \notin raced'
      PROVE  AloneWith(f, k, i)'
  <2>1. editing'[f] = editing[f]
    <3>1. BookOf(editing'[f]) = <<k, i>>
      BY <1>3
    <3> QED
      BY <1>2, <3>1
  <2>2. AloneWith(f, k, i)
    BY <1>3, <2>1 DEF ShelfInv
  <2>3. \A d \in Editors : BookOf(editing'[d]) = <<k, i>> => d = f
    BY <1>2, <2>2 DEF AloneWith
  <2>4. \A y \in shelf'.entries : y.kind = k /\ y.isbn = i => Overwrites(editing'[f], y)
    BY <2>1, <2>2 DEF AloneWith
  <2> QED
    BY <2>3, <2>4 DEF AloneWith, BookOf, Overwrites
<1> QED
  BY <1>1, <1>3 DEF ShelfInv, BookOf

\* The entry a request writes is the only one of its book, if it was alone.
LEMMA WriteKeepsShelf ==
  ASSUME ShelfInv, NEW e \in Editors, PutEntry(e)
  PROVE  ShelfInv'
<1> DEFINE r == editing[e]
           new == editing[e].entry
<1>1. /\ r.stage = "write"
      /\ shelf'.entries = {x \in shelf.entries : x.id \notin {new.id, r.deleting}} \cup {new}
      /\ editing' = [editing EXCEPT ![e] = Idle] /\ raced' = raced
  BY DEF PutEntry, Saves
<1>2. BookOf(r) = <<new.kind, new.isbn>>
  BY <1>1 DEF BookOf
<1>3. BookOf(Idle) = <<>>
  BY IdleIsAboutNone
<1>4. editing'[e] = Idle /\ \A d \in Editors \ {e} : editing'[d] = editing[d]
  BY <1>1 DEF ShelfInv
<1>5. editing' = [d \in Editors |-> editing'[d]]
  BY <1>1 DEF ShelfInv
<1>6. ASSUME NEW y \in shelf.entries, y.id # new.id, new.isbn # "",
             y.kind = new.kind, y.isbn = new.isbn
      PROVE  <<new.kind, new.isbn>> \in raced
  <2>1. SUFFICES ASSUME <<new.kind, new.isbn>> \notin raced PROVE FALSE
    OBVIOUS
  <2>2. AloneWith(e, new.kind, new.isbn)
    BY <1>2, <1>6, <2>1 DEF ShelfInv
  <2> QED
    BY <1>1, <1>6, <2>2 DEF AloneWith, Overwrites
<1>7. TwinsNeedARace'
  <2> SUFFICES ASSUME NEW x \in shelf'.entries, NEW y \in shelf'.entries,
                      x # y, x.isbn # "", x.isbn = y.isbn, x.kind = y.kind
               PROVE  <<x.kind, x.isbn>> \in raced'
    BY DEF TwinsNeedARace
  <2>1. CASE x \in shelf.entries /\ y \in shelf.entries
    BY <1>1, <2>1 DEF ShelfInv, TwinsNeedARace
  <2>2. CASE x = new \/ y = new
    BY <1>1, <1>6, <2>2
  <2> QED
    BY <1>1, <2>1, <2>2
<1>8. ASSUME NEW f \in Editors, NEW k, NEW i, i # "", BookOf(editing'[f]) = <<k, i>>,
             <<k, i>> \notin raced'
      PROVE  AloneWith(f, k, i)'
  <2>1. f # e /\ editing'[f] = editing[f]
    BY <1>3, <1>4, <1>8, BookNames, ZenonT(60)
  <2>2. AloneWith(f, k, i)
    BY <1>1, <1>8, <2>1 DEF ShelfInv
  <2>3. BookOf(r) # <<k, i>>
    BY <2>1, <2>2 DEF AloneWith
  <2>4. \A d \in Editors : BookOf(editing'[d]) = <<k, i>> => d = f
    BY <1>3, <1>4, <2>2 DEF AloneWith
  <2>5. \A y \in shelf'.entries : y.kind = k /\ y.isbn = i => Overwrites(editing'[f], y)
    BY <1>1, <1>2, <2>1, <2>2, <2>3 DEF AloneWith
  <2> QED
    BY <2>4, <2>5 DEF AloneWith, BookOf, Overwrites
<1> QED
  BY <1>5, <1>7, <1>8 DEF ShelfInv, BookOf

LEMMA ShelfNextInv == ShelfInv /\ [PublicationsNext]_publications => ShelfInv'
<1> SUFFICES ASSUME ShelfInv, [PublicationsNext]_publications PROVE ShelfInv'
  OBVIOUS
<1>1. ASSUME NEW e \in Editors, NEW kind \in BookKinds, NEW isbn \in ISBNs, CreateEntry(e, kind, isbn)
      PROVE  ShelfInv'
  <2>1. CASE Registered(kind, isbn) = {}
    <3> DEFINE r == [stage |-> "naming", kind |-> kind, isbn |-> isbn, at |-> asks + 1]
    <3>1. BookOf(r) = <<kind, isbn>>
      BY DEF BookOf
    <3>2. Ask(e, r)
      BY <1>1, <2>1 DEF CreateEntry
    <3>3. \A y \in shelf.entries : BookOf(r) # <<y.kind, y.isbn>>
      BY <2>1, <3>1 DEF Registered, SameBook
    <3> HIDE DEF r
    <3> QED
      BY <3>2, <3>3, AskKeepsShelf
  <2>2. CASE Registered(kind, isbn) # {}
    <3>1. PICK x \in Registered(kind, isbn) : Ask(e, Lookup(x.id, kind, isbn, NoId))
      BY <1>1, <2>2 DEF CreateEntry
    <3> DEFINE r == Lookup(x.id, kind, isbn, NoId)
    <3>2. /\ BookOf(r) = <<kind, isbn>>
          /\ \A y \in shelf.entries : Overwrites(r, y) <=> y.id = x.id
      BY DEF BookOf, Lookup, Overwrites
    <3>3. x \in shelf.entries /\ x.kind = kind /\ x.isbn = isbn
      BY DEF Registered, SameBook
    <3>4. Ask(e, r)
      BY <3>1
    <3>5. ASSUME NEW y \in shelf.entries, y.isbn # "", BookOf(r) = <<y.kind, y.isbn>>,
                 <<y.kind, y.isbn>> \notin raced
          PROVE  Overwrites(r, y)
      <4>1. y.kind = x.kind /\ y.isbn = x.isbn
        <5>1. BookOf(r) = <<y.kind, y.isbn>>
          BY <3>5
        <5> QED
          BY <3>2, <3>3, <5>1
      <4>2. y = x
        BY <3>3, <3>5, <4>1 DEF ShelfInv, TwinsNeedARace
      <4> QED
        BY <3>2, <4>2
    <3> HIDE DEF r
    <3> QED
      BY <3>4, <3>5, AskKeepsShelf
  <2> QED
    BY <2>1, <2>2
<1>2. ASSUME NEW e \in Editors, NEW x \in shelf.entries, HideEntry(e, x) \/ ShowEntry(e, x)
      PROVE  ShelfInv'
  <2>1. PICK new : /\ new.id = x.id /\ new.kind = x.kind /\ new.isbn = x.isbn
                   /\ Ask(e, Rewrite(new))
    <3> DEFINE hidden == [x EXCEPT !.status = "disabled"]
               shown == [x EXCEPT !.status = IF x.isbn # "" THEN "manual" ELSE "unknown"]
    <3>1. /\ hidden.id = x.id /\ hidden.kind = x.kind /\ hidden.isbn = x.isbn
          /\ shown.id = x.id /\ shown.kind = x.kind /\ shown.isbn = x.isbn
      OBVIOUS
    <3>2. Ask(e, Rewrite(hidden)) \/ Ask(e, Rewrite(shown))
      BY <1>2 DEF HideEntry, ShowEntry
    <3> HIDE DEF hidden, shown
    <3> QED
      BY <3>1, <3>2
  <2> DEFINE r == Rewrite(new)
  <2>2. /\ BookOf(r) = <<x.kind, x.isbn>>
        /\ \A y \in shelf.entries : Overwrites(r, y) <=> y.id = x.id
    BY <2>1 DEF BookOf, Rewrite, Overwrites
  <2>3. Ask(e, r)
    BY <2>1
  <2>4. ASSUME NEW y \in shelf.entries, y.isbn # "", BookOf(r) = <<y.kind, y.isbn>>,
               <<y.kind, y.isbn>> \notin raced
        PROVE  Overwrites(r, y)
    <3>1. y.kind = x.kind /\ y.isbn = x.isbn
      <4>1. BookOf(r) = <<y.kind, y.isbn>>
        BY <2>4
      <4> QED
        BY <2>2, <4>1
    <3>2. y = x
      BY <2>4, <3>1 DEF ShelfInv, TwinsNeedARace
    <3> QED
      BY <2>2, <3>2
  <2> HIDE DEF r
  <2> QED
    BY <2>3, <2>4, AskKeepsShelf
<1>3. ASSUME NEW e \in Editors, NEW x \in shelf.entries, RemoveEntry(e, x) \/ SetDisplayCover(e, x)
      PROVE  ShelfInv'
  <2>1. PICK stage \in {"delete", "cover"} : Ask(e, [stage |-> stage, id |-> x.id])
    BY <1>3 DEF RemoveEntry, SetDisplayCover
  <2>2. \A k, i : BookOf([stage |-> stage, id |-> x.id]) # <<k, i>>
    BY <2>1 DEF BookOf
  <2> QED
    BY <2>1, <2>2, AskKeepsShelf
<1>4. ASSUME NEW e \in Editors, NEW x \in shelf.entries, NEW isbn \in ISBNs, PutISBN(e, x, isbn)
      PROVE  ShelfInv'
  <2>1. PICK z, deleting :
          /\ z \in shelf.entries
          /\ Ask(e, Lookup(z.id, x.kind, isbn, deleting))
          /\ \/ z \in Registered(x.kind, isbn)
             \/ z = x /\ Registered(x.kind, isbn) \subseteq {x}
    <3>1. CASE Registered(x.kind, isbn) \ {x} = {}
      BY <1>4, <3>1 DEF PutISBN
    <3>2. CASE Registered(x.kind, isbn) \ {x} # {}
      BY <1>4, <3>2 DEF PutISBN, Registered, SameBook
    <3> QED
      BY <3>1, <3>2
  <2> DEFINE r == Lookup(z.id, x.kind, isbn, deleting)
  <2>2. /\ BookOf(r) = <<x.kind, isbn>>
        /\ \A y \in shelf.entries : Overwrites(r, y) <=> y.id = z.id
    BY DEF BookOf, Lookup, Overwrites
  <2>3. Ask(e, r)
    BY <2>1
  <2>4. ASSUME NEW y \in shelf.entries, y.isbn # "", BookOf(r) = <<y.kind, y.isbn>>,
               <<y.kind, y.isbn>> \notin raced
        PROVE  Overwrites(r, y)
    <3>1. y \in Registered(x.kind, isbn)
      <4>1. BookOf(r) = <<y.kind, y.isbn>>
        BY <2>4
      <4> QED
        BY <2>2, <4>1 DEF Registered, SameBook
    <3>2. z \in Registered(x.kind, isbn) => y = z
      BY <2>2, <2>4, <3>1 DEF ShelfInv, TwinsNeedARace, Registered, SameBook
    <3> QED
      BY <2>1, <2>2, <3>1, <3>2
  <2> HIDE DEF r
  <2> QED
    BY <2>3, <2>4, AskKeepsShelf
<1>5. ASSUME NEW e \in Editors, NextEntryID(e) PROVE ShelfInv'
  <2>1. /\ editing[e].stage = "naming" /\ UNCHANGED <<shelf, raced>>
        /\ \E id : editing' = [editing EXCEPT ![e] = Lookup(id, editing[e].kind, editing[e].isbn, NoId)]
    BY <1>5 DEF NextEntryID
  <2>2. PICK id : editing' = [editing EXCEPT ![e] = Lookup(id, editing[e].kind, editing[e].isbn, NoId)]
    BY <2>1
  <2> DEFINE r == Lookup(id, editing[e].kind, editing[e].isbn, NoId)
  <2>3. BookOf(r) = BookOf(editing[e])
    BY <2>1 DEF BookOf, Lookup
  <2>4. \A y \in shelf.entries : ~ Overwrites(editing[e], y)
    BY <2>1 DEF Overwrites
  <2> HIDE DEF r
  <2> QED
    BY <2>1, <2>2, <2>3, <2>4, RequestGoesOn DEF r
<1>6. ASSUME NEW e \in Editors, NEW image \in BOOLEAN, LookUp(e, image) PROVE ShelfInv'
  <2> DEFINE q == editing[e]
             new == [id |-> q.id, kind |-> q.kind, isbn |-> q.isbn, status |-> "manual", image |-> image]
             r == [stage |-> "write", deleting |-> q.deleting, entry |-> new]
  <2>1. q.stage = "lookup" /\ UNCHANGED <<shelf, raced>> /\ editing' = [editing EXCEPT ![e] = r]
    BY <1>6 DEF LookUp
  <2>2. BookOf(r) = BookOf(q)
    BY <2>1 DEF BookOf
  <2>3. \A y \in shelf.entries : Overwrites(q, y) => Overwrites(r, y)
    BY <2>1 DEF Overwrites
  <2> HIDE DEF r
  <2> QED
    BY <2>1, <2>2, <2>3, RequestGoesOn
<1>7. ASSUME NEW e \in Editors, PutEntry(e) PROVE ShelfInv'
  BY <1>7, WriteKeepsShelf
<1>8. ASSUME NEW e \in Editors,
             DeleteEntry(e) \/ DropRequest(e) \/ PutDisplayCover(e) \/ ClearDisplayCover(e)
      PROVE  ShelfInv'
  <2>1. shelf'.entries \subseteq shelf.entries /\ raced' = raced
        /\ editing' = [editing EXCEPT ![e] = Idle]
    BY <1>8 DEF DeleteEntry, DropRequest, PutDisplayCover, ClearDisplayCover, Saves
  <2> QED
    BY <2>1, RequestsEnd DEF ShelfInv
<1>9. CASE PruneNovel
  BY <1>9, RequestsEnd DEF PruneNovel, EmptyShelf, ShelfInv
<1>10. CASE UNCHANGED publications
  BY <1>10, RequestsEnd DEF publications, ShelfInv
<1> QED
  BY <1>1, <1>2, <1>3, <1>4, <1>5, <1>6, <1>7, <1>8, <1>9, <1>10 DEF PublicationsNext

\* Two entries of one kind have the same ISBN only where two requests were about
\* it at one time (CreateEntry).
THEOREM BooksAreOnce == PublicationsSpec => []TwinsNeedARace
<1>1. ShelfInv => TwinsNeedARace
  BY DEF ShelfInv
<1> QED
  BY <1>1, ShelfInitInv, ShelfNextInv, PTL DEF PublicationsSpec

(***************************************************************************)
(* Proofreading: a text to which accepted answers are applied says what    *)
(* it said, and what is served was made so from one version that is not    *)
(* older than the ETag it is served under.                                 *)
(***************************************************************************)

(***************************************************************************)
(* The text of a proofreading.                                              *)
(***************************************************************************)

Cell == [kind : {"paragraph", "blank", "figure"}, section : Sections, sign : Signs]

\* Induction on the numbers up to a bound, of a set of them.
LEMMA UpTo ==
  ASSUME NEW m \in Nat, NEW Good, 0 \in Good, \A n \in 1..m : n - 1 \in Good => n \in Good
  PROVE  \A n \in 0..m : n \in Good
<1> DEFINE Bad == {n \in 0..m : n \notin Good}
           Less == {ss \in Nat \X Nat : ss[1] < ss[2]}
<1>1. SUFFICES ASSUME Bad # {} PROVE FALSE
  OBVIOUS
<1>2. IsWellFoundedOn(Less, Nat)
  BY NatLessThanWellFounded DEF OpToRel
<1>3. Bad \in SUBSET Nat
  OBVIOUS
<1>4. PICK x \in Bad : \A y \in Bad : ~ (<<y, x>> \in Less)
  <2> HIDE DEF Less, Bad
  <2> QED BY <1>1, <1>2, <1>3, WFMin
<1>5. x \in 1..m /\ x - 1 \in Nat /\ x - 1 \in 0..m /\ <<x - 1, x>> \in Less
  <2>1. x # 0
    OBVIOUS
  <2> QED BY <2>1
<1>6. x - 1 \in Good
  BY <1>4, <1>5
<1> QED BY <1>5, <1>6

\* The text of blocks grows block by block.
GrowsTo(f, blocks, m) ==
  f = [n \in 0..m |-> IF n = 0 THEN <<>> ELSE f[n - 1] \o Cells(blocks[n])]

\* What has grown to one block grows to the next.
LEMMA GrowsOn ==
  ASSUME NEW blocks, NEW m \in Nat \ {0}, NEW f, GrowsTo(f, blocks, m - 1)
  PROVE  \E g : GrowsTo(g, blocks, m)
<1> DEFINE g == [n \in 0..m |-> IF n = m THEN f[m - 1] \o Cells(blocks[m]) ELSE f[n]]
<1>1. ASSUME NEW n \in 0..m
      PROVE  g[n] = IF n = 0 THEN <<>> ELSE g[n - 1] \o Cells(blocks[n])
  <2>1. CASE n = m
    <3>1. g[n - 1] = f[m - 1] /\ n # 0 /\ g[n] = f[m - 1] \o Cells(blocks[m])
      BY <2>1
    <3> QED BY <2>1, <3>1
  <2>2. CASE n # m
    <3>1. n \in 0..(m - 1) /\ g[n] = f[n]
      BY <2>2
    <3>2. n # 0 => n - 1 \in 0..m /\ n - 1 # m /\ g[n - 1] = f[n - 1]
      BY <2>2
    <3>3. f[n] = IF n = 0 THEN <<>> ELSE f[n - 1] \o Cells(blocks[n])
      BY <3>1 DEF GrowsTo
    <3> QED BY <3>1, <3>2, <3>3
  <2> QED BY <2>1, <2>2
<1>2. g = [n \in 0..m |-> IF n = 0 THEN <<>> ELSE g[n - 1] \o Cells(blocks[n])]
  BY <1>1
<1>3. GrowsTo(g, blocks, m)
  <2> HIDE DEF g
  <2> QED BY <1>2 DEF GrowsTo
<1> QED BY <1>3

\* Some function grows to all the blocks, and ends with their text.
LEMMA TextGrows ==
  ASSUME NEW blocks, Len(blocks) \in Nat
  PROVE  \E f : GrowsTo(f, blocks, Len(blocks)) /\ TextOf(blocks) = f[Len(blocks)]
<1> DEFINE Good == {m \in 0..Len(blocks) : \E f : GrowsTo(f, blocks, m)}
<1>1. 0 \in Good
  <2>1. GrowsTo([n \in 0..0 |-> <<>>], blocks, 0)
    BY DEF GrowsTo
  <2> QED BY <2>1
<1>2. ASSUME NEW m \in 1..Len(blocks), m - 1 \in Good
      PROVE  m \in Good
  <2>1. m \in Nat \ {0} /\ m \in 0..Len(blocks)
    OBVIOUS
  <2>2. \E f : GrowsTo(f, blocks, m - 1)
    BY <1>2
  <2>3. \E f : GrowsTo(f, blocks, m)
    BY <2>1, <2>2, GrowsOn
  <2> QED BY <2>1, <2>3
<1>3. \A m \in 0..Len(blocks) : m \in Good
  <2> HIDE DEF Good
  <2> QED BY <1>1, <1>2, UpTo
<1>4. \E f : GrowsTo(f, blocks, Len(blocks))
  BY <1>3
<1> DEFINE c == CHOOSE f : GrowsTo(f, blocks, Len(blocks))
<1>5. GrowsTo(c, blocks, Len(blocks))
  BY <1>4
<1>6. TextOf(blocks) = c[Len(blocks)]
  BY DEF TextOf, GrowsTo
<1> QED BY <1>5, <1>6

\* The first blocks are enough for the text so far.
LEMMA GrowsAlike ==
  ASSUME NEW a, NEW b, Len(a) \in Nat, Len(b) \in Nat, Len(a) <= Len(b),
         \A i \in 1..Len(a) : a[i] = b[i],
         NEW f, NEW g, GrowsTo(f, a, Len(a)), GrowsTo(g, b, Len(b))
  PROVE  f[Len(a)] = g[Len(a)]
<1> DEFINE Good == {n \in 0..Len(a) : f[n] = g[n]}
<1>1. 0 \in Good
  BY DEF GrowsTo
<1>2. ASSUME NEW n \in 1..Len(a), n - 1 \in Good
      PROVE  n \in Good
  <2>1. n \in 0..Len(a) /\ n \in 0..Len(b) /\ n # 0
    OBVIOUS
  <2>2. f[n] = f[n - 1] \o Cells(a[n])
    BY <2>1 DEF GrowsTo
  <2>3. g[n] = g[n - 1] \o Cells(b[n])
    BY <2>1 DEF GrowsTo
  <2>4. f[n - 1] = g[n - 1] /\ a[n] = b[n]
    BY <1>2
  <2>5. f[n] = g[n]
    BY <2>2, <2>3, <2>4, Zenon
  <2> QED BY <2>1, <2>5
<1>3. \A n \in 0..Len(a) : n \in Good
  <2> HIDE DEF Good
  <2> QED BY <1>1, <1>2, UpTo
<1> QED BY <1>3

\* No blocks, no text.
LEMMA TextOfNone == TextOf(<<>>) = <<>>
<1>1. Len(<<>>) = 0
  OBVIOUS
<1>2. PICK f : GrowsTo(f, <<>>, 0) /\ TextOf(<<>>) = f[0]
  BY <1>1, TextGrows
<1> QED BY <1>1, <1>2 DEF GrowsTo

\* One block more, and its cells come last.
LEMMA TextOfMore ==
  ASSUME NEW S, NEW blocks \in Seq(S), NEW b
  PROVE  TextOf(Append(blocks, b)) = TextOf(blocks) \o Cells(b)
<1> DEFINE more == Append(blocks, b)
           m == Len(blocks)
<1>1. /\ m \in Nat /\ Len(more) = m + 1 /\ more[m + 1] = b
      /\ \A i \in 1..m : blocks[i] = more[i]
  OBVIOUS
<1> HIDE DEF more, m
<1>2. PICK f : GrowsTo(f, blocks, m) /\ TextOf(blocks) = f[m]
  BY <1>1, TextGrows DEF m
<1>3. PICK g : GrowsTo(g, more, m + 1) /\ TextOf(more) = g[m + 1]
  BY <1>1, TextGrows
<1>4. f[m] = g[m]
  BY <1>1, <1>2, <1>3, GrowsAlike DEF m
<1>5. g[m + 1] = g[m] \o Cells(more[m + 1])
  <2>1. m + 1 \in 0..(m + 1) /\ m + 1 # 0 /\ m + 1 - 1 = m
    BY <1>1
  <2>2. g[m + 1] = IF m + 1 = 0 THEN <<>> ELSE g[m + 1 - 1] \o Cells(more[m + 1])
    BY <1>3, <2>1 DEF GrowsTo
  <2> QED BY <2>1, <2>2
<1> QED BY <1>1, <1>2, <1>3, <1>4, <1>5 DEF more

\* A block has at least one cell.
LEMMA CellsOfABlock ==
  ASSUME NEW b \in Block
  PROVE  Cells(b) \in Seq(Cell) /\ Len(Cells(b)) = Len(b.text) /\ Len(b.text) \in Nat \ {0}
         /\ \A o \in 1..Len(b.text) : Cells(b)[o] = [kind |-> b.kind, section |-> b.section, sign |-> b.text[o]]
<1>1. b.text \in Seq(Signs) /\ b.text # <<>> /\ b.section \in Sections
      /\ b.kind \in {"paragraph", "blank", "figure"}
  BY DEF Block
<1>2. Len(b.text) \in Nat \ {0} /\ DOMAIN b.text = 1..Len(b.text)
  BY <1>1, EmptySeq, LenProperties
<1>3. Cells(b) = [o \in 1..Len(b.text) |-> [kind |-> b.kind, section |-> b.section, sign |-> b.text[o]]]
  BY <1>2 DEF Cells
<1>4. Cells(b) \in [1..Len(b.text) -> Cell]
  BY <1>1, <1>3 DEF Cell
<1>5. Cells(b) \in Seq(Cell) /\ Len(Cells(b)) = Len(b.text)
  BY <1>2, <1>4
<1> QED BY <1>2, <1>3, <1>5

\* Induction over blocks: what holds of none, and of one more, holds of all.
LEMMA BlockByBlock ==
  ASSUME NEW S, NEW Good, <<>> \in Good,
         \A blocks \in Seq(S) : \A b \in S : blocks \in Good => Append(blocks, b) \in Good
  PROVE  \A blocks \in Seq(S) : blocks \in Good
<1> SUFFICES ASSUME NEW blocks \in Seq(S) PROVE blocks \in Good
  OBVIOUS
<1> DEFINE First == {n \in 0..Len(blocks) : SubSeq(blocks, 1, n) \in Good}
<1>0. Len(blocks) \in Nat
  OBVIOUS
<1>1. 0 \in First
  <2>1. SubSeq(blocks, 1, 0) = <<>>
    BY SubSeqEmpty
  <2>2. 0 \in 0..Len(blocks)
    BY <1>0
  <2> QED BY <2>1, <2>2, Zenon
<1>2. ASSUME NEW n \in 1..Len(blocks), n - 1 \in First
      PROVE  n \in First
  <2>1. SubSeq(blocks, 1, n) = SubSeq(blocks, 1, n - 1) \o <<blocks[n]>>
    BY SubSeqRecursiveSecond
  <2>2. SubSeq(blocks, 1, n - 1) \in Seq(S) /\ blocks[n] \in S
    BY SubSeqProperties, ElementOfSeq
  <2>3. SubSeq(blocks, 1, n) = Append(SubSeq(blocks, 1, n - 1), blocks[n])
    BY <2>1, <2>2, AppendIsConcat
  <2>4. SubSeq(blocks, 1, n - 1) \in Good
    BY <1>2
  <2>5. SubSeq(blocks, 1, n) \in Good
    BY <2>2, <2>3, <2>4
  <2>6. n \in 0..Len(blocks)
    BY <1>0
  <2> QED BY <2>5, <2>6, Zenon
<1>3. \A n \in 0..Len(blocks) : n \in First
  <2> HIDE DEF First
  <2> QED BY <1>0, <1>1, <1>2, UpTo
<1>4. SubSeq(blocks, 1, Len(blocks)) \in Good
  BY <1>0, <1>3
<1> QED BY <1>4, SubSeqFull

\* The text of blocks is a sequence of cells.
LEMMA TextIsCells ==
  ASSUME NEW C \in SUBSET Block, NEW T, \A b \in C : Cells(b) \in Seq(T)
  PROVE  \A blocks \in Seq(C) : TextOf(blocks) \in Seq(T)
<1> DEFINE Good == {blocks \in Seq(C) : TextOf(blocks) \in Seq(T)}
<1>1. <<>> \in Good
  <2>1. <<>> \in Seq(C) /\ TextOf(<<>>) \in Seq(T)
    BY TextOfNone, EmptySeq
  <2> QED BY <2>1, Zenon
<1>2. ASSUME NEW blocks \in Seq(C), NEW b \in C, blocks \in Good
      PROVE  Append(blocks, b) \in Good
  <2>1. TextOf(Append(blocks, b)) = TextOf(blocks) \o Cells(b)
    BY TextOfMore
  <2>2. TextOf(blocks) \o Cells(b) \in Seq(T)
    BY <1>2, ConcatProperties
  <2>3. Append(blocks, b) \in Seq(C)
    BY AppendProperties
  <2> QED BY <2>1, <2>2, <2>3, Zenon
<1>3. \A blocks \in Seq(C) : blocks \in Good
  <2> HIDE DEF Good
  <2> QED BY <1>1, <1>2, BlockByBlock
<1> QED BY <1>3

\* The text of blocks is one of cells.
LEMMA TextTyped ==
  ASSUME NEW blocks \in Seq(Block)
  PROVE  TextOf(blocks) \in Seq(Cell) /\ Len(TextOf(blocks)) \in Nat
<1>1. \A b \in Block : Cells(b) \in Seq(Cell)
  BY CellsOfABlock
<1>2. TextOf(blocks) \in Seq(Cell)
  BY <1>1, TextIsCells
<1> QED BY <1>2

\* The text of two parts is that of the first and then of the second.
LEMMA TextOfParts ==
  ASSUME NEW a \in Seq(Block)
  PROVE  \A b \in Seq(Block) : TextOf(a \o b) = TextOf(a) \o TextOf(b)
<1> DEFINE Good == {b \in Seq(Block) : TextOf(a \o b) = TextOf(a) \o TextOf(b)}
<1>1. <<>> \in Good
  <2>1. a \o <<>> = a /\ TextOf(a) \o <<>> = TextOf(a)
    BY ConcatEmptySeq, TextTyped
  <2>2. <<>> \in Seq(Block)
    BY EmptySeq
  <2> QED BY <2>1, <2>2, TextOfNone, Zenon
<1>2. ASSUME NEW b \in Seq(Block), NEW e \in Block, b \in Good
      PROVE  Append(b, e) \in Good
  <2>1. a \o Append(b, e) = Append(a \o b, e) /\ a \o b \in Seq(Block) /\ Append(b, e) \in Seq(Block)
    <3>1. <<e>> \in Seq(Block) /\ Append(b, e) = b \o <<e>>
      BY AppendIsConcat
    <3>2. (a \o b) \o <<e>> = a \o (b \o <<e>>)
      BY <3>1, ConcatAssociative
    <3>3. a \o b \in Seq(Block)
      BY ConcatProperties
    <3>4. Append(a \o b, e) = (a \o b) \o <<e>>
      BY <3>3, AppendIsConcat
    <3> QED BY <3>1, <3>2, <3>3, <3>4
  <2>2. TextOf(a \o Append(b, e)) = TextOf(a \o b) \o Cells(e)
    BY <2>1, TextOfMore
  <2>3. TextOf(Append(b, e)) = TextOf(b) \o Cells(e)
    BY TextOfMore
  <2>4. (TextOf(a) \o TextOf(b)) \o Cells(e) = TextOf(a) \o (TextOf(b) \o Cells(e))
    BY TextTyped, CellsOfABlock, ConcatAssociative
  <2>5. TextOf(a \o b) = TextOf(a) \o TextOf(b)
    BY <1>2
  <2>6. TextOf(a \o Append(b, e)) = TextOf(a) \o TextOf(Append(b, e))
    BY <2>2, <2>3, <2>4, <2>5, Zenon
  <2> QED BY <2>1, <2>6, Zenon
<1>3. \A b \in Seq(Block) : b \in Good
  <2> HIDE DEF Good
  <2> QED BY <1>1, <1>2, BlockByBlock
<1> QED BY <1>3

\* Where there are blocks there is text.
LEMMA SomeText ==
  ASSUME NEW blocks \in Seq(Block), blocks # <<>>
  PROVE  Len(TextOf(blocks)) > 0
<1>1. PICK front \in Seq(Block), b \in Block : blocks = Append(front, b)
  BY SequenceEmptyOrAppend
<1>2. TextOf(blocks) = TextOf(front) \o Cells(b)
  BY <1>1, TextOfMore
<1>3. Len(TextOf(front) \o Cells(b)) = Len(TextOf(front)) + Len(Cells(b))
  <2>1. TextOf(front) \in Seq(Cell) /\ Cells(b) \in Seq(Cell)
    BY TextTyped, CellsOfABlock
  <2> QED BY <2>1, ConcatProperties
<1>4. Len(TextOf(front)) \in Nat /\ Len(Cells(b)) \in Nat \ {0}
  BY TextTyped, CellsOfABlock
<1> QED BY <1>2, <1>3, <1>4

-----------------------------------------------------------------------------
\* A sequence of two parts, cut where the second begins.
LEMMA CutBetween ==
  ASSUME NEW S, NEW a \in Seq(S), NEW b \in Seq(S)
  PROVE  /\ SubSeq(a \o b, 1, Len(a)) = a
         /\ SubSeq(a \o b, Len(a) + 1, Len(a \o b)) = b
<1>0. Len(a) \in Nat /\ Len(b) \in Nat /\ Len(a \o b) = Len(a) + Len(b) /\ a \o b \in Seq(S)
  BY ConcatProperties
<1>1. SubSeq(a \o b, 1, Len(a)) = a
  <2>1. CASE Len(a) = 0
    <3>1. a = <<>> /\ SubSeq(a \o b, 1, 0) = <<>>
      BY <2>1, EmptySeq, SubSeqEmpty
    <3> QED BY <2>1, <3>1
  <2>2. CASE Len(a) # 0
    <3>1. 1 \in 1..Len(a) /\ Len(a) \in 1..Len(a)
      BY <1>0, <2>2
    <3> QED BY <3>1, SubSeqOfConcat1, SubSeqFull
  <2> QED BY <2>1, <2>2
<1>2. SubSeq(a \o b, Len(a) + 1, Len(a) + Len(b)) = b
  <2>1. CASE Len(b) = 0
    <3>1. b = <<>> /\ SubSeq(a \o b, Len(a) + 1, Len(a) + Len(b)) = <<>>
      BY <1>0, <2>1, EmptySeq, SubSeqEmpty
    <3> QED BY <3>1
  <2>2. CASE Len(b) # 0
    <3>1. /\ Len(a) + 1 \in Len(a) + 1..Len(a) + Len(b) /\ Len(a) + Len(b) \in Len(a) + 1..Len(a) + Len(b)
          /\ Len(a) + 1 - Len(a) = 1 /\ Len(a) + Len(b) - Len(a) = Len(b)
      BY <1>0, <2>2
    <3>2. SubSeq(a \o b, Len(a) + 1, Len(a) + Len(b)) = SubSeq(b, Len(a) + 1 - Len(a), Len(a) + Len(b) - Len(a))
      BY <3>1, SubSeqOfConcat2
    <3> QED BY <3>1, <3>2, SubSeqFull
  <2> QED BY <2>1, <2>2
<1> QED BY <1>0, <1>1, <1>2

\* A sequence is what comes first and what comes then.
LEMMA CutAt ==
  ASSUME NEW S, NEW s \in Seq(S), NEW m \in Nat, NEW n \in Nat, m <= n, n <= Len(s)
  PROVE  /\ SubSeq(s, 1, m) \in Seq(S) /\ Len(SubSeq(s, 1, m)) = m
         /\ SubSeq(s, m + 1, n) \in Seq(S) /\ Len(SubSeq(s, m + 1, n)) = n - m
         /\ SubSeq(s, 1, n) = SubSeq(s, 1, m) \o SubSeq(s, m + 1, n)
<1>0. Len(s) \in Nat /\ \A i \in 1..Len(s) : s[i] \in S
  BY ElementOfSeq
<1>1. SubSeq(s, 1, m) \in Seq(S) /\ Len(SubSeq(s, 1, m)) = m
  <2>1. \A i \in 1..m : s[i] \in S
    BY <1>0
  <2>2. SubSeq(s, 1, m) \in Seq(S) /\ Len(SubSeq(s, 1, m)) = IF 1 <= m THEN m - 1 + 1 ELSE 0
    BY <2>1, SubSeqProperties
  <2> QED BY <2>2
<1>2. SubSeq(s, m + 1, n) \in Seq(S) /\ Len(SubSeq(s, m + 1, n)) = n - m
  <2>1. \A i \in m + 1..n : s[i] \in S
    BY <1>0
  <2>2. /\ SubSeq(s, m + 1, n) \in Seq(S)
        /\ Len(SubSeq(s, m + 1, n)) = IF m + 1 <= n THEN n - (m + 1) + 1 ELSE 0
    BY <2>1, SubSeqProperties
  <2> QED BY <2>2
<1>3. SubSeq(s, 1, n) = SubSeq(s, 1, m) \o SubSeq(s, m + 1, n)
  <2>1. 1 \in 1..Len(s) + 1 /\ m \in 1 - 1..Len(s) /\ n \in m..Len(s)
    BY <1>0
  <2> QED BY <2>1, ConcatAdjacentSubSeq
<1> QED BY <1>1, <1>2, <1>3

\* Places of the blocks of two parts.
LEMMA OffsetsOfParts ==
  ASSUME NEW a \in Seq(Block), NEW b \in Seq(Block)
  PROVE  /\ \A i \in 1..Len(a) : OffsetOf(a \o b, i) = OffsetOf(a, i)
         /\ \A i \in 1..Len(b) : OffsetOf(a \o b, Len(a) + i) = Len(TextOf(a)) + OffsetOf(b, i)
<1>0. Len(a) \in Nat /\ Len(b) \in Nat /\ a \o b \in Seq(Block) /\ Len(a \o b) = Len(a) + Len(b)
  BY ConcatProperties
<1>1. ASSUME NEW i \in 1..Len(a)
      PROVE  OffsetOf(a \o b, i) = OffsetOf(a, i)
  <2>1. SubSeq(a \o b, 1, i - 1) = SubSeq(a, 1, i - 1)
    <3>1. CASE i = 1
      <4>1. i - 1 = 0 /\ SubSeq(a \o b, 1, 0) = <<>> /\ SubSeq(a, 1, 0) = <<>>
        BY <3>1, SubSeqEmpty
      <4> QED BY <4>1
    <3>2. CASE i # 1
      <4>1. 1 \in 1..Len(a) /\ i - 1 \in 1..Len(a)
        BY <1>0, <3>2
      <4> QED BY <4>1, SubSeqOfConcat1
    <3> QED BY <3>1, <3>2
  <2> QED BY <2>1 DEF OffsetOf
<1>2. ASSUME NEW i \in 1..Len(b)
      PROVE  OffsetOf(a \o b, Len(a) + i) = Len(TextOf(a)) + OffsetOf(b, i)
  <2> DEFINE c == SubSeq(b, 1, i - 1)
             k == Len(a) + i - 1
  <2>1. c \in Seq(Block)
    BY <1>0, SubSeqProperties, ElementOfSeq
  <2>2. SubSeq(a \o b, 1, k) = a \o c
    <3>1. CASE i = 1
      <4>1. k = Len(a) /\ c = <<>>
        BY <1>0, <3>1, SubSeqEmpty
      <4>2. a \o c = a
        BY <4>1, ConcatEmptySeq
      <4>3. SubSeq(a \o b, 1, Len(a)) = a
        BY CutBetween
      <4> QED BY <4>1, <4>2, <4>3
    <3>2. CASE i # 1
      <4>1. /\ Len(a) + 1 \in Len(a) + 1..Len(a) + Len(b) /\ k \in Len(a) + 1..Len(a) + Len(b)
            /\ Len(a) + 1 - Len(a) = 1 /\ k - Len(a) = i - 1
        BY <1>0, <3>2
      <4>2. SubSeq(a \o b, Len(a) + 1, k) = c
        <5>1. SubSeq(a \o b, Len(a) + 1, k) = SubSeq(b, Len(a) + 1 - Len(a), k - Len(a))
          BY <4>1, SubSeqOfConcat2
        <5> QED BY <4>1, <5>1
      <4>3. SubSeq(a \o b, 1, Len(a)) = a
        BY CutBetween
      <4>4. SubSeq(a \o b, 1, k) = SubSeq(a \o b, 1, Len(a)) \o SubSeq(a \o b, Len(a) + 1, k)
        <5>1. /\ 1 \in 1..Len(a \o b) + 1 /\ Len(a) \in 1 - 1..Len(a \o b)
              /\ k \in Len(a)..Len(a \o b)
          BY <1>0, <3>2
        <5> QED BY <1>0, <5>1, ConcatAdjacentSubSeq
      <4> QED BY <4>2, <4>3, <4>4
    <3> QED BY <3>1, <3>2
  <2>3. TextOf(a \o c) = TextOf(a) \o TextOf(c)
    BY <2>1, TextOfParts
  <2>4. Len(TextOf(a) \o TextOf(c)) = Len(TextOf(a)) + Len(TextOf(c))
    BY <2>1, TextTyped, ConcatProperties
  <2>5. Len(a) + i - 1 = k
    OBVIOUS
  <2>6. OffsetOf(a \o b, Len(a) + i) = Len(TextOf(SubSeq(a \o b, 1, k)))
    BY <2>5 DEF OffsetOf
  <2>7. OffsetOf(b, i) = Len(TextOf(c))
    BY DEF OffsetOf
  <2> HIDE DEF c, k
  <2> QED BY <2>2, <2>3, <2>4, <2>6, <2>7
<1> QED BY <1>1, <1>2

\* The text does not end before the last block begins.
LEMMA OffsetsWithin ==
  ASSUME NEW blocks \in Seq(Block), NEW i \in 1..Len(blocks)
  PROVE  /\ OffsetOf(blocks, i) \in Nat /\ Len(TextOf(blocks)) \in Nat
         /\ OffsetOf(blocks, i) < Len(TextOf(blocks))
         /\ i = 1 => OffsetOf(blocks, i) = 0
         /\ i # 1 => OffsetOf(blocks, i) > 0
<1> DEFINE a == SubSeq(blocks, 1, i - 1)
           b == SubSeq(blocks, i, Len(blocks))
<1>0. Len(blocks) \in Nat
  OBVIOUS
<1>1. /\ a \in Seq(Block) /\ b \in Seq(Block)
      /\ Len(a) = i - 1 /\ Len(b) > 0
  <2>1. \A j \in 1..Len(blocks) : blocks[j] \in Block
    BY ElementOfSeq
  <2>2. \A j \in 1..(i - 1) : blocks[j] \in Block
    BY <1>0, <2>1
  <2>3. \A j \in i..Len(blocks) : blocks[j] \in Block
    BY <1>0, <2>1
  <2>4. a \in Seq(Block) /\ Len(a) = IF 1 <= i - 1 THEN i - 1 - 1 + 1 ELSE 0
    BY <2>2, SubSeqProperties
  <2>5. b \in Seq(Block) /\ Len(b) = IF i <= Len(blocks) THEN Len(blocks) - i + 1 ELSE 0
    BY <1>0, <2>3, SubSeqProperties
  <2> HIDE DEF a, b
  <2> QED BY <1>0, <2>4, <2>5
<1>2. blocks = a \o b
  <2>1. 1 \in 1..Len(blocks) + 1 /\ i - 1 \in 1 - 1..Len(blocks) /\ Len(blocks) \in i - 1..Len(blocks)
        /\ i - 1 + 1 = i
    BY <1>0
  <2>2. SubSeq(blocks, 1, i - 1) \o SubSeq(blocks, i - 1 + 1, Len(blocks)) = SubSeq(blocks, 1, Len(blocks))
    BY <2>1, ConcatAdjacentSubSeq
  <2> QED BY <2>1, <2>2, SubSeqFull
<1>3. OffsetOf(blocks, i) = Len(TextOf(a))
  BY DEF OffsetOf
<1> HIDE DEF a, b
<1>4. a = <<>> <=> i = 1
  BY <1>1, EmptySeq
<1>5. b # <<>>
  BY <1>1, EmptySeq
<1>6. Len(TextOf(a)) \in Nat /\ Len(TextOf(b)) \in Nat /\ Len(TextOf(b)) > 0
      /\ (i # 1 => Len(TextOf(a)) > 0) /\ (i = 1 => Len(TextOf(a)) = 0)
  <2>1. i = 1 => Len(TextOf(a)) = 0
    BY <1>4, TextOfNone, EmptySeq
  <2> QED BY <2>1, <1>1, <1>4, <1>5, SomeText, TextTyped
<1>7. Len(TextOf(blocks)) = Len(TextOf(a)) + Len(TextOf(b))
  <2>1. TextOf(blocks) = TextOf(a) \o TextOf(b)
    BY <1>1, <1>2, TextOfParts
  <2>2. Len(TextOf(a) \o TextOf(b)) = Len(TextOf(a)) + Len(TextOf(b))
    BY <1>1, TextTyped, ConcatProperties
  <2> QED BY <2>1, <2>2
<1> QED BY <1>3, <1>6, <1>7

\* Breaks and indents are within the text.
LEMMA LaidWithin ==
  ASSUME NEW blocks \in Seq(Block)
  PROVE  /\ Layout(blocks).text = TextOf(blocks)
         /\ \A o \in Layout(blocks).breaks : o \in Nat /\ o > 0 /\ o < Len(TextOf(blocks))
         /\ \A o \in Layout(blocks).indents : o \in Nat /\ o < Len(TextOf(blocks))
<1>1. DOMAIN blocks = 1..Len(blocks)
  BY LenProperties
<1> QED BY <1>1, OffsetsWithin DEF Layout

\* The layout of two parts: where both are there is a break between them.
LEMMA LayoutOfParts ==
  ASSUME NEW a \in Seq(Block), NEW b \in Seq(Block)
  PROVE  /\ Layout(a \o b).text = TextOf(a) \o TextOf(b)
         /\ \A o : o \in Layout(a \o b).breaks <=>
              \/ o \in Layout(a).breaks
              \/ a # <<>> /\ b # <<>> /\ o = Len(TextOf(a))
              \/ \E p \in Layout(b).breaks : o = Len(TextOf(a)) + p
         /\ \A o : o \in Layout(a \o b).indents <=>
              \/ o \in Layout(a).indents
              \/ \E p \in Layout(b).indents : o = Len(TextOf(a)) + p
<1> DEFINE c == a \o b
           l == Len(TextOf(a))
<1>0. /\ Len(a) \in Nat /\ Len(b) \in Nat /\ c \in Seq(Block) /\ Len(c) = Len(a) + Len(b)
      /\ l \in Nat
  BY ConcatProperties, TextTyped
<1>1. /\ DOMAIN c = 1..(Len(a) + Len(b)) /\ DOMAIN a = 1..Len(a) /\ DOMAIN b = 1..Len(b)
      /\ (a # <<>> <=> Len(a) > 0) /\ (b # <<>> <=> Len(b) > 0)
  BY <1>0, LenProperties, EmptySeq
<1>2. /\ \A i \in 1..Len(a) : OffsetOf(c, i) = OffsetOf(a, i)
      /\ \A i \in 1..Len(b) : OffsetOf(c, Len(a) + i) = l + OffsetOf(b, i)
  BY OffsetsOfParts
<1>3. /\ \A i \in 1..Len(a) : c[i] = a[i]
      /\ \A i \in 1..Len(b) : c[Len(a) + i] = b[i]
  <2>1. \A i \in 1..(Len(a) + Len(b)) : c[i] = IF i <= Len(a) THEN a[i] ELSE b[i - Len(a)]
    BY ConcatProperties
  <2> HIDE DEF c
  <2>2. ASSUME NEW i \in 1..Len(b) PROVE c[Len(a) + i] = b[i]
    <3>1. Len(a) + i \in 1..(Len(a) + Len(b)) /\ ~(Len(a) + i <= Len(a)) /\ Len(a) + i - Len(a) = i
      BY <1>0
    <3> QED BY <2>1, <3>1
  <2>3. ASSUME NEW i \in 1..Len(a) PROVE c[i] = a[i]
    <3>1. i \in 1..(Len(a) + Len(b)) /\ i <= Len(a)
      BY <1>0
    <3> QED BY <2>1, <3>1
  <2> QED BY <2>2, <2>3
<1>4. Layout(c).text = TextOf(a) \o TextOf(b)
  BY TextOfParts DEF Layout
<1>5. /\ \A x \in {a, b, c} : /\ Layout(x).breaks = {OffsetOf(x, i) : i \in DOMAIN x \ {1}}
                              /\ Layout(x).indents = {OffsetOf(x, i) : i \in {i \in DOMAIN x : x[i].indent}}
  BY DEF Layout
<1>6. Len(b) > 0 => OffsetOf(b, 1) = 0
  BY <1>0, OffsetsWithin
<1> HIDE DEF c, l
<1>7. ASSUME NEW o PROVE o \in Layout(c).breaks <=>
              \/ o \in Layout(a).breaks
              \/ a # <<>> /\ b # <<>> /\ o = l
              \/ \E p \in Layout(b).breaks : o = l + p
  <2>1. ASSUME o \in Layout(c).breaks
        PROVE  \/ o \in Layout(a).breaks
               \/ a # <<>> /\ b # <<>> /\ o = l
               \/ \E p \in Layout(b).breaks : o = l + p
    <3>1. PICK i \in 2..(Len(a) + Len(b)) : o = OffsetOf(c, i)
      BY <1>0, <1>1, <1>5, <2>1
    <3>2. CASE i <= Len(a)
      <4>1. i \in 1..Len(a) /\ i # 1
        BY <1>0, <3>1, <3>2
      <4>2. o = OffsetOf(a, i)
        BY <1>2, <3>1, <4>1
      <4> QED BY <1>1, <1>5, <4>1, <4>2
    <3>3. CASE i = Len(a) + 1
      <4>1. 1 \in 1..Len(b) /\ o = l + OffsetOf(b, 1)
        BY <1>0, <1>2, <3>1, <3>3
      <4>2. o = l /\ Len(a) > 0 /\ Len(b) > 0
        BY <1>0, <1>6, <3>1, <3>3, <4>1
      <4> QED BY <1>1, <4>2
    <3>4. CASE i > Len(a) + 1
      <4>1. i - Len(a) \in 1..Len(b) /\ i - Len(a) # 1 /\ Len(a) + (i - Len(a)) = i
        BY <1>0, <3>1, <3>4
      <4>2. o = l + OffsetOf(b, i - Len(a))
        BY <1>2, <3>1, <4>1
      <4> QED BY <1>1, <1>5, <4>1, <4>2
    <3> QED BY <1>0, <3>2, <3>3, <3>4
  <2>2. ASSUME o \in Layout(a).breaks PROVE o \in Layout(c).breaks
    <3>1. PICK i \in DOMAIN a \ {1} : o = OffsetOf(a, i)
      BY <1>5, <2>2
    <3>2. i \in DOMAIN c \ {1} /\ o = OffsetOf(c, i)
      BY <1>0, <1>1, <1>2, <3>1
    <3> QED BY <1>5, <3>2
  <2>3. ASSUME a # <<>>, b # <<>>, o = l PROVE o \in Layout(c).breaks
    <3>1. 1 \in 1..Len(b) /\ Len(a) + 1 \in DOMAIN c \ {1}
      BY <1>0, <1>1, <2>3
    <3>2. OffsetOf(c, Len(a) + 1) = l
      BY <1>0, <1>2, <1>6, <3>1
    <3> QED BY <1>5, <2>3, <3>1, <3>2
  <2>4. ASSUME NEW p \in Layout(b).breaks, o = l + p PROVE o \in Layout(c).breaks
    <3>1. PICK i \in DOMAIN b \ {1} : p = OffsetOf(b, i)
      BY <1>5, <2>4
    <3>a. i \in 1..Len(b) /\ i # 1 /\ Len(a) + i \in 1..(Len(a) + Len(b)) /\ Len(a) + i # 1
      BY <1>0, <1>1, <3>1
    <3>2. Len(a) + i \in DOMAIN c \ {1} /\ OffsetOf(c, Len(a) + i) = l + OffsetOf(b, i)
      BY <1>1, <1>2, <3>a
    <3> QED BY <1>5, <2>4, <3>1, <3>2
  <2> QED BY <2>1, <2>2, <2>3, <2>4
<1>8. ASSUME NEW o PROVE o \in Layout(c).indents <=>
              \/ o \in Layout(a).indents
              \/ \E p \in Layout(b).indents : o = l + p
  <2>1. ASSUME o \in Layout(c).indents
        PROVE  \/ o \in Layout(a).indents
               \/ \E p \in Layout(b).indents : o = l + p
    <3>1. PICK i \in DOMAIN c : o = OffsetOf(c, i) /\ c[i].indent
      BY <1>5, <2>1
    <3>2. CASE i <= Len(a)
      <4>1. i \in DOMAIN a /\ o = OffsetOf(a, i) /\ a[i].indent
        BY <1>0, <1>1, <1>2, <1>3, <3>1, <3>2
      <4> QED BY <1>5, <4>1
    <3>3. CASE i > Len(a)
      <4>1. i - Len(a) \in 1..Len(b) /\ Len(a) + (i - Len(a)) = i
        BY <1>0, <1>1, <3>1, <3>3
      <4>2. o = l + OffsetOf(b, i - Len(a)) /\ b[i - Len(a)].indent
        BY <1>2, <1>3, <3>1, <4>1
      <4> QED BY <1>1, <1>5, <4>1, <4>2
    <3> QED BY <1>0, <1>1, <3>2, <3>3
  <2>2. ASSUME o \in Layout(a).indents PROVE o \in Layout(c).indents
    <3>1. PICK i \in DOMAIN a : o = OffsetOf(a, i) /\ a[i].indent
      BY <1>5, <2>2
    <3>2. i \in DOMAIN c /\ o = OffsetOf(c, i) /\ c[i].indent
      BY <1>0, <1>1, <1>2, <1>3, <3>1
    <3> QED BY <1>5, <3>2
  <2>3. ASSUME NEW p \in Layout(b).indents, o = l + p PROVE o \in Layout(c).indents
    <3>1. PICK i \in DOMAIN b : p = OffsetOf(b, i) /\ b[i].indent
      BY <1>5, <2>3
    <3>2. Len(a) + i \in DOMAIN c /\ OffsetOf(c, Len(a) + i) = l + OffsetOf(b, i) /\ c[Len(a) + i].indent
      BY <1>0, <1>1, <1>2, <1>3, <3>1
    <3> QED BY <1>5, <2>3, <3>1, <3>2
  <2> QED BY <2>1, <2>2, <2>3
<1> QED BY <1>4, <1>7, <1>8 DEF c, l

-----------------------------------------------------------------------------
\* What is changed into what says the same, between the same parts, leaves all
\* saying the same.
LEMMA SameAfter ==
  ASSUME NEW a \in Seq(Block), NEW s \in Seq(Block), NEW p \in Seq(Block), s # <<>>, p # <<>>, SameWords(s, p)
  PROVE  SameWords(a \o s, a \o p)
<1> DEFINE l == Len(TextOf(a))
           x == a \o s
           y == a \o p
           t == TextOf(a) \o TextOf(s)
<1>1. /\ TextOf(s) = TextOf(p)
      /\ Layout(s).breaks \cap Stops(TextOf(s)) = Layout(p).breaks \cap Stops(TextOf(s))
      /\ Layout(s).indents \subseteq Layout(p).indents
  BY LaidWithin DEF SameWords
<1>2. Layout(x).text = t /\ Layout(y).text = t
  BY <1>1, LayoutOfParts
<1>3. /\ TextOf(a) \in Seq(Cell) /\ TextOf(s) \in Seq(Cell) /\ l \in Nat /\ Len(TextOf(s)) \in Nat
      /\ Len(t) = l + Len(TextOf(s)) /\ t \in Seq(Cell)
  BY TextTyped, ConcatProperties
<1>4. /\ \A o : o \in Layout(x).breaks <=>
              \/ o \in Layout(a).breaks
              \/ a # <<>> /\ s # <<>> /\ o = l
              \/ \E q \in Layout(s).breaks : o = l + q
      /\ \A o : o \in Layout(y).breaks <=>
              \/ o \in Layout(a).breaks
              \/ a # <<>> /\ p # <<>> /\ o = l
              \/ \E q \in Layout(p).breaks : o = l + q
  BY LayoutOfParts
<1>5. /\ \A o : o \in Layout(x).indents <=>
              \/ o \in Layout(a).indents
              \/ \E q \in Layout(s).indents : o = l + q
      /\ \A o : o \in Layout(y).indents <=>
              \/ o \in Layout(a).indents
              \/ \E q \in Layout(p).indents : o = l + q
  BY LayoutOfParts
<1>6. ASSUME NEW q, q \in Layout(s).breaks \/ q \in Layout(p).breaks
      PROVE  l + q \in Stops(t) <=> q \in Stops(TextOf(s))
  <2>1. q \in 1..Len(TextOf(s))
    BY <1>1, <1>6, LaidWithin
  <2> DEFINE j == l + q
  <2>2. j \in 1..Len(t) /\ j \in 1..(l + Len(TextOf(s))) /\ ~(j <= l) /\ j - l = q
    BY <1>3, <2>1
  <2> HIDE DEF j
  <2>3. t[j] = TextOf(s)[q]
    <3>1. \A i \in 1..(l + Len(TextOf(s))) : t[i] = IF i <= l THEN TextOf(a)[i] ELSE TextOf(s)[i - l]
      BY <1>3, ConcatProperties
    <3> HIDE DEF t, l
    <3> QED BY <2>2, <3>1
  <2>4. DOMAIN t = 1..Len(t) /\ DOMAIN TextOf(s) = 1..Len(TextOf(s))
    BY <1>3, LenProperties
  <2> HIDE DEF t, l
  <2>5. j \in Stops(t) <=> q \in Stops(TextOf(s))
    BY <2>1, <2>2, <2>3, <2>4 DEF Stops
  <2> QED BY <2>5 DEF j
<1> HIDE DEF x, y, t, l
<1>7. Layout(x).breaks \cap Stops(t) = Layout(y).breaks \cap Stops(t)
  <2>1. ASSUME NEW o \in Layout(x).breaks, o \in Stops(t) PROVE o \in Layout(y).breaks
    <3>1. CASE \E q \in Layout(s).breaks : o = l + q
      <4>1. PICK q \in Layout(s).breaks : o = l + q
        BY <3>1
      <4>2. q \in Stops(TextOf(s))
        BY <1>6, <2>1, <4>1
      <4>3. q \in Layout(p).breaks
        BY <1>1, <4>1, <4>2
      <4> QED BY <1>4, <4>1, <4>3
    <3>2. CASE ~ \E q \in Layout(s).breaks : o = l + q
      BY <1>4, <2>1, <3>2
    <3> QED BY <3>1, <3>2
  <2>2. ASSUME NEW o \in Layout(y).breaks, o \in Stops(t) PROVE o \in Layout(x).breaks
    <3>1. CASE \E q \in Layout(p).breaks : o = l + q
      <4>1. PICK q \in Layout(p).breaks : o = l + q
        BY <3>1
      <4>2. q \in Stops(TextOf(s))
        BY <1>6, <2>2, <4>1
      <4>3. q \in Layout(s).breaks
        BY <1>1, <4>1, <4>2
      <4> QED BY <1>4, <4>1, <4>3
    <3>2. CASE ~ \E q \in Layout(p).breaks : o = l + q
      BY <1>4, <2>2, <3>2
    <3> QED BY <3>1, <3>2
  <2> QED BY <2>1, <2>2
<1>8. Layout(x).indents \subseteq Layout(y).indents
  BY <1>1, <1>5
<1>9. SameWords(x, y)
  BY <1>2, <1>7, <1>8 DEF SameWords
<1> QED BY <1>9 DEF x, y

\* Nor does what comes after them matter.
LEMMA SameBefore ==
  ASSUME NEW s \in Seq(Block), NEW p \in Seq(Block), NEW b \in Seq(Block), s # <<>>, p # <<>>, SameWords(s, p)
  PROVE  SameWords(s \o b, p \o b)
<1> DEFINE l == Len(TextOf(s))
           x == s \o b
           y == p \o b
           t == TextOf(s) \o TextOf(b)
<1>1. /\ TextOf(s) = TextOf(p)
      /\ Layout(s).breaks \cap Stops(TextOf(s)) = Layout(p).breaks \cap Stops(TextOf(s))
      /\ Layout(s).indents \subseteq Layout(p).indents
  BY LaidWithin DEF SameWords
<1>2. Layout(x).text = t /\ Layout(y).text = t
  BY <1>1, LayoutOfParts
<1>3. /\ TextOf(s) \in Seq(Cell) /\ TextOf(b) \in Seq(Cell) /\ l \in Nat /\ Len(TextOf(b)) \in Nat
      /\ Len(t) = l + Len(TextOf(b)) /\ t \in Seq(Cell)
  BY TextTyped, ConcatProperties
<1>4. /\ \A o : o \in Layout(x).breaks <=>
              \/ o \in Layout(s).breaks
              \/ s # <<>> /\ b # <<>> /\ o = l
              \/ \E q \in Layout(b).breaks : o = l + q
      /\ \A o : o \in Layout(y).breaks <=>
              \/ o \in Layout(p).breaks
              \/ p # <<>> /\ b # <<>> /\ o = l
              \/ \E q \in Layout(b).breaks : o = l + q
  BY <1>1, LayoutOfParts
<1>5. /\ \A o : o \in Layout(x).indents <=>
              \/ o \in Layout(s).indents
              \/ \E q \in Layout(b).indents : o = l + q
      /\ \A o : o \in Layout(y).indents <=>
              \/ o \in Layout(p).indents
              \/ \E q \in Layout(b).indents : o = l + q
  BY <1>1, LayoutOfParts
<1>6. ASSUME NEW o, o \in Layout(s).breaks \/ o \in Layout(p).breaks
      PROVE  o \in Stops(t) <=> o \in Stops(TextOf(s))
  <2>1. o \in 1..Len(TextOf(s))
    BY <1>1, <1>6, LaidWithin
  <2>2. o \in 1..Len(t) /\ o <= l
    BY <1>3, <2>1
  <2>3. t[o] = TextOf(s)[o]
    <3>1. \A i \in 1..(l + Len(TextOf(b))) : t[i] = IF i <= l THEN TextOf(s)[i] ELSE TextOf(b)[i - l]
      BY <1>3, ConcatProperties
    <3> HIDE DEF t, l
    <3> QED BY <1>3, <2>2, <3>1
  <2>4. DOMAIN t = 1..Len(t) /\ DOMAIN TextOf(s) = 1..Len(TextOf(s))
    BY <1>3, LenProperties
  <2> HIDE DEF t, l
  <2> QED BY <2>1, <2>2, <2>3, <2>4 DEF Stops
<1> HIDE DEF x, y, t, l
<1>7. Layout(x).breaks \cap Stops(t) = Layout(y).breaks \cap Stops(t)
  <2>1. ASSUME NEW o \in Stops(t)
        PROVE  o \in Layout(s).breaks <=> o \in Layout(p).breaks
    BY <1>1, <1>6, <2>1
  <2> QED BY <1>4, <2>1
<1>8. Layout(x).indents \subseteq Layout(y).indents
  BY <1>1, <1>5
<1>9. SameWords(x, y)
  BY <1>2, <1>7, <1>8 DEF SameWords
<1> QED BY <1>9 DEF x, y

\* To say the same is an order: what is changed twice says the same.
LEMMA SameTwice ==
  ASSUME NEW a, NEW b, NEW c, SameWords(a, b), SameWords(b, c)
  PROVE  SameWords(a, c)
<1>1. /\ Layout(a).text = Layout(b).text /\ Layout(b).text = Layout(c).text
      /\ Layout(a).breaks \cap Stops(Layout(a).text) = Layout(b).breaks \cap Stops(Layout(b).text)
      /\ Layout(b).breaks \cap Stops(Layout(b).text) = Layout(c).breaks \cap Stops(Layout(c).text)
      /\ Layout(a).indents \subseteq Layout(b).indents /\ Layout(b).indents \subseteq Layout(c).indents
  BY DEF SameWords
<1>2. Layout(a).indents \subseteq Layout(c).indents
  BY <1>1, Zenon
<1>3. Layout(a).breaks \cap Stops(Layout(a).text) = Layout(c).breaks \cap Stops(Layout(c).text)
  BY <1>1, Zenon
<1>4. Layout(a).text = Layout(c).text
  BY <1>1, Zenon
<1> QED BY <1>2, <1>3, <1>4 DEF SameWords

-----------------------------------------------------------------------------
\* The layout of blocks with one more.
LEMMA LayoutOfMore ==
  ASSUME NEW blocks \in Seq(Block), NEW b \in Block
  PROVE  /\ Append(blocks, b) \in Seq(Block) /\ Append(blocks, b) # <<>>
         /\ TextOf(Append(blocks, b)) = TextOf(blocks) \o Cells(b)
         /\ \A o : o \in Layout(Append(blocks, b)).breaks <=>
              o \in Layout(blocks).breaks \/ (blocks # <<>> /\ o = Len(TextOf(blocks)))
         /\ \A o : o \in Layout(Append(blocks, b)).indents <=>
              o \in Layout(blocks).indents \/ (b.indent /\ o = Len(TextOf(blocks)))
<1> DEFINE e == <<b>>
<1>1. /\ Append(blocks, b) = blocks \o e /\ e \in Seq(Block) /\ e # <<>>
      /\ Append(blocks, b) \in Seq(Block) /\ Append(blocks, b) # <<>>
  BY AppendIsConcat, AppendProperties
<1>2. DOMAIN e = {1} /\ e[1] = b /\ OffsetOf(e, 1) = 0
  <2>1. DOMAIN e = {1} /\ e[1] = b /\ 1 \in 1..Len(e)
    OBVIOUS
  <2> QED BY <1>1, <2>1, OffsetsWithin
<1> HIDE DEF e
<1>3. Layout(e).breaks = {} /\ \A p : p \in Layout(e).indents <=> b.indent /\ p = 0
  BY <1>2 DEF Layout
<1>4. TextOf(Append(blocks, b)) = TextOf(blocks) \o Cells(b)
  BY TextOfMore
<1>5. /\ \A o : o \in Layout(blocks \o e).breaks <=>
              \/ o \in Layout(blocks).breaks
              \/ blocks # <<>> /\ e # <<>> /\ o = Len(TextOf(blocks))
              \/ \E p \in Layout(e).breaks : o = Len(TextOf(blocks)) + p
      /\ \A o : o \in Layout(blocks \o e).indents <=>
              \/ o \in Layout(blocks).indents
              \/ \E p \in Layout(e).indents : o = Len(TextOf(blocks)) + p
  BY <1>1, LayoutOfParts
<1>6. Len(TextOf(blocks)) \in Nat
  BY TextTyped
<1>7. ASSUME NEW o PROVE o \in Layout(Append(blocks, b)).indents <=>
              o \in Layout(blocks).indents \/ (b.indent /\ o = Len(TextOf(blocks)))
  <2>1. (\E p \in Layout(e).indents : o = Len(TextOf(blocks)) + p) <=> b.indent /\ o = Len(TextOf(blocks)) + 0
    BY <1>3, Zenon
  <2>2. Len(TextOf(blocks)) + 0 = Len(TextOf(blocks))
    BY <1>6
  <2> QED BY <1>1, <1>5, <2>1, <2>2, Zenon
<1>8. ASSUME NEW o PROVE o \in Layout(Append(blocks, b)).breaks <=>
              o \in Layout(blocks).breaks \/ (blocks # <<>> /\ o = Len(TextOf(blocks)))
  BY <1>1, <1>3, <1>5, Zenon
<1> QED BY <1>1, <1>4, <1>7, <1>8

\* Paragraphs of one section, and their cells.
Paragraphs(section) == {b \in Block : b.kind = "paragraph" /\ b.section = section}
CellsIn(section) == {c \in Cell : c.kind = "paragraph" /\ c.section = section}

\* A text is split sign by sign.
IsSplit(f, section, layout, m) ==
  f = [n \in 0..m |-> IF n = 0 THEN <<>> ELSE WithSign(section, layout, n, f[n - 1])]

\* What is split up to one sign is split up to the next.
LEMMA SplitsOn ==
  ASSUME NEW section, NEW layout, NEW m \in Nat \ {0}, NEW f, IsSplit(f, section, layout, m - 1)
  PROVE  \E g : IsSplit(g, section, layout, m)
<1> DEFINE g == [n \in 0..m |-> IF n = m THEN WithSign(section, layout, m, f[m - 1]) ELSE f[n]]
<1>1. ASSUME NEW n \in 0..m
      PROVE  g[n] = IF n = 0 THEN <<>> ELSE WithSign(section, layout, n, g[n - 1])
  <2>1. CASE n = m
    <3>1. g[n - 1] = f[m - 1] /\ n # 0 /\ g[n] = WithSign(section, layout, m, f[m - 1])
      BY <2>1
    <3> QED BY <2>1, <3>1
  <2>2. CASE n # m
    <3>1. n \in 0..(m - 1) /\ g[n] = f[n]
      BY <2>2
    <3>2. n # 0 => n - 1 \in 0..m /\ n - 1 # m /\ g[n - 1] = f[n - 1]
      BY <2>2
    <3>3. f[n] = IF n = 0 THEN <<>> ELSE WithSign(section, layout, n, f[n - 1])
      BY <3>1 DEF IsSplit
    <3> QED BY <3>1, <3>2, <3>3
  <2> QED BY <2>1, <2>2
<1>2. g = [n \in 0..m |-> IF n = 0 THEN <<>> ELSE WithSign(section, layout, n, g[n - 1])]
  BY <1>1
<1>3. IsSplit(g, section, layout, m)
  <2> HIDE DEF g
  <2> QED BY <1>2 DEF IsSplit
<1> QED BY <1>3

\* Some function splits up to every sign, and ends with the paragraphs.
LEMMA TextIsSplit ==
  ASSUME NEW section, NEW layout, Len(layout.text) \in Nat
  PROVE  \E f : /\ IsSplit(f, section, layout, Len(layout.text))
                /\ ParagraphsOf(section, layout) = f[Len(layout.text)]
<1> DEFINE Good == {m \in 0..Len(layout.text) : \E f : IsSplit(f, section, layout, m)}
<1>1. 0 \in Good
  <2>1. IsSplit([n \in 0..0 |-> <<>>], section, layout, 0)
    BY DEF IsSplit
  <2> QED BY <2>1
<1>2. ASSUME NEW m \in 1..Len(layout.text), m - 1 \in Good
      PROVE  m \in Good
  <2>1. m \in Nat \ {0} /\ m \in 0..Len(layout.text)
    OBVIOUS
  <2>2. \E f : IsSplit(f, section, layout, m - 1)
    BY <1>2
  <2>3. \E f : IsSplit(f, section, layout, m)
    BY <2>1, <2>2, SplitsOn
  <2> QED BY <2>1, <2>3
<1>3. \A m \in 0..Len(layout.text) : m \in Good
  <2> HIDE DEF Good
  <2> QED BY <1>1, <1>2, UpTo
<1>4. \E f : IsSplit(f, section, layout, Len(layout.text))
  BY <1>3
<1> DEFINE c == CHOOSE f : IsSplit(f, section, layout, Len(layout.text))
<1>5. IsSplit(c, section, layout, Len(layout.text))
  BY <1>4
<1>6. ParagraphsOf(section, layout) = c[Len(layout.text)]
  BY DEF ParagraphsOf, IsSplit
<1> QED BY <1>5, <1>6

\* The paragraphs so far have the first n signs, and begin at the breaks among them.
SplitSoFar(paragraphs, section, layout, n) ==
  /\ paragraphs \in Seq(Paragraphs(section)) /\ (paragraphs = <<>> <=> n = 0)
  /\ TextOf(paragraphs) = SubSeq(layout.text, 1, n)
  /\ \A o : o \in Layout(paragraphs).breaks <=> o \in layout.breaks /\ o < n
  /\ \A o : o \in Layout(paragraphs).indents <=>
       o \in layout.indents /\ o \in layout.breaks \cup {0} /\ o < n

\* A paragraph of one sign, and one that gets a sign more.
LEMMA ParagraphBegins ==
  ASSUME NEW section \in Sections, NEW c \in CellsIn(section), NEW indent \in BOOLEAN,
         NEW b, b = [kind |-> "paragraph", section |-> section, indent |-> indent, text |-> <<c.sign>>]
  PROVE  b \in Paragraphs(section) /\ Cells(b) = <<c>> /\ b.indent = indent
<1>1. c \in Cell /\ c.kind = "paragraph" /\ c.section = section /\ c.sign \in Signs
  BY DEF CellsIn, Cell
<1>2. <<c.sign>> \in Seq(Signs) /\ <<c.sign>> # <<>>
  BY <1>1
<1>3. b \in Paragraphs(section)
  BY <1>2 DEF Paragraphs, Block
<1>4. c = [kind |-> "paragraph", section |-> section, sign |-> c.sign]
  BY <1>1 DEF Cell
<1>5. DOMAIN b.text = {1} /\ b.text[1] = c.sign
  OBVIOUS
<1>6. Cells(b) = [o \in {1} |-> c]
  BY <1>4, <1>5 DEF Cells
<1>7. <<c>> = [o \in {1} |-> c]
  OBVIOUS
<1> QED BY <1>3, <1>6, <1>7

\* A paragraph with one sign more.
Longer(old, sign) == [old EXCEPT !.text = Append(@, sign)]

\* A cell that comes last.
LEMMA OneCellMore ==
  ASSUME NEW x \in Seq(Cell), NEW c \in Cell
  PROVE  /\ x \o <<c>> \in Seq(Cell) /\ Len(x \o <<c>>) = Len(x) + 1
         /\ \A i \in 1..(Len(x) + 1) : (x \o <<c>>)[i] = IF i <= Len(x) THEN x[i] ELSE c
<1>1. <<c>> \in Seq(Cell) /\ Len(<<c>>) = 1 /\ <<c>>[1] = c
  OBVIOUS
<1> QED BY <1>1, ConcatProperties

\* It says what it said and one cell more, and begins as it did.
LEMMA ParagraphGrows ==
  ASSUME NEW section \in Sections, NEW c \in CellsIn(section), NEW old \in Paragraphs(section),
         NEW b, b = Longer(old, c.sign)
  PROVE  b \in Paragraphs(section) /\ Cells(b) = Cells(old) \o <<c>> /\ (b.indent <=> old.indent)
<1>1. c \in Cell /\ c.kind = "paragraph" /\ c.section = section /\ c.sign \in Signs
  BY DEF CellsIn, Cell
<1>2. /\ old \in Block /\ old.text \in Seq(Signs) /\ old.indent \in BOOLEAN
      /\ old = [kind |-> "paragraph", section |-> section, indent |-> old.indent, text |-> old.text]
  BY DEF Paragraphs, Block
<1>3. b = [kind |-> "paragraph", section |-> section, indent |-> old.indent, text |-> Append(old.text, c.sign)]
  <2> DEFINE i == old.indent
             t == old.text
             r == [kind |-> "paragraph", section |-> section, indent |-> i, text |-> t]
  <2>1. old = r
    BY <1>2
  <2> HIDE DEF i, t
  <2>2. ASSUME NEW h, h = [r EXCEPT !.text = Append(@, c.sign)]
        PROVE  h = [kind |-> "paragraph", section |-> section, indent |-> i, text |-> Append(t, c.sign)]
    BY <2>2
  <2> HIDE DEF r
  <2> QED BY <2>1, <2>2 DEF i, t, Longer
<1>4. /\ Append(old.text, c.sign) \in Seq(Signs) /\ Append(old.text, c.sign) # <<>>
      /\ Len(Append(old.text, c.sign)) = Len(old.text) + 1
      /\ \A i \in 1..Len(old.text) : Append(old.text, c.sign)[i] = old.text[i]
      /\ Append(old.text, c.sign)[Len(old.text) + 1] = c.sign
  BY <1>1, <1>2, AppendProperties
<1>5. b \in Paragraphs(section) /\ b \in Block
  BY <1>2, <1>3, <1>4 DEF Paragraphs, Block
<1>6. c = [kind |-> "paragraph", section |-> section, sign |-> c.sign]
  BY <1>1 DEF Cell
<1>7. /\ Cells(b) \in Seq(Cell) /\ Cells(old) \in Seq(Cell) /\ <<c>> \in Seq(Cell)
      /\ Len(Cells(old)) = Len(old.text) /\ Len(Cells(b)) = Len(old.text) + 1 /\ Len(old.text) \in Nat
      /\ \A o \in 1..Len(b.text) : Cells(b)[o] = [kind |-> b.kind, section |-> b.section, sign |-> b.text[o]]
      /\ \A o \in 1..Len(old.text) : Cells(old)[o] = [kind |-> old.kind, section |-> old.section, sign |-> old.text[o]]
  <2>1. <<c>> \in Seq(Cell)
    BY <1>1
  <2>2. /\ Cells(old) \in Seq(Cell) /\ Len(Cells(old)) = Len(old.text) /\ Len(old.text) \in Nat
        /\ \A o \in 1..Len(old.text) : Cells(old)[o] = [kind |-> old.kind, section |-> old.section, sign |-> old.text[o]]
    BY <1>2, CellsOfABlock
  <2>3. /\ Cells(b) \in Seq(Cell) /\ Len(Cells(b)) = Len(b.text)
        /\ \A o \in 1..Len(b.text) : Cells(b)[o] = [kind |-> b.kind, section |-> b.section, sign |-> b.text[o]]
    BY <1>5, CellsOfABlock
  <2>4. Len(b.text) = Len(old.text) + 1
    BY <1>3, <1>4
  <2> QED BY <2>1, <2>2, <2>3, <2>4
<1>8. /\ b.text = Append(old.text, c.sign) /\ b.kind = "paragraph" /\ b.section = section
      /\ old.kind = "paragraph" /\ old.section = section
  BY <1>2, <1>3
<1>9. Cells(old) \o <<c>> \in Seq(Cell) /\ Len(Cells(old) \o <<c>>) = Len(old.text) + 1
      /\ \A i \in 1..(Len(old.text) + 1) : (Cells(old) \o <<c>>)[i] = IF i <= Len(old.text) THEN Cells(old)[i] ELSE c
  <2> DEFINE x == Cells(old)
             n == Len(old.text)
  <2>1. x \in Seq(Cell) /\ c \in Cell /\ Len(x) = n
    BY <1>1, <1>7
  <2> HIDE DEF x, n
  <2>2. /\ x \o <<c>> \in Seq(Cell) /\ Len(x \o <<c>>) = n + 1
        /\ \A i \in 1..(n + 1) : (x \o <<c>>)[i] = IF i <= n THEN x[i] ELSE c
    BY <2>1, OneCellMore
  <2> QED BY <2>2 DEF x, n
<1>10. ASSUME NEW i \in 1..(Len(old.text) + 1) PROVE Cells(b)[i] = (Cells(old) \o <<c>>)[i]
  <2>1. CASE i <= Len(old.text)
    <3>1. i \in 1..Len(old.text) /\ i \in 1..Len(b.text)
      BY <1>4, <1>7, <1>8, <2>1
    <3>2. b.text[i] = old.text[i]
      BY <1>4, <1>8, <3>1
    <3>3. Cells(b)[i] = [kind |-> "paragraph", section |-> section, sign |-> old.text[i]]
      BY <1>7, <1>8, <3>1, <3>2, Zenon
    <3>4. Cells(old)[i] = [kind |-> "paragraph", section |-> section, sign |-> old.text[i]]
      BY <1>7, <1>8, <3>1, Zenon
    <3>5. (Cells(old) \o <<c>>)[i] = Cells(old)[i]
      BY <1>9, <2>1
    <3> QED BY <3>3, <3>4, <3>5, Zenon
  <2>2. CASE ~(i <= Len(old.text))
    <3>1. i = Len(old.text) + 1 /\ i \in 1..Len(b.text)
      BY <1>4, <1>7, <1>8, <2>2
    <3>2. b.text[i] = c.sign
      BY <1>4, <1>8, <3>1
    <3>3. Cells(b)[i] = c
      BY <1>6, <1>7, <1>8, <3>1, <3>2, Zenon
    <3>4. (Cells(old) \o <<c>>)[i] = c
      BY <1>9, <2>2
    <3> QED BY <3>3, <3>4, Zenon
  <2> QED BY <2>1, <2>2
<1>11. Cells(b) = Cells(old) \o <<c>>
  <2> DEFINE x == Cells(b)
             y == Cells(old) \o <<c>>
             n == Len(old.text) + 1
  <2>1. x \in Seq(Cell) /\ y \in Seq(Cell) /\ Len(x) = n /\ Len(y) = n
    BY <1>7, <1>9
  <2>2. \A i \in 1..n : x[i] = y[i]
    BY <1>10
  <2> HIDE DEF x, y, n
  <2>3. x = y
    BY <2>1, <2>2, SeqEqual
  <2> QED BY <2>3 DEF x, y
<1>12. b.indent = old.indent
  <2> DEFINE i == old.indent
             t == Append(old.text, c.sign)
  <2>1. b = [kind |-> "paragraph", section |-> section, indent |-> i, text |-> t]
    BY <1>3
  <2> HIDE DEF i, t
  <2>2. b.indent = i
    BY <2>1
  <2> QED BY <2>2 DEF i
<1> QED BY <1>5, <1>11, <1>12

\* What the split has so far, with the next sign.
LEMMA SplitGoesOn ==
  ASSUME NEW section \in Sections, NEW layout, layout.text \in Seq(CellsIn(section)),
         layout.breaks \in SUBSET (Nat \ {0}), NEW n \in 1..Len(layout.text),
         NEW paragraphs, SplitSoFar(paragraphs, section, layout, n - 1)
  PROVE  SplitSoFar(WithSign(section, layout, n, paragraphs), section, layout, n)
<1> DEFINE c == layout.text[n]
           t == SubSeq(layout.text, 1, n - 1)
<1>1. /\ paragraphs \in Seq(Paragraphs(section)) /\ (paragraphs = <<>> <=> n - 1 = 0)
      /\ TextOf(paragraphs) = t
      /\ \A o : o \in Layout(paragraphs).breaks <=> o \in layout.breaks /\ o < n - 1
      /\ \A o : o \in Layout(paragraphs).indents <=>
           o \in layout.indents /\ o \in layout.breaks \cup {0} /\ o < n - 1
  BY DEF SplitSoFar
<1>2. Len(layout.text) \in Nat /\ n \in Nat /\ n > 0
  BY LenProperties
<1>3. c \in CellsIn(section) /\ Len(t) = n - 1
  <2>1. \A i \in 1..(n - 1) : layout.text[i] \in CellsIn(section)
    BY <1>2, ElementOfSeq
  <2>2. Len(t) = IF 1 <= n - 1 THEN n - 1 - 1 + 1 ELSE 0
    BY <1>2, <2>1, SubSeqProperties
  <2> QED BY <1>2, <2>2, ElementOfSeq
<1>4. SubSeq(layout.text, 1, n) = t \o <<c>>
  <2>1. 1 \in 1..Len(layout.text) /\ n \in 1..Len(layout.text)
    BY <1>2
  <2> QED BY <2>1, SubSeqRecursiveSecond
<1>5. Paragraphs(section) \subseteq Block /\ paragraphs \in Seq(Block)
  <2>1. Paragraphs(section) \subseteq Block
    BY DEF Paragraphs
  <2> QED BY <1>1, <2>1, SeqMonotonic
<1> HIDE DEF c, t
<1>6. CASE n - 1 \in layout.breaks \cup {0}
  <2> DEFINE indent == n - 1 \in layout.indents
             b == [kind |-> "paragraph", section |-> section, indent |-> indent, text |-> <<c.sign>>]
  <2>1. WithSign(section, layout, n, paragraphs) = Append(paragraphs, b)
    BY <1>6 DEF WithSign, c
  <2>a. indent \in BOOLEAN
    OBVIOUS
  <2> HIDE DEF indent
  <2>b. b \in Paragraphs(section) /\ Cells(b) = <<c>> /\ b.indent = indent
    BY <1>3, <2>a, ParagraphBegins
  <2>2. b \in Paragraphs(section) /\ Cells(b) = <<c>> /\ b.indent = (n - 1 \in layout.indents)
    BY <2>b DEF indent
  <2> HIDE DEF b
  <2>3. /\ TextOf(Append(paragraphs, b)) = t \o <<c>> /\ Append(paragraphs, b) # <<>>
        /\ \A o : o \in Layout(Append(paragraphs, b)).breaks <=>
             o \in Layout(paragraphs).breaks \/ (paragraphs # <<>> /\ o = n - 1)
        /\ \A o : o \in Layout(Append(paragraphs, b)).indents <=>
             o \in Layout(paragraphs).indents \/ (b.indent /\ o = n - 1)
    BY <1>1, <1>3, <1>5, <2>2, LayoutOfMore
  <2>4. Append(paragraphs, b) \in Seq(Paragraphs(section))
    BY <1>1, <2>2, AppendProperties
  <2>5. ASSUME NEW o
        PROVE  o \in Layout(Append(paragraphs, b)).breaks <=> o \in layout.breaks /\ o < n
    <3>1. CASE o \in layout.breaks
      <4>1. o \in Nat /\ o > 0 /\ (o < n <=> o < n - 1 \/ o = n - 1)
        BY <1>2, <3>1
      <4> QED BY <1>1, <1>2, <2>3, <3>1, <4>1
    <3>2. CASE o \notin layout.breaks
      BY <1>1, <1>2, <1>6, <2>3, <3>2
    <3> QED BY <3>1, <3>2
  <2>6. ASSUME NEW o
        PROVE  o \in Layout(Append(paragraphs, b)).indents <=>
                 o \in layout.indents /\ o \in layout.breaks \cup {0} /\ o < n
    <3>1. CASE o \in layout.breaks \cup {0}
      <4>1. o \in Nat /\ (o < n <=> o < n - 1 \/ o = n - 1)
        BY <1>2, <3>1
      <4> QED BY <1>1, <1>2, <2>2, <2>3, <3>1, <4>1
    <3>2. CASE o \notin layout.breaks \cup {0}
      BY <1>1, <1>2, <1>6, <2>2, <2>3, <3>2
    <3> QED BY <3>1, <3>2
  <2> QED BY <1>2, <1>4, <2>1, <2>3, <2>4, <2>5, <2>6 DEF SplitSoFar
<1>7. CASE n - 1 \notin layout.breaks \cup {0}
  <2>1. n - 1 # 0 /\ paragraphs # <<>>
    BY <1>1, <1>7
  <2>2. PICK front \in Seq(Paragraphs(section)), old \in Paragraphs(section) : paragraphs = Append(front, old)
    BY <1>1, <2>1, SequenceEmptyOrAppend
  <2> DEFINE b == Longer(old, c.sign)
  <2>c. b \in Paragraphs(section) /\ Cells(b) = Cells(old) \o <<c>> /\ (b.indent <=> old.indent)
    <3>1. b = Longer(old, c.sign)
      OBVIOUS
    <3>2. c \in CellsIn(section) /\ section \in Sections /\ old \in Paragraphs(section)
      BY <1>3
    <3> HIDE DEF b
    <3>3. b \in Paragraphs(section)
      BY <3>1, <3>2, ParagraphGrows, Zenon
    <3>4. Cells(b) = Cells(old) \o <<c>>
      BY <3>1, <3>2, ParagraphGrows
    <3>5. b.indent <=> old.indent
      BY <3>1, <3>2, ParagraphGrows, ZenonT(60)
    <3> QED BY <3>3, <3>4, <3>5
  <2>3. WithSign(section, layout, n, paragraphs) = Append(front, b)
    <3>1. WithSign(section, layout, n, paragraphs) = [paragraphs EXCEPT ![Len(paragraphs)].text = Append(@, c.sign)]
      BY <1>7 DEF WithSign, c
    <3>2. Len(paragraphs) = Len(front) + 1 /\ Len(front) \in Nat /\ paragraphs[Len(paragraphs)] = old
      BY <2>2
    <3>3. WithSign(section, layout, n, paragraphs) = [paragraphs EXCEPT ![Len(paragraphs)] = b]
      BY <3>1, <3>2 DEF Longer
    <3>4. b \in Paragraphs(section)
      BY <2>c
    <3> HIDE DEF b
    <3>5. /\ [paragraphs EXCEPT ![Len(paragraphs)] = b] \in Seq(Paragraphs(section))
          /\ Len([paragraphs EXCEPT ![Len(paragraphs)] = b]) = Len(paragraphs)
          /\ \A i \in 1..Len(paragraphs) :
               [paragraphs EXCEPT ![Len(paragraphs)] = b][i] = IF i = Len(paragraphs) THEN b ELSE paragraphs[i]
      BY <1>1, <3>2, <3>4, ExceptSeq
    <3>6. /\ Append(front, b) \in Seq(Paragraphs(section)) /\ Len(Append(front, b)) = Len(front) + 1
          /\ \A i \in 1..Len(front) : Append(front, b)[i] = paragraphs[i]
          /\ Append(front, b)[Len(front) + 1] = b
      BY <2>2, <3>4, AppendProperties
    <3>7. [paragraphs EXCEPT ![Len(paragraphs)] = b] = Append(front, b)
      <4> DEFINE e == [paragraphs EXCEPT ![Len(paragraphs)] = b]
                 g == Append(front, b)
      <4>1. Len(e) = Len(g) /\ \A i \in 1..Len(e) : e[i] = g[i]
        <5> HIDE DEF e, g
        <5> QED BY <3>2, <3>5, <3>6 DEF e, g
      <4> HIDE DEF e, g
      <4> QED BY <3>5, <3>6, <4>1, SeqEqual DEF e, g
    <3> QED BY <3>3, <3>7
  <2>4. b \in Paragraphs(section) /\ Cells(b) = Cells(old) \o <<c>> /\ (b.indent <=> old.indent)
    BY <2>c
  <2> HIDE DEF b
  <2>5. front \in Seq(Block) /\ old \in Block /\ b \in Block
    BY <1>5, <2>2, <2>4, SeqMonotonic
  <2>6. /\ Append(front, b) # <<>> /\ TextOf(Append(front, b)) = TextOf(front) \o Cells(b)
        /\ TextOf(paragraphs) = TextOf(front) \o Cells(old)
        /\ \A o : o \in Layout(Append(front, b)).breaks <=> o \in Layout(paragraphs).breaks
        /\ \A o : o \in Layout(Append(front, b)).indents <=> o \in Layout(paragraphs).indents
    <3>1. /\ Append(front, b) # <<>> /\ TextOf(Append(front, b)) = TextOf(front) \o Cells(b)
          /\ \A o : o \in Layout(Append(front, b)).breaks <=>
               o \in Layout(front).breaks \/ (front # <<>> /\ o = Len(TextOf(front)))
          /\ \A o : o \in Layout(Append(front, b)).indents <=>
               o \in Layout(front).indents \/ (b.indent /\ o = Len(TextOf(front)))
      BY <2>5, LayoutOfMore
    <3>2. /\ TextOf(paragraphs) = TextOf(front) \o Cells(old)
          /\ \A o : o \in Layout(paragraphs).breaks <=>
               o \in Layout(front).breaks \/ (front # <<>> /\ o = Len(TextOf(front)))
          /\ \A o : o \in Layout(paragraphs).indents <=>
               o \in Layout(front).indents \/ (old.indent /\ o = Len(TextOf(front)))
      BY <2>2, <2>5, LayoutOfMore
    <3>3. b.indent <=> old.indent
      BY <2>4
    <3> QED BY <3>1, <3>2, <3>3, Zenon
  <2>7. TextOf(Append(front, b)) = t \o <<c>>
    <3>1. TextOf(front) \in Seq(Cell) /\ Cells(old) \in Seq(Cell) /\ <<c>> \in Seq(Cell)
      BY <1>3, <2>5, TextTyped, CellsOfABlock DEF CellsIn
    <3>2. (TextOf(front) \o Cells(old)) \o <<c>> = TextOf(front) \o (Cells(old) \o <<c>>)
      BY <3>1, ConcatAssociative
    <3> QED BY <1>1, <2>4, <2>6, <3>2
  <2>8. Append(front, b) \in Seq(Paragraphs(section))
    BY <2>2, <2>4, AppendProperties
  <2>9. ASSUME NEW o, o \in layout.breaks \cup {0} PROVE o < n <=> o < n - 1
    <3>1. o \in Nat /\ o # n - 1
      BY <1>7, <2>9
    <3> QED BY <1>2, <3>1
  <2>10. ASSUME NEW o PROVE o \in Layout(Append(front, b)).breaks <=> o \in layout.breaks /\ o < n
    BY <1>1, <2>6, <2>9
  <2>11. ASSUME NEW o PROVE o \in Layout(Append(front, b)).indents <=>
                 o \in layout.indents /\ o \in layout.breaks \cup {0} /\ o < n
    BY <1>1, <2>6, <2>9
  <2> QED BY <1>2, <1>4, <2>3, <2>6, <2>7, <2>8, <2>10, <2>11 DEF SplitSoFar
<1> QED BY <1>6, <1>7

\* The paragraphs of a layout are laid out like it.
LEMMA SplitRight ==
  ASSUME NEW section \in Sections, NEW layout, layout.text \in Seq(CellsIn(section)),
         layout.breaks \in SUBSET (Nat \ {0})
  PROVE  SplitSoFar(ParagraphsOf(section, layout), section, layout, Len(layout.text))
<1>0. Len(layout.text) \in Nat
  BY LenProperties
<1>1. PICK f : /\ IsSplit(f, section, layout, Len(layout.text))
               /\ ParagraphsOf(section, layout) = f[Len(layout.text)]
  BY <1>0, TextIsSplit
<1> DEFINE Good == {n \in 0..Len(layout.text) : SplitSoFar(f[n], section, layout, n)}
<1>2. 0 \in Good
  <2>1. f[0] = <<>> /\ 0 \in 0..Len(layout.text)
    BY <1>0, <1>1 DEF IsSplit
  <2>2. <<>> \in Seq(Paragraphs(section)) /\ TextOf(<<>>) = SubSeq(layout.text, 1, 0)
    <3>1. SubSeq(layout.text, 1, 0) = <<>>
      BY SubSeqEmpty
    <3> QED BY <3>1, TextOfNone, EmptySeq
  <2>3. Layout(<<>>).breaks = {} /\ Layout(<<>>).indents = {}
    <3>1. DOMAIN <<>> = {}
      OBVIOUS
    <3> QED BY <3>1 DEF Layout
  <2>4. SplitSoFar(<<>>, section, layout, 0)
    <3>1. \A o \in layout.breaks \cup {0} : ~(o < 0)
      OBVIOUS
    <3> QED BY <2>2, <2>3, <3>1 DEF SplitSoFar
  <2> QED BY <2>1, <2>4
<1>3. ASSUME NEW n \in 1..Len(layout.text), n - 1 \in Good
      PROVE  n \in Good
  <2>1. n \in 0..Len(layout.text) /\ n # 0 /\ SplitSoFar(f[n - 1], section, layout, n - 1)
    BY <1>3
  <2>2. f[n] = WithSign(section, layout, n, f[n - 1])
    BY <1>1, <2>1 DEF IsSplit
  <2>3. SplitSoFar(f[n], section, layout, n)
    BY <2>1, <2>2, SplitGoesOn
  <2> QED BY <2>1, <2>3
<1>4. \A n \in 0..Len(layout.text) : n \in Good
  <2> HIDE DEF Good
  <2> QED BY <1>0, <1>2, <1>3, UpTo
<1>5. SplitSoFar(f[Len(layout.text)], section, layout, Len(layout.text))
  BY <1>0, <1>4
<1> QED BY <1>1, <1>5

-----------------------------------------------------------------------------
\* A segment is made of paragraphs of its section, and no other one begins in it.
LEMMA SegmentsAre ==
  ASSUME NEW doc \in Seq(Block), NEW s \in editableSegments(doc)
  PROVE  /\ s.first \in 1..Len(doc) /\ s.last \in 1..Len(doc) /\ s.first <= s.last
         /\ doc[s.first].section \in Sections
         /\ \A k \in s.first..s.last : doc[k] \in Paragraphs(doc[s.first].section)
         /\ \A r \in editableSegments(doc) : r.first > s.first => r.first > s.last
<1>0. DOMAIN doc = 1..Len(doc) /\ Len(doc) \in Nat /\ \A i \in 1..Len(doc) : doc[i] \in Block
  BY LenProperties, ElementOfSeq
<1>1. \A r \in editableSegments(doc) :
        /\ r.first \in DOMAIN doc /\ r.last \in DOMAIN doc
        /\ r.first <= r.last /\ OneSegment(doc, r.first, r.last)
        /\ r.first = 1 \/ ~ OneSegment(doc, r.first - 1, r.first)
  BY DEF editableSegments
<1>2. \A k \in s.first..s.last : IsText(doc, k) /\ doc[k].section = doc[s.first].section /\ doc[k] \in Block
  <2>1. \A k \in s.first..s.last : IsText(doc, k) /\ doc[k].section = doc[s.first].section
    BY <1>1 DEF OneSegment
  <2>2. \A k \in s.first..s.last : k \in 1..Len(doc)
    BY <1>0, <1>1
  <2> QED BY <1>0, <2>1, <2>2
<1>3. \A k \in s.first..s.last : doc[k] \in Paragraphs(doc[s.first].section)
  BY <1>2 DEF Paragraphs, IsText
<1>4. doc[s.first].section \in Sections
  BY <1>0, <1>1 DEF Block
<1>5. ASSUME NEW r \in editableSegments(doc), r.first > s.first, r.first <= s.last
      PROVE  FALSE
  <2>1. r.first \in Nat /\ s.first \in Nat /\ s.first > 0 /\ s.last \in Nat
    BY <1>0, <1>1
  <2>2. /\ \A k \in r.first - 1..r.first : k \in s.first..s.last
        /\ r.first - 1 \in s.first..s.last /\ r.first # 1
    BY <1>5, <2>1
  <2>3. OneSegment(doc, r.first - 1, r.first)
    BY <1>2, <2>2 DEF OneSegment
  <2> QED BY <1>1, <2>2, <2>3
<1>6. \A r \in editableSegments(doc) : r.first > s.first => r.first > s.last
  <2> TAKE r \in editableSegments(doc)
  <2>1. r.first \in Nat /\ s.last \in Nat
    BY <1>0, <1>1
  <2> QED BY <1>5, <2>1
<1> QED BY <1>0, <1>1, <1>3, <1>4, <1>6

\* What an accepted answer makes of a segment says what the segment says.
LEMMA SegmentMended ==
  ASSUME NEW section \in Sections, NEW blocks \in Seq(Paragraphs(section)), blocks # <<>>,
         NEW answer \in AnswersAbout(Layout(blocks)), ValidOutput(Layout(blocks), answer)
  PROVE  LET mended == ParagraphsOf(section, Mended(Layout(blocks), answer))
         IN /\ blocks \in Seq(Block) /\ mended \in Seq(Block) /\ mended # <<>>
            /\ SameWords(blocks, mended)
<1> DEFINE source == Layout(blocks)
           layout == Mended(source, answer)
           mended == ParagraphsOf(section, layout)
           text == TextOf(blocks)
           breaks == BreaksOf(source, answer)
<1>1. Paragraphs(section) \subseteq Block /\ blocks \in Seq(Block)
  <2>1. Paragraphs(section) \subseteq Block
    BY DEF Paragraphs
  <2> QED BY <2>1, SeqMonotonic
<1>2. text \in Seq(CellsIn(section)) /\ Len(text) \in Nat /\ Len(text) > 0
  <2>1. \A b \in Paragraphs(section) : Cells(b) \in Seq(CellsIn(section))
    <3> TAKE b \in Paragraphs(section)
    <3>1. /\ Cells(b) \in Seq(Cell) /\ Len(Cells(b)) = Len(b.text) /\ Len(b.text) \in Nat
          /\ \A o \in 1..Len(b.text) : Cells(b)[o] = [kind |-> b.kind, section |-> b.section, sign |-> b.text[o]]
      BY <1>1, CellsOfABlock
    <3>2. \A o \in 1..Len(b.text) : Cells(b)[o] \in CellsIn(section)
      <4> TAKE o \in 1..Len(b.text)
      <4>1. Cells(b)[o] \in Cell
        BY <3>1, ElementOfSeq
      <4>2. b.kind = "paragraph" /\ b.section = section
        BY DEF Paragraphs
      <4>3. Cells(b)[o] = [kind |-> b.kind, section |-> b.section, sign |-> b.text[o]]
        BY <3>1
      <4>4. Cells(b)[o].kind = b.kind /\ Cells(b)[o].section = b.section
        BY <4>3
      <4> QED BY <4>1, <4>2, <4>4 DEF CellsIn
    <3> QED BY <3>1, <3>2
  <2>2. text \in Seq(CellsIn(section))
    BY <1>1, <2>1, TextIsCells
  <2> QED BY <1>1, <2>2, SomeText, TextTyped
<1>3. /\ source.text = text
      /\ \A o \in source.breaks : o \in Nat /\ o > 0 /\ o < Len(text)
      /\ \A o \in source.indents : o \in Nat /\ o < Len(text)
  BY <1>1, LaidWithin
<1>4. answer.text = source.text /\ source.indents \subseteq breaks \cup {0}
  BY DEF ValidOutput
<1>5. \A o \in answer.breaks : o \in 1..Len(text) - 1
  BY <1>3 DEF AnswersAbout
<1>6. /\ layout.text = text /\ layout.breaks = breaks
      /\ layout.indents = answer.indents \cup (source.indents \cap (breaks \cup {0}))
  BY <1>3, <1>4 DEF Mended
<1>7. breaks = (answer.breaks \ Stops(text)) \cup (source.breaks \cap Stops(text))
  BY <1>3 DEF BreaksOf
<1> HIDE DEF source, layout, mended, text, breaks
<1>8. \A o \in breaks : o \in Nat \ {0} /\ o < Len(text)
  BY <1>2, <1>3, <1>5, <1>7
<1>9. SplitSoFar(mended, section, layout, Len(text))
  <2>1. layout.breaks \in SUBSET (Nat \ {0})
    BY <1>6, <1>8
  <2> QED BY <1>2, <1>6, <2>1, SplitRight DEF mended
<1>10. /\ mended \in Seq(Paragraphs(section)) /\ mended # <<>>
       /\ TextOf(mended) = SubSeq(text, 1, Len(text))
       /\ \A o : o \in Layout(mended).breaks <=> o \in breaks /\ o < Len(text)
       /\ \A o : o \in Layout(mended).indents <=>
            o \in layout.indents /\ o \in breaks \cup {0} /\ o < Len(text)
  BY <1>2, <1>6, <1>9 DEF SplitSoFar
<1>11. mended \in Seq(Block) /\ TextOf(mended) = text
  BY <1>1, <1>2, <1>10, SeqMonotonic, SubSeqFull
<1>12. Layout(mended).text = text
  BY <1>11, LaidWithin
<1>13. source.breaks \cap Stops(text) = Layout(mended).breaks \cap Stops(text)
  <2>1. \A o \in Stops(text) : o \in Layout(mended).breaks <=> o \in source.breaks
    BY <1>7, <1>8, <1>10
  <2> QED BY <2>1
<1>14. source.indents \subseteq Layout(mended).indents
  <2>1. ASSUME NEW o \in source.indents PROVE o \in Layout(mended).indents
    <3>1. o \in breaks \cup {0}
      BY <1>4
    <3>2. o \in layout.indents
      BY <1>6, <3>1, <2>1
    <3> QED BY <1>3, <1>10, <2>1, <3>1, <3>2
  <2> QED BY <2>1
<1>15. SameWords(blocks, mended)
  BY <1>3, <1>12, <1>13, <1>14 DEF SameWords, source
<1> QED BY <1>1, <1>10, <1>11, <1>15 DEF mended, layout, source

-----------------------------------------------------------------------------
\* Three sequences joined, either way.
LEMMA Joined ==
  \A a, b, c \in Seq(Block) :
    /\ (a \o b) \o c = a \o (b \o c)
    /\ b \o c \in Seq(Block) /\ a \o (b \o c) \in Seq(Block)
<1> SUFFICES ASSUME NEW a \in Seq(Block), NEW b \in Seq(Block), NEW c \in Seq(Block)
             PROVE  /\ (a \o b) \o c = a \o (b \o c)
                    /\ b \o c \in Seq(Block) /\ a \o (b \o c) \in Seq(Block)
  OBVIOUS
<1>1. (a \o b) \o c = a \o (b \o c)
  BY ConcatAssociative
<1>2. b \o c \in Seq(Block)
  BY ConcatProperties
<1>3. a \o (b \o c) \in Seq(Block)
  BY <1>2, ConcatProperties
<1> QED BY <1>1, <1>2, <1>3

\* The first m blocks, and more.
BeginsWith(new, doc, m) == \E more \in Seq(Block) : new = SubSeq(doc, 1, m) \o more

\* What begins with more of them begins with fewer.
LEMMA CutEarlier ==
  ASSUME NEW doc \in Seq(Block), NEW m \in 0..Len(doc), NEW t \in 0..m,
         NEW new, BeginsWith(new, doc, m)
  PROVE  BeginsWith(new, doc, t)
<1> DEFINE begins == SubSeq(doc, 1, t)
           between == SubSeq(doc, t + 1, m)
<1>0. t \in Nat /\ m \in Nat /\ t <= m /\ m <= Len(doc)
  BY LenProperties
<1>1. SubSeq(doc, 1, m) = begins \o between
  BY <1>0, CutAt
<1>2. begins \in Seq(Block) /\ between \in Seq(Block)
  BY <1>0, CutAt
<1>3. PICK after \in Seq(Block) : new = SubSeq(doc, 1, m) \o after
  BY DEF BeginsWith
<1> HIDE DEF begins, between
<1>4. after \in Seq(Block)
  BY <1>3
<1>5. (begins \o between) \o after = begins \o (between \o after) /\ between \o after \in Seq(Block)
  <2>1. begins \in Seq(Block) /\ between \in Seq(Block) /\ after \in Seq(Block)
    BY <1>2, <1>4
  <2>2. (begins \o between) \o after = begins \o (between \o after)
    BY <2>1, Joined, ZenonT(60)
  <2>3. between \o after \in Seq(Block)
    BY <2>1, Joined, ZenonT(60)
  <2> QED BY <2>2, <2>3
<1>6. new = begins \o (between \o after)
  BY <1>1, <1>3, <1>5
<1> QED BY <1>5, <1>6 DEF begins, BeginsWith

\* One segment replaced, while nothing up to its end has been.
LEMMA OneReplaced ==
  ASSUME NEW doc \in Seq(Block), NEW s \in editableSegments(doc), NEW rest \in Seq(Block),
         NEW answer \in AnswersAbout(SegmentLayout(doc, s)), ValidOutput(SegmentLayout(doc, s), answer)
  PROVE  LET blocks == SubSeq(doc, 1, s.last) \o rest
             replaced == Replaced(blocks, s, doc[s.first].section, Mended(SegmentLayout(doc, s), answer))
         IN /\ replaced \in Seq(Block) /\ SameWords(blocks, replaced)
            /\ BeginsWith(replaced, doc, s.first - 1)
<1> DEFINE section == doc[s.first].section
           old == SubSeq(doc, s.first, s.last)
           before == SubSeq(doc, 1, s.first - 1)
           blocks == SubSeq(doc, 1, s.last) \o rest
           mended == ParagraphsOf(section, Mended(Layout(old), answer))
           replaced == before \o mended \o rest
<1>0. /\ Len(doc) \in Nat /\ s.first \in Nat /\ s.last \in Nat /\ s.first > 0
      /\ s.first <= s.last /\ s.last <= Len(doc) /\ s.first - 1 \in Nat /\ s.first - 1 <= s.last
  BY SegmentsAre
<1>1. /\ section \in Sections
      /\ \A k \in s.first..s.last : doc[k] \in Paragraphs(section)
  BY SegmentsAre
<1>2. old \in Seq(Paragraphs(section)) /\ old # <<>>
  <2>1. /\ SubSeq(doc, s.first, s.last) \in Seq(Paragraphs(section))
        /\ Len(SubSeq(doc, s.first, s.last)) = IF s.first <= s.last THEN s.last - s.first + 1 ELSE 0
    BY <1>0, <1>1, SubSeqProperties
  <2>2. Len(SubSeq(doc, s.first, s.last)) # 0
    BY <1>0, <2>1
  <2> QED BY <2>1, <2>2, EmptySeq
<1>3. SegmentLayout(doc, s) = Layout(old)
  BY DEF SegmentLayout
<1>4. old \in Seq(Block) /\ mended \in Seq(Block) /\ mended # <<>> /\ SameWords(old, mended)
  <2>1. answer \in AnswersAbout(Layout(old)) /\ ValidOutput(Layout(old), answer)
    BY <1>3
  <2> HIDE DEF old, section
  <2> QED BY <1>1, <1>2, <2>1, SegmentMended
<1>5. /\ before \in Seq(Block) /\ Len(before) = s.first - 1
      /\ SubSeq(doc, 1, s.last) = before \o old
      /\ SubSeq(doc, 1, s.last) \in Seq(Block) /\ Len(SubSeq(doc, 1, s.last)) = s.last
  <2> DEFINE m == s.first - 1
             n == s.last
  <2>1. m \in Nat /\ n \in Nat /\ m <= n /\ n <= n /\ n <= Len(doc) /\ m + 1 = s.first
    BY <1>0
  <2>2. before = SubSeq(doc, 1, m) /\ old = SubSeq(doc, s.first, n) /\ s.last = n /\ s.first - 1 = m
    OBVIOUS
  <2> HIDE DEF m, n, before, old
  <2>3. /\ SubSeq(doc, 1, m) \in Seq(Block) /\ Len(SubSeq(doc, 1, m)) = m
        /\ SubSeq(doc, 1, n) = SubSeq(doc, 1, m) \o SubSeq(doc, m + 1, n)
    BY <2>1, CutAt
  <2>4. SubSeq(doc, 1, n) \in Seq(Block) /\ Len(SubSeq(doc, 1, n)) = n
    BY <2>1, CutAt
  <2> QED BY <2>1, <2>2, <2>3, <2>4
<1>6. Replaced(blocks, s, section, Mended(Layout(old), answer))
        = SubSeq(blocks, 1, s.first - 1) \o mended \o SubSeq(blocks, s.last + 1, Len(blocks))
  BY DEF Replaced
<1> HIDE DEF section, old, before, mended
<1>7. blocks = before \o (old \o rest) /\ old \o rest \in Seq(Block)
  <2>1. before \in Seq(Block) /\ old \in Seq(Block) /\ rest \in Seq(Block)
    BY <1>4, <1>5
  <2>2. (before \o old) \o rest = before \o (old \o rest) /\ old \o rest \in Seq(Block)
    BY <2>1, Joined
  <2> QED BY <1>5, <2>2
<1>8. SubSeq(blocks, 1, s.first - 1) = before
  <2>1. SubSeq(before \o (old \o rest), 1, Len(before)) = before
    BY <1>5, <1>7, CutBetween
  <2> HIDE DEF blocks
  <2> QED BY <1>5, <1>7, <2>1
<1>9. SubSeq(blocks, s.last + 1, Len(blocks)) = rest
  <2> DEFINE a == SubSeq(doc, 1, s.last)
  <2>1. a \in Seq(Block) /\ Len(a) = s.last /\ blocks = a \o rest
    BY <1>5
  <2> HIDE DEF a, blocks
  <2>2. SubSeq(a \o rest, Len(a) + 1, Len(a \o rest)) = rest
    BY <2>1, CutBetween
  <2> QED BY <2>1, <2>2
<1>10. before \o mended \o rest = before \o (mended \o rest) /\ mended \o rest \in Seq(Block)
       /\ before \o (mended \o rest) \in Seq(Block)
  <2>1. before \in Seq(Block) /\ mended \in Seq(Block) /\ rest \in Seq(Block)
    BY <1>4, <1>5
  <2> QED BY <2>1, Joined
<1>11. SameWords(before \o (old \o rest), before \o (mended \o rest))
  <2>1. old \o rest # <<>> /\ mended \o rest # <<>>
    BY <1>2, <1>4, ConcatEqualIffEmpty
  <2>2. SameWords(old \o rest, mended \o rest)
    BY <1>2, <1>4, SameBefore
  <2> QED BY <1>5, <1>7, <1>10, <2>1, <2>2, SameAfter
<1> HIDE DEF blocks
<1>12. Replaced(blocks, s, section, Mended(Layout(old), answer)) = before \o (mended \o rest)
  BY <1>6, <1>8, <1>9, <1>10
<1>13. LET new == Replaced(blocks, s, section, Mended(Layout(old), answer))
       IN /\ new \in Seq(Block) /\ SameWords(blocks, new)
          /\ \E after \in Seq(Block) : new = before \o after
  BY <1>7, <1>10, <1>11, <1>12
<1> QED BY <1>3, <1>13 DEF blocks, before, section, BeginsWith

\* The segments are replaced block by block, from the last.
IsApplied(f, doc, answer, m) ==
  f = [n \in 0..m |-> IF n = 0 THEN doc ELSE ReplacedAt(doc, answer, Len(doc) + 1 - n, f[n - 1])]

\* What is applied to one block is applied to the next.
LEMMA AppliesOn ==
  ASSUME NEW doc, NEW answer, NEW m \in Nat \ {0}, NEW f, IsApplied(f, doc, answer, m - 1)
  PROVE  \E g : IsApplied(g, doc, answer, m)
<1> DEFINE g == [n \in 0..m |-> IF n = m THEN ReplacedAt(doc, answer, Len(doc) + 1 - m, f[m - 1]) ELSE f[n]]
<1>1. ASSUME NEW n \in 0..m
      PROVE  g[n] = IF n = 0 THEN doc ELSE ReplacedAt(doc, answer, Len(doc) + 1 - n, g[n - 1])
  <2>1. CASE n = m
    <3>1. g[n - 1] = f[m - 1] /\ n # 0 /\ g[n] = ReplacedAt(doc, answer, Len(doc) + 1 - m, f[m - 1])
      BY <2>1
    <3> QED BY <2>1, <3>1
  <2>2. CASE n # m
    <3>1. n \in 0..(m - 1) /\ g[n] = f[n]
      BY <2>2
    <3>2. n # 0 => n - 1 \in 0..m /\ n - 1 # m /\ g[n - 1] = f[n - 1]
      BY <2>2
    <3>3. f[n] = IF n = 0 THEN doc ELSE ReplacedAt(doc, answer, Len(doc) + 1 - n, f[n - 1])
      BY <3>1 DEF IsApplied
    <3> QED BY <3>1, <3>2, <3>3
  <2> QED BY <2>1, <2>2
<1>2. g = [n \in 0..m |-> IF n = 0 THEN doc ELSE ReplacedAt(doc, answer, Len(doc) + 1 - n, g[n - 1])]
  BY <1>1
<1>3. IsApplied(g, doc, answer, m)
  <2> HIDE DEF g
  <2> QED BY <1>2 DEF IsApplied
<1> QED BY <1>3

\* Some function applies the answer block by block, and ends with the result.
LEMMA AnswerIsApplied ==
  ASSUME NEW doc, NEW answer, Len(doc) \in Nat
  PROVE  \E f : IsApplied(f, doc, answer, Len(doc)) /\ Applied(doc, answer) = f[Len(doc)]
<1> DEFINE Good == {m \in 0..Len(doc) : \E f : IsApplied(f, doc, answer, m)}
<1>1. 0 \in Good
  <2>1. IsApplied([n \in 0..0 |-> doc], doc, answer, 0)
    BY DEF IsApplied
  <2> QED BY <2>1
<1>2. ASSUME NEW m \in 1..Len(doc), m - 1 \in Good
      PROVE  m \in Good
  <2>1. m \in Nat \ {0} /\ m \in 0..Len(doc)
    OBVIOUS
  <2>2. \E f : IsApplied(f, doc, answer, m - 1)
    BY <1>2
  <2>3. \E f : IsApplied(f, doc, answer, m)
    BY <2>1, <2>2, AppliesOn
  <2> QED BY <2>1, <2>3
<1>3. \A m \in 0..Len(doc) : m \in Good
  <2> HIDE DEF Good
  <2> QED BY <1>1, <1>2, UpTo
<1>4. \E f : IsApplied(f, doc, answer, Len(doc))
  BY <1>3
<1> DEFINE c == CHOOSE f : IsApplied(f, doc, answer, Len(doc))
<1>5. IsApplied(c, doc, answer, Len(doc))
  BY <1>4
<1>6. Applied(doc, answer) = c[Len(doc)]
  BY DEF Applied, IsApplied
<1> QED BY <1>5, <1>6

\* When the blocks after place i are done, all says the same, and nothing is
\* changed before the first segment that begins after it.
DoneAfter(doc, blocks, i) ==
  /\ blocks \in Seq(Block) /\ SameWords(doc, blocks)
  /\ \A t \in 0..Len(doc) :
       (\A s \in editableSegments(doc) : s.first > i => s.first > t)
         => BeginsWith(blocks, doc, t)

\* One block more is done, whether a segment begins there or not.
LEMMA NextIsDone ==
  ASSUME NEW doc \in Seq(Block), NEW answer,
         \A s \in editableSegments(doc) :
           answer[s] \in AnswersAbout(SegmentLayout(doc, s)) /\ ValidOutput(SegmentLayout(doc, s), answer[s]),
         NEW i \in 1..Len(doc), NEW blocks, DoneAfter(doc, blocks, i)
  PROVE  DoneAfter(doc, ReplacedAt(doc, answer, i, blocks), i - 1)
<1>0. /\ Len(doc) \in Nat /\ i \in Nat /\ i > 0 /\ i <= Len(doc) /\ i - 1 \in Nat
      /\ \A s \in editableSegments(doc) : s.first \in Nat /\ s.last \in Nat /\ s.last <= Len(doc)
  <2>1. \A s \in editableSegments(doc) : s.first \in 1..Len(doc) /\ s.last \in 1..Len(doc)
    BY SegmentsAre
  <2> QED BY <2>1
<1>1. /\ blocks \in Seq(Block) /\ SameWords(doc, blocks)
      /\ \A t \in 0..Len(doc) :
           (\A s \in editableSegments(doc) : s.first > i => s.first > t)
             => BeginsWith(blocks, doc, t)
  BY DEF DoneAfter
<1>2. CASE ~ \E s \in editableSegments(doc) : s.first = i
  <2>1. ReplacedAt(doc, answer, i, blocks) = blocks
    BY <1>2 DEF ReplacedAt
  <2>2. \A s \in editableSegments(doc) : s.first > i => s.first > i - 1
    BY <1>0
  <2> QED BY <1>1, <2>1, <2>2 DEF DoneAfter
<1>3. CASE \E s \in editableSegments(doc) : s.first = i
  <2> DEFINE s == CHOOSE s \in editableSegments(doc) : s.first = i
             new == Replaced(blocks, s, doc[i].section, Mended(SegmentLayout(doc, s), answer[s]))
  <2>1. s \in editableSegments(doc) /\ s.first = i
    BY <1>3
  <2>2. ReplacedAt(doc, answer, i, blocks) = new
    BY <1>3 DEF ReplacedAt
  <2> HIDE DEF s
  <2>3. \A r \in editableSegments(doc) : r.first > i => r.first > s.last
    BY <2>1, SegmentsAre
  <2>4. PICK rest \in Seq(Block) : blocks = SubSeq(doc, 1, s.last) \o rest
    <3>1. s.last \in 0..Len(doc)
      BY <1>0, <2>1
    <3> QED BY <1>1, <2>3, <3>1 DEF BeginsWith
  <2>5. answer[s] \in AnswersAbout(SegmentLayout(doc, s)) /\ ValidOutput(SegmentLayout(doc, s), answer[s])
    BY <2>1
  <2>6. /\ new \in Seq(Block) /\ SameWords(blocks, new)
        /\ BeginsWith(new, doc, i - 1)
    <3> DEFINE b == SubSeq(doc, 1, s.last) \o rest
               r == Replaced(b, s, doc[s.first].section, Mended(SegmentLayout(doc, s), answer[s]))
    <3>1. /\ r \in Seq(Block) /\ SameWords(b, r)
          /\ BeginsWith(r, doc, s.first - 1)
      BY <2>1, <2>5, OneReplaced
    <3>2. b = blocks /\ r = new
      BY <2>1, <2>4
    <3> HIDE DEF b, r, new
    <3> QED BY <2>1, <3>1, <3>2
  <2> HIDE DEF new
  <2>7. SameWords(doc, new)
    BY <1>1, <2>6, SameTwice
  <2>8. ASSUME NEW t \in 0..Len(doc),
               \A r \in editableSegments(doc) : r.first > i - 1 => r.first > t
        PROVE  BeginsWith(new, doc, t)
    <3> DEFINE m == i - 1
    <3>1. m \in 0..Len(doc) /\ t \in 0..m
      BY <1>0, <2>1, <2>8
    <3>2. BeginsWith(new, doc, m)
      BY <2>6
    <3> HIDE DEF m, new
    <3> QED BY <3>1, <3>2, CutEarlier
  <2> QED BY <2>2, <2>6, <2>7, <2>8 DEF DoneAfter
<1> QED BY <1>2, <1>3

\* A text to which accepted answers are applied says what it said before: the same signs
\* under the same sections, the same breaks at the ends of sentences, and no indented
\* paragraph joined to another (service.go, applyOutput).
THEOREM AppliedSaysTheSame ==
  ASSUME NEW doc \in Seq(Block), NEW answer,
         \A s \in editableSegments(doc) :
           answer[s] \in AnswersAbout(SegmentLayout(doc, s)) /\ ValidOutput(SegmentLayout(doc, s), answer[s])
  PROVE  SameWords(doc, Applied(doc, answer))
<1>0. Len(doc) \in Nat
  BY LenProperties
<1>1. PICK f : IsApplied(f, doc, answer, Len(doc)) /\ Applied(doc, answer) = f[Len(doc)]
  BY <1>0, AnswerIsApplied
<1> DEFINE Good == {n \in 0..Len(doc) : DoneAfter(doc, f[n], Len(doc) - n)}
<1>2. 0 \in Good
  <2>1. f[0] = doc /\ 0 \in 0..Len(doc) /\ Len(doc) - 0 = Len(doc)
    BY <1>0, <1>1 DEF IsApplied
  <2>2. SameWords(doc, doc)
    BY DEF SameWords
  <2>3. ASSUME NEW t \in 0..Len(doc)
        PROVE  BeginsWith(doc, doc, t)
    <3>1. SubSeq(doc, 1, Len(doc)) = doc
      BY SubSeqFull
    <3>2. doc \o <<>> = doc /\ <<>> \in Seq(Block)
      BY ConcatEmptySeq
    <3>3. BeginsWith(doc, doc, Len(doc))
      BY <3>1, <3>2 DEF BeginsWith
    <3>4. Len(doc) \in 0..Len(doc)
      BY <1>0
    <3> QED BY <3>3, <3>4, CutEarlier
  <2>4. DoneAfter(doc, doc, Len(doc))
    BY <2>2, <2>3 DEF DoneAfter
  <2> QED BY <2>1, <2>4
<1>3. ASSUME NEW n \in 1..Len(doc), n - 1 \in Good
      PROVE  n \in Good
  <2> DEFINE i == Len(doc) + 1 - n
  <2>1. /\ i \in 1..Len(doc) /\ i - 1 = Len(doc) - n /\ i = Len(doc) - (n - 1)
        /\ n \in 0..Len(doc) /\ n # 0
    BY <1>0
  <2>2. DoneAfter(doc, f[n - 1], i)
    <3>1. DoneAfter(doc, f[n - 1], Len(doc) - (n - 1))
      BY <1>3
    <3> HIDE DEF i
    <3> QED BY <2>1, <3>1
  <2>3. f[n] = ReplacedAt(doc, answer, i, f[n - 1])
    BY <1>1, <2>1 DEF IsApplied
  <2> HIDE DEF i
  <2>4. DoneAfter(doc, f[n], i - 1)
    BY <2>1, <2>2, <2>3, NextIsDone
  <2>5. DoneAfter(doc, f[n], Len(doc) - n)
    BY <2>1, <2>4
  <2> QED BY <2>1, <2>5
<1>4. \A n \in 0..Len(doc) : n \in Good
  <2> HIDE DEF Good
  <2> QED BY <1>0, <1>2, <1>3, UpTo
<1>5. DoneAfter(doc, f[Len(doc)], Len(doc) - Len(doc))
  BY <1>0, <1>4
<1> QED BY <1>1, <1>5 DEF DoneAfter

-----------------------------------------------------------------------------
\* What the model may answer about a text, what of that the program accepts, and a
\* text mended by it.
MayAnswer(source, answer) ==
  \A s \in editableSegments(source) : answer[s] \in AnswersAbout(SegmentLayout(source, s))
Accepted(source, answer) ==
  /\ MayAnswer(source, answer)
  /\ \A s \in editableSegments(source) : ValidOutput(SegmentLayout(source, s), answer[s])
MendedFrom(v, doc) ==
  \E answer : Accepted(Versions[v], answer) /\ doc = Applied(Versions[v], answer)

\* A text is made from a version that was written, which may be newer than the
\* ETag it goes under.
MadeOf(etag, doc) ==
  /\ etag \in 1..original.newest
  /\ \E v \in etag..original.newest : MendedFrom(v, doc)

\* The file is written before the row and may be restored, but never to what is
\* older than the row.
Originals == [row : Nat, file : Nat, newest : Nat, before : Nat]
FileLeads ==
  /\ original \in Originals
  /\ original.row \in 1..original.file /\ original.file \in 1..original.newest
  /\ original.newest \in 1..Len(Versions)
  /\ original.before # 0 => original.before \in original.row..original.newest

\* Those on a flight have one, it has one leader, and whoever leads has it.
Aboard ==
  /\ \A f, g \in flight : f = g
  /\ \A f \in flight : f.leader \in Callers /\ callers[f.leader] = "leading"
  /\ \A c \in Callers : callers[c] \in {"leading", "waiting"} => flight # {}
  /\ \A c \in Callers : callers[c] = "leading" => \A f \in flight : f.leader = c

\* A flight of the same leader.
Flying(f, at, etag, text, attempt, response) ==
  [leader |-> f.leader, at |-> at, etag |-> etag, text |-> text, attempt |-> attempt,
   response |-> response]

IsFlying(f) == f = Flying(f, f.at, f.etag, f.text, f.attempt, f.response)

\* What the flight has read and made: its text is not older than its ETag.
FlightPlaces == {"load", "body", "ask", "refused", "write", "end"}
FlightMends ==
  \A f \in flight :
    /\ IsFlying(f)
    /\ f.at \in FlightPlaces
    /\ f.at \in {"body", "ask", "refused", "write"} => f.etag \in 1..original.row
    /\ f.at \in {"ask", "refused", "write"} => f.text \in f.etag..original.newest
    /\ f.at = "write" => f.response = Ready(f.etag, f.response.doc)
    /\ f.response.status = "ready" => MadeOf(f.response.etag, f.response.doc)

ProofreadInv ==
  /\ FileLeads /\ callers \in [Callers -> {"idle", "leading", "waiting", "done"}]
  /\ Aboard /\ FlightMends
  /\ \A q, r \in kept : q = r
  /\ \A r \in kept : MadeOf(r.etag, r.doc) /\ r.prompt \in 1..prompt
  /\ served.status = "ready" => MadeOf(served.etag, served.doc)
  /\ prompt \in Nat \ {0} /\ reader = [phase |-> reader.phase, etag |-> reader.etag]
  /\ reader.phase = "reading" => reader.etag \in 1..original.row

\* There is a version.
LEMMA VersionsCounted ==
  /\ Len(Versions) \in Nat /\ Len(Versions) > 0
  /\ \A v \in 1..Len(Versions) : Versions[v] \in Seq(Block)
<1>1. Versions \in Seq(Seq(Block)) /\ Versions # <<>>
  BY ProofreadAssumption
<1> QED BY <1>1, EmptySeq, ElementOfSeq

\* The steps of a flight change some of its fields.
LEMMA FlightsEdited ==
  ASSUME NEW f, IsFlying(f)
  PROVE  /\ \A at : [f EXCEPT !.at = at] = Flying(f, at, f.etag, f.text, f.attempt, f.response)
         /\ \A n : [f EXCEPT !.attempt = n] = Flying(f, f.at, f.etag, f.text, n, f.response)
         /\ \A at, etag : [f EXCEPT !.at = at, !.etag = etag] =
                            Flying(f, at, etag, f.text, f.attempt, f.response)
         /\ \A at, text : [f EXCEPT !.at = at, !.text = text] =
                            Flying(f, at, f.etag, text, f.attempt, f.response)
<1> DEFINE l == f.leader
           a == f.at
           e == f.etag
           x == f.text
           t == f.attempt
           r == f.response
           g == [leader |-> l, at |-> a, etag |-> e, text |-> x, attempt |-> t, response |-> r]
<1>1. f = g
  BY DEF IsFlying, Flying
<1> HIDE DEF l, a, e, x, t, r
<1>2. ASSUME NEW at
      PROVE  [g EXCEPT !.at = at] = [leader |-> l, at |-> at, etag |-> e, text |-> x,
                                     attempt |-> t, response |-> r]
  OBVIOUS
<1>3. ASSUME NEW n
      PROVE  [g EXCEPT !.attempt = n] = [leader |-> l, at |-> a, etag |-> e, text |-> x,
                                         attempt |-> n, response |-> r]
  OBVIOUS
<1>4. ASSUME NEW at, NEW etag, NEW h, h = [g EXCEPT !.at = at, !.etag = etag]
      PROVE  h = [leader |-> l, at |-> at, etag |-> etag, text |-> x, attempt |-> t, response |-> r]
  BY <1>4
<1>5. ASSUME NEW at, NEW text, NEW h, h = [g EXCEPT !.at = at, !.text = text]
      PROVE  h = [leader |-> l, at |-> at, etag |-> e, text |-> text, attempt |-> t, response |-> r]
  BY <1>5
<1> HIDE DEF g
<1>7. \A at : [f EXCEPT !.at = at] = Flying(f, at, f.etag, f.text, f.attempt, f.response)
  BY <1>1, <1>2 DEF Flying, l, e, x, t, r
<1>8. \A n : [f EXCEPT !.attempt = n] = Flying(f, f.at, f.etag, f.text, n, f.response)
  BY <1>1, <1>3 DEF Flying, l, a, e, x, r
<1>9. \A at, etag : [f EXCEPT !.at = at, !.etag = etag] =
                     Flying(f, at, etag, f.text, f.attempt, f.response)
  BY <1>1, <1>4 DEF Flying, l, x, t, r
<1>10. \A at, text : [f EXCEPT !.at = at, !.text = text] =
                      Flying(f, at, f.etag, text, f.attempt, f.response)
  BY <1>1, <1>5 DEF Flying, l, e, t, r
<1> QED BY <1>7, <1>8, <1>9, <1>10

\* So does an answer, or its failure.
LEMMA FlightAnswered ==
  ASSUME NEW f, IsFlying(f)
  PROVE  \A at, response :
           [f EXCEPT !.at = at, !.response = response] =
             Flying(f, at, f.etag, f.text, f.attempt, response)
<1> DEFINE l == f.leader
           a == f.at
           e == f.etag
           x == f.text
           t == f.attempt
           r == f.response
           g == [leader |-> l, at |-> a, etag |-> e, text |-> x, attempt |-> t, response |-> r]
<1>1. f = g
  BY DEF IsFlying, Flying
<1> HIDE DEF l, a, e, x, t, r
<1>2. ASSUME NEW at, NEW response, NEW h, h = [g EXCEPT !.at = at, !.response = response]
      PROVE  h = [leader |-> l, at |-> at, etag |-> e, text |-> x, attempt |-> t,
                  response |-> response]
  BY <1>2
<1> HIDE DEF g
<1>3. ASSUME NEW at, NEW response
      PROVE  [f EXCEPT !.at = at, !.response = response] =
               Flying(f, at, f.etag, f.text, f.attempt, response)
  <2>1. [f EXCEPT !.at = at, !.response = response] =
          [leader |-> l, at |-> at, etag |-> e, text |-> x, attempt |-> t, response |-> response]
    BY <1>1, <1>2
  <2> QED BY <2>1 DEF Flying, l, e, x, t
<1> QED BY <1>3

\* The invariant holds at first.
LEMMA ProofreadStarts == ProofreadInit => ProofreadInv
<1> SUFFICES ASSUME ProofreadInit PROVE ProofreadInv
  OBVIOUS
<1>1. FileLeads
  BY VersionsCounted DEF ProofreadInit, FileLeads, Originals
<1>2. callers \in [Callers -> {"idle", "leading", "waiting", "done"}] /\ Aboard /\ FlightMends
  BY DEF ProofreadInit, Aboard, FlightMends
<1> QED BY <1>1, <1>2 DEF ProofreadInit, ProofreadInv, NoReader, NoResponse

\* What was made from versions that were written stays so, as long as neither
\* the row nor the newest version goes back.
LEMMA OriginalKeeps ==
  ASSUME ProofreadInv, FileLeads', UNCHANGED <<prompt, kept, flight, callers, reader, served>>,
         original.row <= original'.row, original.newest <= original'.newest
  PROVE  ProofreadInv'
<1>1. /\ {original.row, original.newest, original'.row, original'.newest} \subseteq Nat
  BY DEF ProofreadInv, FileLeads, Originals
<1>2. /\ \A i \in 1..original.row : i \in 1..original'.row
      /\ \A i \in 1..original.newest : i \in 1..original'.newest
      /\ \A i, j \in Int : j \in i..original.newest => j \in i..original'.newest
  BY <1>1
<1>3. ASSUME NEW etag, NEW doc, MadeOf(etag, doc) PROVE MadeOf(etag, doc)'
  <2>1. etag \in 1..original.newest /\ \E v \in etag..original.newest : MendedFrom(v, doc)
    BY <1>3 DEF MadeOf
  <2>2. PICK v \in etag..original.newest : MendedFrom(v, doc)
    BY <2>1
  <2>3. etag \in 1..original'.newest /\ v \in etag..original'.newest
    BY <1>1, <2>1, <2>2
  <2> QED BY <2>2, <2>3 DEF MadeOf, MendedFrom, Accepted, MayAnswer
<1>4. Aboard'
  BY DEF ProofreadInv, Aboard
<1>5. FlightMends'
  <2> SUFFICES ASSUME NEW f \in flight
               PROVE  /\ f.at \in {"body", "ask", "refused", "write"} => f.etag \in 1..original'.row
                      /\ f.at \in {"ask", "refused", "write"} => f.text \in f.etag..original'.newest
                      /\ f.response.status = "ready" => MadeOf(f.response.etag, f.response.doc)'
    BY DEF ProofreadInv, FlightMends
  <2>1. /\ f.at \in {"body", "ask", "refused", "write"} => f.etag \in 1..original.row
        /\ f.at \in {"ask", "refused", "write"} => f.text \in f.etag..original.newest
        /\ f.response.status = "ready" => MadeOf(f.response.etag, f.response.doc)
    BY DEF ProofreadInv, FlightMends
  <2>2. f.at \in {"body", "ask", "refused", "write"} => f.etag \in 1..original'.row
    BY <1>2, <2>1
  <2>3. f.at \in {"ask", "refused", "write"} => f.text \in f.etag..original'.newest
    BY <1>1, <2>1
  <2> QED BY <1>3, <2>1, <2>2, <2>3
<1>6. \A r \in kept' : MadeOf(r.etag, r.doc)' /\ r.prompt \in 1..prompt'
  BY <1>3 DEF ProofreadInv
<1>7. served'.status = "ready" => MadeOf(served.etag, served.doc)'
  BY <1>3 DEF ProofreadInv
<1>8. reader'.phase = "reading" => reader'.etag \in 1..original'.row
  BY <1>2 DEF ProofreadInv
<1> QED BY <1>4, <1>5, <1>6, <1>7, <1>8 DEF ProofreadInv

AnOriginal(row, file, newest, before) ==
  [row |-> row, file |-> file, newest |-> newest, before |-> before]

\* A save goes on to a version that is at least as new, and back to one that is
\* not older than the row.
LEMMA ReviseKeeps ==
  ASSUME ProofreadInv, ReviseFile \/ ReviseRow \/ ReviseStops
  PROVE  ProofreadInv'
<1> DEFINE o == original
<1>1. /\ o \in Originals /\ o.row \in 1..o.file /\ o.file \in 1..o.newest
      /\ o.newest \in 1..Len(Versions)
      /\ o.before # 0 => o.before \in o.row..o.newest
      /\ Len(Versions) \in Nat
  BY VersionsCounted DEF ProofreadInv, FileLeads
<1>2. /\ UNCHANGED <<prompt, kept, flight, callers, reader, served>>
      /\ \/ \E v \in {o.newest, o.newest + 1} \cap DOMAIN Versions :
              o' = [o EXCEPT !.file = v, !.newest = v, !.before = o.file]
         \/ o.before # 0 /\ o' = [o EXCEPT !.row = o.file, !.before = 0]
         \/ o.before # 0 /\ o' = [o EXCEPT !.file = o.before, !.before = 0]
         \/ o' = [o EXCEPT !.before = 0]
  BY DEF ReviseFile, ReviseRow, ReviseStops
<1>3. \/ \E v \in {o.newest, o.newest + 1} \cap DOMAIN Versions : o' = AnOriginal(o.row, v, v, o.file)
      \/ o' = AnOriginal(o.file, o.file, o.newest, 0)
      \/ o.before # 0 /\ o' = AnOriginal(o.row, o.before, o.newest, 0)
      \/ o' = AnOriginal(o.row, o.file, o.newest, 0)
  BY <1>1, <1>2 DEF Originals, AnOriginal
<1>4. DOMAIN Versions = 1..Len(Versions)
  BY ProofreadAssumption
<1>5. ASSUME NEW row \in Nat, NEW file \in Nat, NEW newest \in Nat, NEW before \in Nat,
             o' = AnOriginal(row, file, newest, before), row \in 1..file, file \in 1..newest,
             newest \in 1..Len(Versions), before # 0 => before \in row..newest
      PROVE  FileLeads' /\ o'.row = row /\ o'.newest = newest
  <2>1. /\ o'.row = row /\ o'.file = file /\ o'.newest = newest /\ o'.before = before
        /\ o' \in Originals
    BY <1>5 DEF Originals, AnOriginal
  <2> QED BY <1>5, <2>1 DEF FileLeads
<1>6. o.row \in Nat /\ o.file \in Nat /\ o.newest \in Nat /\ o.before \in Nat /\ 0 \in Nat
  BY <1>1 DEF Originals
<1>7. FileLeads' /\ o.row <= o'.row /\ o.newest <= o'.newest
  <2>1. ASSUME NEW v \in {o.newest, o.newest + 1} \cap DOMAIN Versions,
               o' = AnOriginal(o.row, v, v, o.file)
        PROVE  FileLeads' /\ o.row <= o'.row /\ o.newest <= o'.newest
    <3>1. /\ v \in Nat /\ o.newest <= v /\ o.row \in 1..v /\ v \in 1..v
          /\ v \in 1..Len(Versions) /\ o.file \in o.row..v
      BY <1>1, <1>4, <1>6, <2>1
    <3> QED BY <1>5, <1>6, <2>1, <3>1
  <2>2. CASE o' = AnOriginal(o.file, o.file, o.newest, 0)
    <3>1. o.file \in 1..o.file /\ o.row <= o.file /\ o.newest <= o.newest
      BY <1>1, <1>6
    <3> QED BY <1>1, <1>5, <1>6, <2>2, <3>1
  <2>3. CASE o.before # 0 /\ o' = AnOriginal(o.row, o.before, o.newest, 0)
    <3>1. o.row \in 1..o.before /\ o.before \in 1..o.newest
          /\ o.row <= o.row /\ o.newest <= o.newest
      BY <1>1, <1>6, <2>3
    <3> QED BY <1>1, <1>5, <1>6, <2>3, <3>1
  <2>4. CASE o' = AnOriginal(o.row, o.file, o.newest, 0)
    <3>1. o.row <= o.row /\ o.newest <= o.newest
      BY <1>6
    <3> QED BY <1>1, <1>5, <1>6, <2>4, <3>1
  <2> QED BY <1>3, <2>1, <2>2, <2>3, <2>4
<1> QED BY <1>2, <1>7, OriginalKeeps

\* Whatever leaves the original, the prompt, the file and the responses alone,
\* and changes a flight into one that mends, keeps the invariant.
LEMMA FlightKeeps ==
  ASSUME ProofreadInv, UNCHANGED <<original, prompt, kept, reader, served>>,
         callers' \in [Callers -> {"idle", "leading", "waiting", "done"}], Aboard', FlightMends'
  PROVE  ProofreadInv'
BY DEF ProofreadInv, FileLeads, MadeOf

\* A flight goes on with its leader, over what it has read and made.
LEMMA FlightGoesOn ==
  ASSUME ProofreadInv, NEW f \in flight, NEW at \in FlightPlaces, NEW etag, NEW text, NEW attempt,
         NEW response, flight' = {Flying(f, at, etag, text, attempt, response)},
         UNCHANGED <<original, prompt, kept, callers, reader, served>>,
         at \in {"body", "ask", "refused", "write"} => etag \in 1..original.row,
         at \in {"ask", "refused", "write"} => text \in etag..original.newest,
         at = "write" => response = Ready(etag, response.doc),
         response.status = "ready" => MadeOf(response.etag, response.doc)
  PROVE  ProofreadInv'
<1>1. Aboard' /\ callers' \in [Callers -> {"idle", "leading", "waiting", "done"}]
  BY DEF ProofreadInv, Aboard, Flying
<1>2. FlightMends'
  BY DEF FlightMends, IsFlying, Flying, MadeOf
<1> QED BY <1>1, <1>2, FlightKeeps

\* What the invariant says of the flight.
LEMMA FlightIs ==
  ASSUME ProofreadInv, NEW f \in flight
  PROVE  /\ IsFlying(f)
         /\ f.at \in FlightPlaces
         /\ f.at \in {"body", "ask", "refused", "write"} => f.etag \in 1..original.row
         /\ f.at \in {"ask", "refused", "write"} => f.text \in f.etag..original.newest
         /\ f.at = "write" => f.response = Ready(f.etag, f.response.doc)
         /\ f.response.status = "ready" => MadeOf(f.response.etag, f.response.doc)
BY DEF ProofreadInv, FlightMends

\* A caller leads a new flight or joins the one there is.
LEMMA GenerateKeeps ==
  ASSUME ProofreadInv, NEW c \in Callers, Generate(c)
  PROVE  ProofreadInv'
<1>1. /\ UNCHANGED <<original, prompt, kept, reader, served>> /\ callers[c] = "idle"
      /\ callers' = [callers EXCEPT ![c] = IF flight = {} THEN "leading" ELSE "waiting"]
      /\ flight' = IF flight # {} THEN flight
               ELSE {[leader |-> c, at |-> "load", etag |-> 0, text |-> 0, attempt |-> 0,
                      response |-> NoResponse]}
  BY DEF Generate
<1>2. callers \in [Callers -> {"idle", "leading", "waiting", "done"}] /\ Aboard /\ FlightMends
  BY DEF ProofreadInv
<1>3. callers' \in [Callers -> {"idle", "leading", "waiting", "done"}] /\ Aboard' /\ FlightMends'
  <2>1. CASE flight = {}
    <3> DEFINE g == [leader |-> c, at |-> "load", etag |-> 0, text |-> 0, attempt |-> 0, response |-> NoResponse]
    <3>1. /\ IsFlying(g)
          /\ g.leader = c /\ g.at = "load" /\ g.response.status = "none"
      BY DEF IsFlying, Flying, NoResponse
    <3>2. flight' = {g} /\ callers' = [callers EXCEPT ![c] = "leading"]
      BY <1>1, <2>1
    <3> HIDE DEF g
    <3>3. FlightMends'
      BY <3>1, <3>2 DEF FlightMends, FlightPlaces
    <3> QED BY <1>2, <2>1, <3>1, <3>2, <3>3 DEF Aboard
  <2>2. CASE flight # {}
    BY <1>1, <1>2, <2>2 DEF Aboard, FlightMends, MadeOf
  <2> QED BY <2>1, <2>2
<1> QED BY <1>1, <1>3, FlightKeeps

\* One who waits may leave; the flight goes on.
LEMMA LeaveKeeps ==
  ASSUME ProofreadInv, NEW c \in Callers, LeaveFlight(c)
  PROVE  ProofreadInv'
<1>1. /\ UNCHANGED <<original, prompt, kept, flight, reader, served>> /\ callers[c] = "waiting"
      /\ callers' = [callers EXCEPT ![c] = "done"]
  BY DEF LeaveFlight
<1>2. callers' \in [Callers -> {"idle", "leading", "waiting", "done"}] /\ Aboard' /\ FlightMends'
  BY <1>1 DEF ProofreadInv, Aboard, FlightMends, MadeOf
<1> QED BY <1>1, <1>2, FlightKeeps

\* A generation that is given up has no answer.
LEMMA GivenUpKeeps ==
  ASSUME ProofreadInv, NEW f \in flight, GiveUp(f),
         UNCHANGED <<original, prompt, kept, callers, reader, served>>
  PROVE  ProofreadInv'
<1>1. IsFlying(f)
  BY FlightIs
<1>2. [f EXCEPT !.at = "end", !.response = Failed] =
        Flying(f, "end", f.etag, f.text, f.attempt, Failed)
  BY <1>1, FlightAnswered
<1>3. flight' = {Flying(f, "end", f.etag, f.text, f.attempt, Failed)}
  BY <1>2 DEF GiveUp
<1> QED BY <1>3, FlightGoesOn DEF Failed, FlightPlaces

\* The ETag that is loaded is the one of the row, and the text that is loaded
\* then is not older.
LEMMA LoadKeeps ==
  ASSUME ProofreadInv, LoadEtag \/ LoadText
  PROVE  ProofreadInv'
<1>1. PICK f \in flight :
        /\ \/ flight' = {[f EXCEPT !.at = "body", !.etag = original.row]}
           \/ f.at = "body" /\ flight' = {[f EXCEPT !.at = "ask", !.text = original.file]}
           \/ GiveUp(f)
        /\ UNCHANGED <<original, prompt, kept, callers, reader, served>>
  BY DEF LoadEtag, LoadText
<1>2. /\ original.row \in 1..original.row /\ original.row \in 1..original.file
      /\ original.file \in 1..original.newest
      /\ {original.row, original.file, original.newest} \subseteq Nat
  BY DEF ProofreadInv, FileLeads, Originals
<1>3. /\ IsFlying(f)
      /\ f.at = "body" => f.etag \in 1..original.row
      /\ f.response.status = "ready" => MadeOf(f.response.etag, f.response.doc)
  BY FlightIs
<1>4. CASE flight' = {[f EXCEPT !.at = "body", !.etag = original.row]}
  <2>1. flight' = {Flying(f, "body", original.row, f.text, f.attempt, f.response)}
    BY <1>3, <1>4, FlightsEdited
  <2> QED BY <1>1, <1>2, <1>3, <2>1, FlightGoesOn DEF FlightPlaces
<1>5. CASE f.at = "body" /\ flight' = {[f EXCEPT !.at = "ask", !.text = original.file]}
  <2>1. flight' = {Flying(f, "ask", f.etag, original.file, f.attempt, f.response)}
    BY <1>3, <1>5, FlightsEdited
  <2>2. f.etag \in 1..original.row /\ original.file \in f.etag..original.newest
    BY <1>2, <1>3, <1>5
  <2> QED BY <1>1, <1>3, <2>1, <2>2, FlightGoesOn DEF FlightPlaces
<1>6. CASE GiveUp(f)
  BY <1>1, <1>6, GivenUpKeeps
<1> QED BY <1>1, <1>4, <1>5, <1>6

\* An accepted answer mends the version that was sent.
LEMMA AnswerKeeps ==
  ASSUME ProofreadInv, Answer
  PROVE  ProofreadInv'
<1>1. PICK f \in flight :
        /\ f.at = "ask" /\ UNCHANGED <<original, prompt, kept, callers, reader, served>>
        /\ \E answer : MayAnswer(Versions[f.text], answer) /\
             flight' = {IF \A s \in editableSegments(Versions[f.text]) :
                             ValidOutput(SegmentLayout(Versions[f.text], s), answer[s])
                          THEN [f EXCEPT !.at = "write", !.response = Ready(f.etag, Applied(Versions[f.text], answer))]
                        ELSE IF f.attempt = 0 THEN [f EXCEPT !.attempt = 1]
                        ELSE [f EXCEPT !.at = "refused"]}
  BY DEF Answer, MayAnswer
<1>2. PICK answer :
        flight' = {IF Accepted(Versions[f.text], answer)
                     THEN [f EXCEPT !.at = "write", !.response = Ready(f.etag, Applied(Versions[f.text], answer))]
                   ELSE IF f.attempt = 0 THEN [f EXCEPT !.attempt = 1]
                   ELSE [f EXCEPT !.at = "refused"]}
  BY <1>1 DEF Accepted
<1>3. /\ IsFlying(f) /\ f.etag \in 1..original.row /\ f.text \in f.etag..original.newest
      /\ f.response.status = "ready" => MadeOf(f.response.etag, f.response.doc)
  BY <1>1, FlightIs
<1>4. CASE Accepted(Versions[f.text], answer)
  <2> DEFINE response == Ready(f.etag, Applied(Versions[f.text], answer))
  <2>1. response = Ready(f.etag, response.doc) /\ MadeOf(response.etag, response.doc)
    <3>1. MendedFrom(f.text, Applied(Versions[f.text], answer))
      BY <1>4 DEF MendedFrom
    <3>2. f.etag \in 1..original.newest
      BY <1>3 DEF ProofreadInv, FileLeads, Originals
    <3> QED BY <1>3, <3>1, <3>2 DEF Ready, MadeOf
  <2>2. flight' = {[f EXCEPT !.at = "write", !.response = response]}
    BY <1>2, <1>4
  <2> HIDE DEF response
  <2>3. [f EXCEPT !.at = "write", !.response = response] = Flying(f, "write", f.etag, f.text, f.attempt, response)
    BY <1>3, FlightAnswered
  <2>4. flight' = {Flying(f, "write", f.etag, f.text, f.attempt, response)}
    BY <2>2, <2>3
  <2> QED BY <1>1, <1>3, <2>1, <2>4, FlightGoesOn DEF FlightPlaces
<1>5. CASE ~Accepted(Versions[f.text], answer) /\ f.attempt = 0
  <2>1. flight' = {Flying(f, "ask", f.etag, f.text, 1, f.response)}
    BY <1>1, <1>2, <1>3, <1>5, FlightsEdited
  <2> QED BY <1>1, <1>3, <2>1, FlightGoesOn DEF FlightPlaces
<1>6. CASE ~Accepted(Versions[f.text], answer) /\ f.attempt # 0
  <2>1. flight' = {Flying(f, "refused", f.etag, f.text, f.attempt, f.response)}
    BY <1>2, <1>3, <1>6, FlightsEdited
  <2> QED BY <1>1, <1>3, <2>1, FlightGoesOn DEF FlightPlaces
<1> QED BY <1>4, <1>5, <1>6

\* What is stored was made from a version not older than the ETag it is stored
\* under, whatever was revised since.
LEMMA WriteKeeps ==
  ASSUME ProofreadInv, Write
  PROVE  ProofreadInv'
<1>1. PICK f \in flight :
        /\ f.at = "write" /\ UNCHANGED <<original, prompt, callers, reader, served>>
        /\ kept' = {[etag |-> f.etag, prompt |-> prompt, doc |-> f.response.doc]}
        /\ flight' = {[f EXCEPT !.at = "end"]}
  BY DEF Write
<1>2. /\ IsFlying(f)
      /\ f.response = Ready(f.etag, f.response.doc)
      /\ f.response.status = "ready" => MadeOf(f.response.etag, f.response.doc)
  BY <1>1, FlightIs
<1>3. f.response.status = "ready" /\ f.response.etag = f.etag
  BY <1>2 DEF Ready
<1>4. MadeOf(f.etag, f.response.doc) /\ prompt \in 1..prompt
  BY <1>2, <1>3 DEF ProofreadInv
<1>5. flight' = {Flying(f, "end", f.etag, f.text, f.attempt, f.response)}
  BY <1>1, <1>2, FlightsEdited
<1>6. Aboard'
  BY <1>1, <1>5 DEF ProofreadInv, Aboard, Flying
<1>7. FlightMends'
  BY <1>1, <1>2, <1>5 DEF FlightMends, IsFlying, Flying, MadeOf, FlightPlaces
<1>8. \A q, r \in kept' : q = r
  BY <1>1
<1>9. \A r \in kept' : MadeOf(r.etag, r.doc)' /\ r.prompt \in 1..prompt'
  BY <1>1, <1>4 DEF MadeOf
<1> QED BY <1>1, <1>6, <1>7, <1>8, <1>9 DEF ProofreadInv, FileLeads, MadeOf

\* All on the flight get its response and leave it.
LEMMA LandKeeps ==
  ASSUME ProofreadInv, Land
  PROVE  ProofreadInv'
<1>1. PICK f \in flight :
        /\ f.at = "end" /\ flight' = {} /\ served' = f.response /\ UNCHANGED <<original, prompt, kept, reader>>
        /\ callers' = [c \in Callers |-> IF callers[c] \in {"leading", "waiting"} THEN "done" ELSE callers[c]]
  BY DEF Land
<1>2. /\ callers' \in [Callers -> {"idle", "leading", "waiting", "done"}]
      /\ \A c \in Callers : callers'[c] \notin {"leading", "waiting"}
  BY <1>1 DEF ProofreadInv
<1>3. Aboard' /\ FlightMends'
  BY <1>1, <1>2 DEF Aboard, FlightMends
<1>4. served'.status = "ready" => MadeOf(f.response.etag, f.response.doc)
  BY <1>1 DEF ProofreadInv, FlightMends
<1> QED BY <1>1, <1>2, <1>3, <1>4 DEF ProofreadInv, FileLeads, MadeOf

\* A stored result is served only under the ETag that was loaded.
LEMMA GetResultKeeps ==
  ASSUME ProofreadInv, GetResult
  PROVE  ProofreadInv'
<1>1. /\ reader' = NoReader /\ UNCHANGED <<original, prompt, kept, flight, callers>>
      /\ served' = IF \E r \in kept : Fits(r) THEN CHOOSE q \in {Ready(reader.etag, r.doc) : r \in kept} : TRUE
                   ELSE NotGenerated(reader.etag)
  BY DEF GetResult
<1>2. served'.status = "ready" => MadeOf(served'.etag, served'.doc)
  <2>1. CASE \E r \in kept : Fits(r)
    <3>1. PICK r \in kept : r.etag = reader.etag /\ MadeOf(r.etag, r.doc)
      BY <2>1 DEF ProofreadInv, Fits
    <3>2. {Ready(reader.etag, q.doc) : q \in kept} = {Ready(r.etag, r.doc)}
      BY <3>1 DEF ProofreadInv
    <3>3. (CHOOSE q \in {Ready(reader.etag, q.doc) : q \in kept} : TRUE) \in {Ready(reader.etag, q.doc) : q \in kept}
      BY <3>2
    <3>4. served' = Ready(r.etag, r.doc)
      BY <1>1, <2>1, <3>2, <3>3
    <3>5. served'.etag = r.etag /\ served'.doc = r.doc
      BY <3>1, <3>4 DEF Ready
    <3> QED BY <3>1, <3>5
  <2>2. CASE ~ \E r \in kept : Fits(r)
    BY <1>1, <2>2 DEF NotGenerated
  <2> QED BY <2>1, <2>2
<1>3. Aboard' /\ FlightMends'
  BY <1>1 DEF ProofreadInv, Aboard, FlightMends, MadeOf
<1> QED BY <1>1, <1>2, <1>3 DEF ProofreadInv, FileLeads, MadeOf, NoReader

\* A reader loads the ETag of the row.
LEMMA GetEpisodeKeeps ==
  ASSUME ProofreadInv, GetEpisode
  PROVE  ProofreadInv'
<1>1. /\ reader' = [reader EXCEPT !.phase = "reading", !.etag = original.row]
      /\ UNCHANGED <<original, prompt, kept, flight, callers, served>>
  BY DEF GetEpisode
<1>2. /\ reader' = [phase |-> "reading", etag |-> original.row] /\ original.row \in 1..original.row
  <2> DEFINE p == reader.phase
             e == reader.etag
             r == [phase |-> p, etag |-> e]
  <2>1. reader = r /\ original.row \in 1..original.row
    BY DEF ProofreadInv, FileLeads, Originals
  <2> HIDE DEF p, e
  <2>2. ASSUME NEW h, h = [r EXCEPT !.phase = "reading", !.etag = original.row]
        PROVE  h = [phase |-> "reading", etag |-> original.row]
    BY <2>2
  <2> HIDE DEF r
  <2> QED BY <1>1, <2>1, <2>2
<1>3. Aboard' /\ FlightMends'
  BY <1>1 DEF ProofreadInv, Aboard, FlightMends, MadeOf
<1> QED BY <1>1, <1>2, <1>3 DEF ProofreadInv, FileLeads, MadeOf

\* A result may be deleted at any time.
LEMMA DeleteKeeps ==
  ASSUME ProofreadInv, Delete
  PROVE  ProofreadInv'
<1>1. kept' = {} /\ UNCHANGED <<original, prompt, flight, callers, reader, served>>
  BY DEF Delete
<1>2. Aboard' /\ FlightMends'
  BY <1>1 DEF ProofreadInv, Aboard, FlightMends, MadeOf
<1> QED BY <1>1, <1>2 DEF ProofreadInv, FileLeads, MadeOf

\* A newer program has no flight, and what is stored is of an older prompt.
LEMMA UpgradeKeeps ==
  ASSUME ProofreadInv, Upgrade
  PROVE  ProofreadInv'
<1>1. /\ prompt' = prompt + 1 /\ flight' = {} /\ reader' = NoReader /\ UNCHANGED <<original, kept, served>>
      /\ callers' = [c \in Callers |-> IF callers[c] \in {"idle", "done"} THEN callers[c] ELSE "done"]
  BY DEF Upgrade
<1>2. /\ callers' \in [Callers -> {"idle", "leading", "waiting", "done"}]
      /\ \A c \in Callers : callers'[c] \notin {"leading", "waiting"}
  BY <1>1 DEF ProofreadInv
<1>3. Aboard' /\ FlightMends'
  BY <1>1, <1>2 DEF Aboard, FlightMends
<1>4. prompt' \in Nat \ {0} /\ \A r \in kept : MadeOf(r.etag, r.doc) /\ r.prompt \in 1..prompt'
  BY <1>1 DEF ProofreadInv
<1> QED BY <1>1, <1>2, <1>3, <1>4 DEF ProofreadInv, FileLeads, MadeOf, NoReader

\* Every action keeps the invariant.
LEMMA ProofreadIsKept ==
  ASSUME ProofreadInv, [ProofreadNext]_proofread
  PROVE  ProofreadInv'
<1>1. CASE ReviseFile \/ ReviseRow \/ ReviseStops
  BY <1>1, ReviseKeeps
<1>2. CASE LoadEtag \/ LoadText
  BY <1>2, LoadKeeps
<1>3. CASE AskFails \/ Refuse \/ WriteFails
  BY <1>3, GivenUpKeeps DEF AskFails, Refuse, WriteFails
<1>4. CASE Answer
  BY <1>4, AnswerKeeps
<1>5. CASE Write
  BY <1>5, WriteKeeps
<1>6. CASE Land
  BY <1>6, LandKeeps
<1>7. CASE GetEpisode
  BY <1>7, GetEpisodeKeeps
<1>8. CASE GetResult
  BY <1>8, GetResultKeeps
<1>9. CASE Delete
  BY <1>9, DeleteKeeps
<1>10. CASE Upgrade
  BY <1>10, UpgradeKeeps
<1>11. ASSUME NEW c \in Callers, Generate(c) \/ LeaveFlight(c) PROVE ProofreadInv'
  BY <1>11, GenerateKeeps, LeaveKeeps
<1>12. CASE UNCHANGED proofread
  <2>1. UNCHANGED <<original, prompt, kept, flight, callers, reader, served>>
    BY <1>12 DEF proofread
  <2> QED BY <2>1 DEF ProofreadInv, FileLeads, Aboard, FlightMends, MadeOf
<1> QED
  BY <1>1, <1>2, <1>3, <1>4, <1>5, <1>6, <1>7, <1>8, <1>9, <1>10, <1>11, <1>12 DEF ProofreadNext

\* Requests of one episode share one flight, which one of them leads; whatever is
\* stored, on its way or served as ready was made, by an answer that was accepted,
\* from one version of the episode that is not older than its ETag, for the file of
\* the library is never older than its row (service.go, Get and generateOnce).
THEOREM ProofreadSafe == ProofreadSpec => []ProofreadInv
<1> QED
  BY ProofreadStarts, ProofreadIsKept, PTL DEF ProofreadSpec

\* Whatever is served as ready says what one version says, not older than the ETag
\* it carries: the same signs under the same sections, the same breaks at the ends
\* of sentences, and no indented paragraph joined to another, for every text, every
\* answer of the model, every order of the requests and every save that comes
\* between them (service.go, Get, generateOnce and applyOutput).
THEOREM ServedIsTheSame == ProofreadSpec => []ServedSaysTheSame
<1>1. ASSUME NEW v \in 1..Len(Versions), NEW doc, MendedFrom(v, doc)
      PROVE  SameWords(Versions[v], doc)
  <2>1. PICK answer : Accepted(Versions[v], answer) /\ doc = Applied(Versions[v], answer)
    BY <1>1 DEF MendedFrom
  <2>2. Versions[v] \in Seq(Block)
    BY VersionsCounted
  <2> QED BY <2>1, <2>2, AppliedSaysTheSame DEF Accepted, MayAnswer
<1>2. ProofreadInv => ServedSaysTheSame
  <2> SUFFICES ASSUME ProofreadInv, served.status = "ready"
               PROVE  \E v \in served.etag..original.newest : SameWords(Versions[v], served.doc)
    BY DEF ServedSaysTheSame
  <2>1. /\ served.etag \in 1..original.newest /\ original.newest \in 1..Len(Versions)
        /\ \E v \in served.etag..original.newest : MendedFrom(v, served.doc)
    BY DEF ProofreadInv, MadeOf, FileLeads
  <2>2. PICK v \in served.etag..original.newest : MendedFrom(v, served.doc)
    BY <2>1
  <2>3. v \in 1..Len(Versions)
    BY <2>1, <2>2, VersionsCounted
  <2> QED BY <1>1, <2>2, <2>3
<1> QED
  BY <1>2, ProofreadSafe, PTL

=============================================================================
