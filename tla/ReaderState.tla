----------------------------- MODULE ReaderState -----------------------------
(***************************************************************************)
(* The per-novel state of viewer-api: reading positions with their version *)
(* and tombstone, bookmarks, reader settings, the import of an export, and *)
(* the removal of novels, which asks novel-fetcher and then cleans up the  *)
(* other stores one after the other. Browser tabs save their position with *)
(* the version they know; an answer may be lost while the server still     *)
(* works on the request.                                                   *)
(*                                                                         *)
(* Handlers look the novel up first and take the store's mutex afterwards, *)
(* so a request is two steps: Admit and the write.                         *)
(***************************************************************************)
EXTENDS Integers, FiniteSets

CONSTANTS
  Novels,     \* novel ids
  Tabs,       \* browser tabs, each open on one novel
  OpenOn,     \* [Tabs -> Novels]
  Places,     \* reading positions
  NoPlace,    \* no position saved
  NoTab,      \* no client id
  MaxVersion, \* bound: versions of one reading position
  MaxMarks,   \* bound: equal bookmarks of a novel
  MaxInFlight \* bound: requests on their way to the state, the removal apart

ASSUME ReaderAssumption ==
  /\ OpenOn \in [Tabs -> Novels]
  /\ NoPlace \notin Places
  /\ NoTab \notin Tabs
  /\ MaxVersion \in Nat
  /\ MaxMarks \in Nat
  /\ MaxInFlight \in Nat

VARIABLES
  works,     \* novels in the library of novel-fetcher
  reading,   \* [Novels -> [version, place, by, gone]]
  marks,     \* [Novels -> 0..MaxMarks]: bookmarks at one position of the novel
  tuned,     \* novels with reader settings of their own
  fenced,    \* a document has a version this build does not know
  admitted,  \* <<write, novel>>: requests past the check that the novel exists
  tab,       \* [Tabs -> what the tab knows, and the save it waits for]
  adrift,    \* saves the server still works on although nobody waits
  removal,   \* the removal request, or Idle
  cleaned    \* history: novels cleaned up since they were last added or imported

reader == <<works, reading, marks, tuned, fenced, admitted, tab, adrift, removal,
            cleaned>>
files == <<reading, marks, tuned>>

NoRecord == [version |-> 0, place |-> NoPlace, by |-> NoTab, gone |-> FALSE]
Record == [version : 0..MaxVersion, place : Places \cup {NoPlace},
           by : Tabs \cup {NoTab}, gone : BOOLEAN]
NoSave == [stage |-> "none", place |-> NoPlace, expects |-> 0, answer |-> NoRecord]
Idle == [stage |-> "idle", todo |-> {}]

ReaderInit ==
  /\ works \in {Novels, {}}
  /\ reading = [n \in Novels |-> NoRecord]
  /\ marks = [n \in Novels |-> 0]
  /\ tuned = {}
  /\ fenced \in BOOLEAN
  /\ admitted = {}
  /\ tab = [t \in Tabs |-> [knows |-> 0, here |-> NoPlace, conflict |-> NoRecord,
                            blocked |-> FALSE, save |-> NoSave]]
  /\ adrift = {}
  /\ removal = Idle
  /\ cleaned = {}

-----------------------------------------------------------------------------
(* The repository of reading positions *)

\* Requests under way, for the bound.
InFlight == Cardinality(admitted) + Cardinality({t \in Tabs : tab[t].save # NoSave})
              + Cardinality(adrift)

\* What a reader is told: a tombstone is a version without a position.
Shown(n) == [reading[n] EXCEPT !.gone = FALSE]

\* Put without a condition on the version, as the import does.
Put(rec, p, t) == [version |-> rec.version + 1, place |-> p, by |-> t, gone |-> FALSE]

\* Prune keeps the version growing and only the tombstone.
Tombstone(rec) == [version |-> rec.version + 1, place |-> NoPlace, by |-> NoTab, gone |-> TRUE]

Saved(n, t, s) == reading' = [reading EXCEPT ![n] = Put(@, s.place, t)]

\* The version is not compared.
Current_Any(n, s) == TRUE

Current(n, s) == reading[n].version = s.expects

-----------------------------------------------------------------------------
(* Tabs: useReaderStateSync *)

\* An acknowledged state is adopted unless it is older than the one known; it
\* ends the conflict unless the conflict is about a newer one.
Accept(t, rec) ==
  IF rec.version < tab[t].knows
  THEN [tab[t] EXCEPT !.save = NoSave]
  ELSE IF tab[t].conflict # NoRecord /\ rec.version < tab[t].conflict.version
       THEN [tab[t] EXCEPT !.knows = rec.version, !.blocked = TRUE, !.save = NoSave]
       ELSE [tab[t] EXCEPT !.knows = rec.version, !.blocked = FALSE,
                           !.conflict = NoRecord, !.save = NoSave]

\* Another state stops the saves of the tab until its user decides.
Conflict(t, rec) ==
  [tab[t] EXCEPT !.blocked = TRUE, !.save = NoSave,
                 !.conflict = IF rec.version > @.version THEN [rec EXCEPT !.by = NoTab] ELSE @]

\* The tab opens the novel, or gets the focus and asks for the position.
Sync(t) ==
  LET rec == Shown(OpenOn[t]) IN
  /\ rec.version > tab[t].knows
  /\ tab' = [tab EXCEPT ![t] =
       IF tab[t].here = NoPlace
       THEN [Accept(t, rec) EXCEPT !.here = rec.place, !.save = tab[t].save]
       ELSE IF rec.by # t /\ rec.place # tab[t].here
       THEN [Conflict(t, rec) EXCEPT !.save = tab[t].save]
       ELSE [Accept(t, rec) EXCEPT !.save = tab[t].save]]
  /\ UNCHANGED <<works, files, fenced, admitted, adrift, removal, cleaned>>

\* The reader turns to p and the tab saves it; one save at a time.
Save(t, p) ==
  /\ tab[t].save = NoSave
  /\ InFlight < MaxInFlight
  /\ ~tab[t].blocked
  /\ tab' = [tab EXCEPT ![t].here = p,
                        ![t].save = [NoSave EXCEPT !.stage = "sent", !.place = p,
                                                   !.expects = tab[t].knows]]
  /\ UNCHANGED <<works, files, fenced, admitted, adrift, removal, cleaned>>

\* The user keeps this tab's position against the conflicting one.
Overwrite(t) ==
  /\ tab[t].conflict # NoRecord
  /\ tab[t].here # NoPlace
  /\ tab[t].save = NoSave
  /\ InFlight < MaxInFlight
  /\ tab' = [tab EXCEPT ![t].save = [NoSave EXCEPT !.stage = "sent", !.place = tab[t].here,
                                       !.expects = tab[t].conflict.version]]
  /\ UNCHANGED <<works, files, fenced, admitted, adrift, removal, cleaned>>

\* The user takes the conflicting position.
Apply(t) ==
  LET rec == tab[t].conflict IN
  /\ rec # NoRecord
  /\ tab[t].save = NoSave
  /\ tab' = [tab EXCEPT ![t] = [Accept(t, rec) EXCEPT !.here = rec.place]]
  /\ UNCHANGED <<works, files, fenced, admitted, adrift, removal, cleaned>>

\* The request fails for the tab: it may have been lost, or the server may
\* still be at it.
GiveUp(t) ==
  LET s == tab[t].save IN
  /\ s # NoSave
  /\ adrift' \in {adrift} \cup
       (IF s.stage \in {"sent", "admitted"} /\ adrift = {}
        THEN {{[tab |-> t, save |-> s]}} ELSE {})
  /\ tab' = [tab EXCEPT ![t].save = NoSave]
  /\ UNCHANGED <<works, files, fenced, admitted, removal, cleaned>>

\* The page is loaded again; what it sent goes on.
Reload(t) ==
  /\ tab[t].save = NoSave
  /\ tab' = [tab EXCEPT ![t].knows = 0, ![t].here = NoPlace, ![t].blocked = FALSE,
                        ![t].conflict = NoRecord]
  /\ UNCHANGED <<works, files, fenced, admitted, adrift, removal, cleaned>>

\* The answer arrives: saved; or a conflict, which is resolved at once when it
\* is this tab's own save come back; or the novel is gone.
Deliver(t) ==
  LET s == tab[t].save IN
  /\ s.stage \in {"saved", "refused", "absent"}
  /\ tab' = [tab EXCEPT ![t] =
       CASE s.stage = "absent" -> [tab[t] EXCEPT !.save = NoSave]
         [] s.stage = "saved" -> Accept(t, s.answer)
         [] s.stage = "refused" /\ s.answer.by = t /\ s.answer.place = s.place -> Accept(t, s.answer)
         [] s.stage = "refused" /\ ~(s.answer.by = t /\ s.answer.place = s.place) ->
              IF s.answer.version > tab[t].knows THEN Conflict(t, s.answer)
              ELSE [tab[t] EXCEPT !.save = NoSave]]
  /\ UNCHANGED <<works, files, fenced, admitted, adrift, removal, cleaned>>

-----------------------------------------------------------------------------
(* PUT /api/reader/state *)

\* First the library is asked for the novel.
AdmitSave(t) ==
  /\ tab[t].save.stage = "sent"
  /\ tab' = [tab EXCEPT ![t].save.stage = IF OpenOn[t] \in works THEN "admitted" ELSE "absent"]
  /\ UNCHANGED <<works, files, fenced, admitted, adrift, removal, cleaned>>

\* Then the position is replaced if the version is the one expected.
PutSave(t) ==
  LET s == tab[t].save  n == OpenOn[t] IN
  /\ s.stage = "admitted"
  /\ Current(n, s) => reading[n].version < MaxVersion
  /\ IF Current(n, s)
     THEN /\ Saved(n, t, s)
          /\ tab' = [tab EXCEPT ![t].save.stage = "saved", ![t].save.place = NoPlace,
                                ![t].save.expects = 0, ![t].save.answer = Put(reading[n], s.place, NoTab)]
     ELSE /\ UNCHANGED reading
          /\ tab' = [tab EXCEPT ![t].save.stage = "refused", ![t].save.answer = Shown(n)]
  /\ UNCHANGED <<works, marks, tuned, fenced, admitted, adrift, removal, cleaned>>

\* The same two steps for a save nobody waits for.
PutAdrift ==
  \E a \in adrift :
    LET n == OpenOn[a.tab] IN
    /\ \/ /\ a.save.stage = "sent"
          /\ n \in works
          /\ adrift' = {[a EXCEPT !.save.stage = "admitted"]}
          /\ UNCHANGED reading
       \/ /\ a.save.stage = "admitted"
          /\ Current(n, a.save) => reading[n].version < MaxVersion
          /\ IF Current(n, a.save) THEN Saved(n, a.tab, a.save) ELSE UNCHANGED reading
          /\ adrift' = {}
    /\ UNCHANGED <<works, marks, tuned, fenced, admitted, tab, removal, cleaned>>

-----------------------------------------------------------------------------
(* Bookmarks, reader settings, import: the novel is looked up first          *)

Admit(w, n) ==
  /\ n \in works
  /\ InFlight < MaxInFlight
  /\ <<w, n>> \notin admitted
  /\ admitted' = admitted \cup {<<w, n>>}
  /\ UNCHANGED <<works, files, fenced, tab, adrift, removal, cleaned>>

AdmitBookmark(n) == Admit("mark", n)
AdmitSettings(n) == Admit("tune", n)
AdmitImport(n) == Admit("import", n)

\* The store refuses a novel with a tombstone, under its mutex.
Refuses(n) == reading[n].gone

\* The bookmark is stored without looking for the tombstone.
CreateBookmark_Blind(n) ==
  /\ <<"mark", n>> \in admitted
  /\ marks[n] < MaxMarks
  /\ admitted' = admitted \ {<<"mark", n>>}
  /\ marks' = [marks EXCEPT ![n] = @ + 1]
  /\ UNCHANGED <<works, reading, tuned, fenced, tab, adrift, removal, cleaned>>

\* CreateBookmark refuses a novel with a tombstone.
CreateBookmark(n) ==
  /\ <<"mark", n>> \in admitted
  /\ marks[n] < MaxMarks
  /\ admitted' = admitted \ {<<"mark", n>>}
  /\ marks' = [marks EXCEPT ![n] = IF Refuses(n) THEN @ ELSE @ + 1]
  /\ UNCHANGED <<works, reading, tuned, fenced, tab, adrift, removal, cleaned>>

DeleteBookmark(n) ==
  /\ marks[n] > 0
  /\ marks' = [marks EXCEPT ![n] = @ - 1]
  /\ UNCHANGED <<works, reading, tuned, fenced, admitted, tab, adrift, removal, cleaned>>

\* So does the change of the reader settings.
PatchSettings(n) ==
  /\ <<"tune", n>> \in admitted
  /\ admitted' = admitted \ {<<"tune", n>>}
  /\ tuned' = IF Refuses(n) THEN tuned ELSE tuned \cup {n}
  /\ UNCHANGED <<works, reading, marks, fenced, tab, adrift, removal, cleaned>>

\* The import fills positions that are missing and bookmarks that are not
\* there; it does not look at the tombstone. All of it is rolled back when a
\* write fails; a crash in the middle leaves the positions without the
\* bookmarks.
ImportLibrary(p) ==
  LET D == {n \in Novels : <<"import", n>> \in admitted}
      empty == {n \in D : reading[n].place = NoPlace}
      positions == [n \in Novels |-> IF n \in empty THEN Put(reading[n], p, NoTab) ELSE reading[n]]
      bookmarks == [n \in Novels |-> IF n \in D /\ marks[n] = 0 THEN 1 ELSE marks[n]]
  IN
  /\ D # {}
  /\ \A n \in empty : reading[n].version < MaxVersion
  /\ \/ reading' = positions /\ marks' = bookmarks /\ cleaned' = cleaned \ D
     \/ reading' = positions /\ UNCHANGED marks /\ cleaned' = cleaned \ D
     \/ UNCHANGED <<reading, marks, cleaned>>
  /\ admitted' = admitted \ {<<"import", n>> : n \in D}
  /\ UNCHANGED <<works, tuned, fenced, tab, adrift, removal>>

-----------------------------------------------------------------------------
(* Removal: fetchercommands.Remove, then removedstate                          *)

\* novel-fetcher downloads the novel, perhaps again.
Download(n) ==
  /\ n \notin works
  /\ works' = works \cup {n}
  /\ cleaned' = cleaned \ {n}
  /\ UNCHANGED <<files, fenced, admitted, tab, adrift, removal>>

\* Every novel id stands for a work of the library.
Resolvable(D) == D \subseteq works

\* Every novel must resolve to a work, or the request is refused as a whole.
\* novel-fetcher removes the works and says so; or the call fails, after some
\* of the works or all of them are gone, and nothing is cleaned up.
Remove(D) ==
  /\ removal = Idle
  /\ D # {} /\ Resolvable(D)
  /\ \/ /\ works' = works \ D
        /\ removal' = [stage |-> "removed", todo |-> D]
     \/ /\ \E E \in SUBSET D : works' = works \ E
        /\ UNCHANGED removal
  /\ UNCHANGED <<files, fenced, admitted, tab, adrift, cleaned>>

\* All documents are read before any is changed.
Preflight ==
  /\ removal.stage = "removed"
  /\ removal' = IF ~fenced THEN [removal EXCEPT !.stage = "prune"] ELSE Idle
  /\ UNCHANGED <<works, files, fenced, admitted, tab, adrift, cleaned>>

\* The search rows of all novels go first (RemovalStops when that fails). Then
\* novel by novel: tombstone, bookmarks and settings under the mutex of the
\* store, where the second and the third write may fail. The novel's other
\* stores follow.
PruneState(n) ==
  /\ removal.stage = "prune"
  /\ n \in removal.todo
  /\ reading[n].version < MaxVersion
  /\ reading' = [reading EXCEPT ![n] = Tombstone(@)]
  /\ \/ /\ marks' = [marks EXCEPT ![n] = 0]
        /\ tuned' = tuned \ {n}
        /\ removal' = [removal EXCEPT !.todo = @ \ {n}]
        /\ cleaned' = cleaned \cup ({n} \ works)
     \/ /\ marks' \in {marks, [marks EXCEPT ![n] = 0]}
        /\ UNCHANGED <<tuned, cleaned>>
        /\ removal' = Idle
  /\ UNCHANGED <<works, fenced, admitted, tab, adrift>>

\* All is done; or a store fails, or the process ends, and what is done stays
\* done.
RemovalStops ==
  /\ removal.stage = "prune"
  /\ removal' = Idle
  /\ UNCHANGED <<works, files, fenced, admitted, tab, adrift, cleaned>>

-----------------------------------------------------------------------------
ReaderNext ==
  \/ \E t \in Tabs :
       \/ Sync(t) \/ Overwrite(t) \/ Apply(t) \/ GiveUp(t) \/ Reload(t)
       \/ Deliver(t) \/ AdmitSave(t) \/ PutSave(t)
       \/ \E p \in Places : Save(t, p)
  \/ PutAdrift
  \/ \E n \in Novels :
       \/ AdmitBookmark(n) \/ AdmitSettings(n) \/ AdmitImport(n)
       \/ CreateBookmark(n) \/ DeleteBookmark(n) \/ PatchSettings(n)
       \/ Download(n) \/ PruneState(n)
  \/ \E p \in Places : ImportLibrary(p)
  \/ \E D \in SUBSET Novels : Remove(D)
  \/ Preflight \/ RemovalStops

ReaderSpec == ReaderInit /\ [][ReaderNext]_reader
-----------------------------------------------------------------------------
(* Properties *)

\* What a removal cleaned up stays clean until the novel is downloaded again
\* or restored by an import: requests that passed the check for the novel
\* before it was removed write nothing afterwards, whoever sent them.
RemovedStaysEmpty == \A n \in cleaned :
  /\ reading[n].gone
  /\ reading[n].place = NoPlace
  /\ marks[n] = 0
  /\ n \notin tuned

\* The versions a tab may still send to the server: the one it knows, the one
\* it would overwrite, and those of its saves on the way.
Reachable(t) ==
  {tab[t].knows, tab[t].conflict.version, tab[t].save.expects}
    \cup {a.save.expects : a \in {b \in adrift : b.tab = t}}

Newest(S) == CHOOSE v \in S : \A w \in S : w <= v

RegisterView == [t \in Tabs |-> [n \in Novels |-> IF n = OpenOn[t] THEN Newest(Reachable(t)) ELSE 0]]

Register == INSTANCE ReadingRegister
  WITH Readers <- Tabs,
       version <- [n \in Novels |-> reading[n].version],
       place <- [n \in Novels |-> reading[n].place],
       view <- RegisterView

\* With all the tabs, lost answers, imports and removals, a position is a
\* register: nobody replaces a position whose version it does not know, and a
\* version never comes back, not even over the tombstone of a novel.
RegisterSpec == Register!RegisterSpec

=============================================================================
