------------------------------- MODULE MCReader -------------------------------
(***************************************************************************)
(* The reader's positions and the reader assistant, which share no state:  *)
(* each behaviour plays one of two scenes, the parts of the other stay as  *)
(* they begin.                                                             *)
(***************************************************************************)
EXTENDS ReaderState, ReaderAssistant, TLC

CONSTANTS n1, t1, t2, p1, p2

VARIABLE scene

readerScenes == <<scene, reader, assistant>>

-----------------------------------------------------------------------------
(* "positions": two tabs, perhaps on two devices, with the same novel.      *)

MCNovels == {n1}
MCTabs == {t1, t2}
MCOpenOn == [t \in MCTabs |-> n1]
MCPlaces == {p1, p2}
\* The tabs' saves and the bookmarks and settings are in different files: one
\* of the two acts, each together with downloads, removals and imports.
Apart ==
  \/ \A t \in Tabs : tab[t].save = NoSave /\ tab[t].here = NoPlace /\ tab[t].knows = 0
  \/ /\ ~fenced
     /\ tuned = {}
     /\ \A n \in Novels : marks[n] = 0 /\ <<"mark", n>> \notin admitted /\ <<"tune", n>> \notin admitted

Symmetry == Permutations(MCTabs) \cup Permutations(MCPlaces)

-----------------------------------------------------------------------------
(* "assistant": three episodes, the word in two of them; a revision moves   *)
(* it to the beginning of the first or takes it out of the last.            *)

MCOpenings == {<<"late", "none", "early">>}
MCRevisions == {[episode |-> 1, place |-> "early"], [episode |-> 3, place |-> "none"]}
MCQuestions ==
  {[current |-> 3, boundary |-> n, listed |-> TRUE] : n \in {2, 3}} \cup
  {[current |-> 3, boundary |-> 3, listed |-> FALSE]}

\* Episodes are saved, or the cache fails once; a second save is of the first
\* episode, and the reader is not allowed the third.
OneTrouble ==
  /\ edits = 0 \/ mishaps = 0
  /\ edits = 2 => texts[3].text.etag = 0 /\ run.boundary # 3

-----------------------------------------------------------------------------
MCReaderInit ==
  /\ scene \in {"positions", "assistant"}
  /\ ReaderInit /\ AssistantInit
  /\ scene # "positions" => works = {} /\ fenced

PositionScene == scene = "positions" /\ ReaderNext /\ UNCHANGED <<scene, assistant>>
AssistantScene == scene = "assistant" /\ AssistantNext /\ UNCHANGED <<scene, reader>>

MCReaderNext == PositionScene \/ AssistantScene
MCReaderSpec == MCReaderInit /\ [][MCReaderNext]_readerScenes
================================================================================
