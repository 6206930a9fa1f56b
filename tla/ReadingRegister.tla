--------------------------- MODULE ReadingRegister ---------------------------
(***************************************************************************)
(* What a reading position promises, without requests, files or tabs: a    *)
(* register per novel whose version grows by one with every change, which  *)
(* a reader may replace only when the version it knows is the current one. *)
(* ReaderState implements it (ReaderState!RegisterSpec).                   *)
(***************************************************************************)
EXTENDS Naturals

CONSTANTS Novels, Readers, Places, NoPlace

VARIABLES version,  \* [Novels -> Nat]
          place,    \* [Novels -> Places \cup {NoPlace}]
          view      \* [Readers -> [Novels -> Nat]]: the version a reader knows

register == <<version, place, view>>

RegisterInit ==
  /\ version = [n \in Novels |-> 0]
  /\ place = [n \in Novels |-> NoPlace]
  /\ view = [r \in Readers |-> [n \in Novels |-> 0]]

\* A reader learns some version that exists, not always the last one: an
\* answer may be late, and a page that is loaded again knows nothing.
Learn(r) ==
  /\ \E n \in Novels : \E v \in 0..version[n] :
       view' = [view EXCEPT ![r][n] = v]
  /\ UNCHANGED <<version, place>>

\* A reader moves the position it knows. It need not hear of its success, and
\* may have stopped waiting for it.
Replace(r, n) ==
  /\ view[r][n] = version[n]
  /\ version' = [version EXCEPT ![n] = @ + 1]
  /\ \E p \in Places : place' = [place EXCEPT ![n] = p]
  /\ \E v \in 0..version[n] : view' = [view EXCEPT ![r][n] = v]

\* The position is erased with its novel.
Erase(n) ==
  /\ version' = [version EXCEPT ![n] = @ + 1]
  /\ place' = [place EXCEPT ![n] = NoPlace]
  /\ UNCHANGED view

\* Positions are filled in from an export, only where there is none.
Fill ==
  /\ \E D \in SUBSET Novels :
       /\ D # {}
       /\ \A n \in D : place[n] = NoPlace
       /\ version' = [n \in Novels |-> version[n] + (IF n \in D THEN 1 ELSE 0)]
       /\ \E p \in Places : place' = [n \in Novels |-> IF n \in D THEN p ELSE place[n]]
  /\ UNCHANGED view

RegisterNext ==
  \/ \E r \in Readers : Learn(r)
  \/ \E r \in Readers, n \in Novels : Replace(r, n)
  \/ \E n \in Novels : Erase(n)
  \/ Fill

RegisterSpec == RegisterInit /\ [][RegisterNext]_register
=============================================================================
