---------------------------- MODULE Publications -----------------------------
(***************************************************************************)
(* The books of one novel (publications/service.go and repository.go):     *)
(* entries by ISBN and the one whose cover the library shows.  A request   *)
(* reads the entries, asks NDL and Google Books about the ISBN, and only   *)
(* then takes the lock again to write what it made of it.                  *)
(***************************************************************************)
EXTENDS Naturals, FiniteSets

CONSTANTS Editors,     \* the requests that may be in flight together
          BookKinds, ISBNs,
          Files,       \* what the file may hold of the novel
          MaxRequests      \* bounds the requests

ASSUME PublicationsAssumption == "" \notin ISBNs /\ MaxRequests \in Nat

\* A file is one this program wrote while nothing else was going on: its cover
\* is that of an entry, and it has a book once.
ASSUME FilesAssumption == \A f \in Files :
  /\ f.cover = <<"", "", 0>> \/ \E x \in f.entries : x.id = f.cover
  /\ \A x, y \in f.entries :
       x # y /\ x.isbn # "" /\ x.isbn = y.isbn => x.kind # y.kind

VARIABLES shelf,    \* the novel in publications.yaml: entries and cover
          editing,  \* what each request is about to do
          asks,     \* requests so far, and their time
          chosen,   \* the entry the user wants to see, for as long as it is there
          raced     \* the books that two requests were about at one time

publications == <<shelf, editing, asks, chosen, raced>>

NoId == <<"", "", 0>>
Base(kind, isbn) == <<kind, isbn, 0>>
Idle == [stage |-> "idle"]
EmptyShelf == [entries |-> {}, cover |-> NoId]

Of(id) == {x \in shelf.entries : x.id = id}
SameBook(kind, isbn) == {x \in shelf.entries : x.kind = kind /\ x.isbn = isbn}

\* A cover must have an image, and its entry must not be hidden.
CanCover(entries, id) == \E x \in entries : x.id = id /\ x.status # "disabled" /\ x.image
NormalizeCover(entries, id) == IF CanCover(entries, id) THEN id ELSE NoId

-----------------------------------------------------------------------------
(* The first read                                                           *)

\* The book a request is about, <<>> if it is about none.
BookOf(r) ==
  CASE r.stage \in {"naming", "lookup"} -> <<r.kind, r.isbn>>
    [] r.stage = "write" -> <<r.entry.kind, r.entry.isbn>>
    [] OTHER -> <<>>

Ask(e, r) ==
  /\ editing[e] = Idle /\ asks < MaxRequests
  /\ asks' = asks + 1
  /\ editing' = [editing EXCEPT ![e] = r]
  /\ raced' = raced \cup {BookOf(editing[d]) : d \in {c \in Editors : BookOf(editing[c]) = BookOf(r)}}
  /\ UNCHANGED <<shelf, chosen>>

Lookup(id, kind, isbn, deleting) ==
  [stage |-> "lookup", id |-> id, kind |-> kind, isbn |-> isbn, deleting |-> deleting]

\* A book that is known already is looked up again under its id.
Registered_Never(kind, isbn) == {}
Registered(kind, isbn) == SameBook(kind, isbn)

CreateEntry(e, kind, isbn) ==
  IF Registered(kind, isbn) = {}
  THEN Ask(e, [stage |-> "naming", kind |-> kind, isbn |-> isbn, at |-> asks + 1])
  ELSE \E x \in Registered(kind, isbn) : Ask(e, Lookup(x.id, kind, isbn, NoId))

\* Another read; the time is part of the id if the simple one is taken.
NextEntryID(e) ==
  /\ editing[e].stage = "naming"
  /\ LET r == editing[e]  simple == Base(r.kind, r.isbn) IN
     editing' = [editing EXCEPT ![e] =
       Lookup(IF Of(simple) = {} THEN simple ELSE <<r.kind, r.isbn, r.at>>, r.kind, r.isbn, NoId)]
  /\ UNCHANGED <<shelf, asks, chosen, raced>>

\* An entry that is given the ISBN of another one is joined to it.
PutISBN(e, x, isbn) ==
  LET twins == Registered(x.kind, isbn) \ {x} IN
  IF twins = {} THEN Ask(e, Lookup(x.id, x.kind, isbn, NoId))
  ELSE \E y \in twins : Ask(e, Lookup(y.id, x.kind, isbn, x.id))

Rewrite(x) == [stage |-> "write", entry |-> x, deleting |-> NoId]
HideEntry(e, x) == Ask(e, Rewrite([x EXCEPT !.status = "disabled"]))
ShowEntry(e, x) == Ask(e, Rewrite([x EXCEPT !.status = IF x.isbn # "" THEN "manual" ELSE "unknown"]))
RemoveEntry(e, x) == Ask(e, [stage |-> "delete", id |-> x.id])
SetDisplayCover(e, x) ==
  CanCover(shelf.entries, x.id) /\ Ask(e, [stage |-> "cover", id |-> x.id])

-----------------------------------------------------------------------------
(* The rest of a request                                                    *)

\* A provider that fails is a warning, and no image.
LookUp(e, image) ==
  /\ editing[e].stage = "lookup"
  /\ editing' = [editing EXCEPT ![e] =
       [stage |-> "write", deleting |-> @.deleting,
        entry |-> [id |-> @.id, kind |-> @.kind, isbn |-> @.isbn, status |-> "manual", image |-> image]]]
  /\ UNCHANGED <<shelf, asks, chosen, raced>>

Saves(e, entries, cover) ==
  /\ shelf' = [entries |-> entries, cover |-> cover]
  /\ editing' = [editing EXCEPT ![e] = Idle]
  /\ UNCHANGED <<asks, raced>>

\* The choice ends with the entry, and moves with the one it is joined to.
ChosenAmong(entries, id) == IF \E x \in entries : x.id = id THEN id ELSE NoId

PutEntry(e) ==
  /\ editing[e].stage = "write"
  /\ LET r == editing[e]
         kept == {x \in shelf.entries : x.id \notin {r.entry.id, r.deleting}} \cup {r.entry}
         moved(id) == IF id # NoId /\ id = r.deleting THEN r.entry.id ELSE id
     IN Saves(e, kept, NormalizeCover(kept, moved(shelf.cover)))
        /\ chosen' = ChosenAmong(kept, moved(chosen))

\* The cover goes with its entry, or is found again in the next one of that id.
CoverAfterDelete_Kept(id) == shelf.cover
CoverAfterDelete(id) == IF shelf.cover = id THEN NoId ELSE shelf.cover

DeleteEntry(e) ==
  /\ editing[e].stage = "delete"
  /\ LET kept == {x \in shelf.entries : x.id # editing[e].id} IN
     Saves(e, kept, CoverAfterDelete(editing[e].id)) /\ chosen' = ChosenAmong(kept, chosen)

PutDisplayCover(e) ==
  /\ editing[e].stage = "cover"
  /\ Saves(e, shelf.entries, NormalizeCover(shelf.entries, editing[e].id))
  /\ chosen' = ChosenAmong(shelf.entries, editing[e].id)

ClearDisplayCover(e) ==
  /\ editing[e] = Idle
  /\ Saves(e, shelf.entries, NoId) /\ chosen' = NoId

\* The client went away, the API key could not be decrypted, or the file not
\* written.
DropRequest(e) ==
  /\ editing[e] # Idle
  /\ editing' = [editing EXCEPT ![e] = Idle]
  /\ UNCHANGED <<shelf, asks, chosen, raced>>

\* The novel is removed; a request in flight may bring an entry back.
PruneNovel ==
  /\ shelf.entries # {}
  /\ shelf' = EmptyShelf /\ chosen' = NoId
  /\ UNCHANGED <<editing, asks, raced>>

\* What is listed: a cover that cannot be shown is none.
ShownCover == NormalizeCover(shelf.entries, shelf.cover)

PublicationsInit ==
  /\ shelf \in Files
  /\ editing = [e \in Editors |-> Idle]
  /\ asks = 0 /\ chosen = shelf.cover /\ raced = {}

PublicationsNext ==
  \/ PruneNovel
  \/ \E e \in Editors :
       \/ \E kind \in BookKinds, isbn \in ISBNs : CreateEntry(e, kind, isbn)
       \/ \E x \in shelf.entries :
            \/ HideEntry(e, x) \/ ShowEntry(e, x) \/ RemoveEntry(e, x) \/ SetDisplayCover(e, x)
            \/ \E isbn \in ISBNs : PutISBN(e, x, isbn)
       \/ NextEntryID(e) \/ PutEntry(e) \/ DeleteEntry(e) \/ DropRequest(e)
       \/ PutDisplayCover(e) \/ ClearDisplayCover(e)
       \/ \E image \in BOOLEAN : LookUp(e, image)

PublicationsSpec == PublicationsInit /\ [][PublicationsNext]_publications

-----------------------------------------------------------------------------
(* Properties                                                               *)

\* The cover in the library is that of the entry the user chose last, or of the
\* one it was joined to: an entry that was removed and comes back, by a new
\* registration or by a request that was still in flight, is not shown again
\* on its own (docs/publication-info.md:42).  While nothing is chosen the list of
\* the library falls back to an entry with an image, by a rule that keeps nothing
\* (populateNovelPublicationCover); NoId stands for that.
CoverWasChosen == ShownCover \in {NoId, chosen}

\* A book is registered once: two entries of one kind have the same ISBN only
\* if two requests were about that ISBN at one time (service.go, CreateEntry).
TwinsNeedARace ==
  \A x, y \in shelf.entries :
    x # y /\ x.isbn # "" /\ x.isbn = y.isbn /\ x.kind = y.kind => <<x.kind, x.isbn>> \in raced
=============================================================================
