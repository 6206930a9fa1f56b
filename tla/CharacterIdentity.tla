-------------------------- MODULE CharacterIdentity --------------------------
(***************************************************************************)
(* Who is who: the character events of one novel, the profile derived from *)
(* them, and the generations that extend or redo them (characters, and the *)
(* identity part of extraction/core.go and parallel_identity.go).          *)
(* A character is an id, the names it was found under with the episode of  *)
(* each, and its first appearance. That two ids are one person is an event *)
(* of an episode: a reader who is not that far still sees two. What the    *)
(* model answers is arbitrary; ids are the ordinals they are hashed from.  *)
(***************************************************************************)
EXTENDS Integers, FiniteSetsExt

CONSTANTS
  Names,        \* names of characters
  Episodes,     \* the number of episodes
  MaxFindings,  \* bound: new characters and names found in all
  MaxMerges,    \* bound: merges found in all
  MaxTears      \* bound: crashes between two writes, and profiles lost

ASSUME CharacterAssumption == Episodes \in Nat \ {0} /\ {MaxFindings, MaxMerges, MaxTears} \subseteq Nat

CharacterIds == 1..(MaxFindings + 1)
Nobody == 0

VARIABLES
  eventsDoc,   \* character_events: the truth
  profileDoc,  \* character_profiles: what readers get, derived from it
  generation,  \* the generation or save under way
  torn,        \* from where on a crashed redo left the profile behind, 0 for none
  called,      \* [id -> names it ever stood for, at some boundary]
  found,       \* what was found in the text as it is now: name and episode
  findings, joined, tears

identity == <<eventsDoc, profileDoc, generation, torn, called, found, findings, joined, tears>>

NoEvents == [frontier |-> 0, recs |-> [i \in {} |-> 0], retired |-> [i \in {} |-> 0],
             merges |-> {}, next |-> 1]
NoProfile == [frontier |-> 0, recs |-> [i \in {} |-> 0], merges |-> {}]
NoGeneration == [stage |-> "none", from |-> 0, upTo |-> 0, at |-> 0, redo |-> FALSE,
                 recs |-> [i \in {} |-> 0], merges |-> {}, proposed |-> {}, next |-> 1,
                 found |-> {}, behind |-> 0]

CharacterInit ==
  /\ eventsDoc = NoEvents /\ profileDoc = NoProfile
  /\ generation = NoGeneration /\ torn = 0
  /\ called = [i \in CharacterIds |-> {}]
  /\ found = {} /\ findings = 0 /\ joined = 0 /\ tears = 0

Earlier(a, b) == IF a < b THEN a ELSE b

-----------------------------------------------------------------------------
(* Merging *)

\* From i along the merges: where n of them lead.
Way(into, i) ==
  LET f[n \in 0..Cardinality(CharacterIds)] ==
        IF n = 0 THEN i ELSE IF f[n - 1] \in DOMAIN into THEN into[f[n - 1]] ELSE f[n - 1]
  IN f

\* The id that stands for i: the end of its way.
Stands(into, i) == Way(into, i)[Cardinality(CharacterIds)]

\* Who stands for i among the records: a merge into somebody who is not there
\* does not happen.
Survivor(recs, into, i) == IF Stands(into, i) \in DOMAIN recs THEN Stands(into, i) ELSE i

Merged(recs, into) ==
  LET kept == {i \in DOMAIN recs : Survivor(recs, into, i) = i}
      group(k) == {i \in DOMAIN recs : Survivor(recs, into, i) = k}
  IN [k \in kept |-> [names |-> UNION {recs[i].names : i \in group(k)},
                      first |-> Min({recs[i].first : i \in group(k)})]]

\* Events are told by episode, then by id.
Before(d, e) ==
  \/ d.at < e.at
  \/ d.at = e.at /\ d.source < e.source
  \/ d.at = e.at /\ d.source = e.source /\ d.target < e.target

\* The last word of the told events, for each source.
Into(told) == [s \in {e.source : e \in told} |->
  (CHOOSE e \in told : e.source = s /\ \A d \in told : d.source = s => ~Before(e, d)).target]

\* An event that would close a circle with the earlier ones is dropped.
Acceptable(told, e) == e.source \notin Range(Way(Into(told), e.target))

\* The events that are told, one after the other, each by those before it.
Kept(events) == CHOOSE told \in SUBSET events :
  \A e \in events : e \in told <=> Acceptable({d \in told : Before(d, e)}, e)

\* Every merge is known at every boundary.
IntoAt_All(events, b) == Into(Kept(events))

\* The merges a reader at boundary b knows of.
IntoAt(events, b) == Into({e \in Kept(events) : e.at <= b})

\* What is shown at boundary b: who, and under which names.
ShownAt(doc, b) ==
  LET limit == Earlier(b, doc.frontier)
      all == Merged(doc.recs, IntoAt(doc.merges, limit))
  IN {[id |-> i, names |-> {n \in all[i].names : n.at <= limit}] :
        i \in {j \in DOMAIN all : all[j].first <= limit}}

-----------------------------------------------------------------------------
(* A generation *)

Cut(recs, from) ==
  LET left(i) == {n \in recs[i].names : n.at < from}
  IN [i \in {j \in DOMAIN recs : recs[j].first < from /\ left(j) # {}} |->
        [names |-> left(i), first |-> recs[i].first]]
CutMerges(events, from) == Kept({e \in events : e.at < from})

UsedIds(doc) == DOMAIN doc.recs \cup DOMAIN doc.retired

\* The ordinal starts over when the document is loaded.
NextUnused_FromOne(n, used) == CHOOSE m \in CharacterIds \cup {Cardinality(CharacterIds) + 1} :
  m \notin used /\ \A k \in 1..(m - 1) : k \in used

NextUnused(n, used) == CHOOSE m \in n..(Cardinality(CharacterIds) + 1) :
  m \notin used /\ \A k \in n..(m - 1) : k \in used

\* The ids of the live characters alone are taken.
FirstUnused_Live(doc) == NextUnused(1, DOMAIN doc.recs)

\* Ids are given out where the last document stopped.
FirstUnused(doc) == NextUnused(doc.next, UsedIds(doc))

\* Everything up to upTo: from the frontier on, or from an episode whose text
\* changed.
BeginGeneration(from, upTo) ==
  /\ generation.stage = "none"
  /\ from <= upTo
  /\ from <= eventsDoc.frontier + 1 /\ from > 0
  /\ LET redo == from <= eventsDoc.frontier
     IN generation' = [NoGeneration EXCEPT !.stage = "batches", !.from = from, !.upTo = upTo,
          !.at = from, !.redo = redo,
          !.recs = IF redo THEN Cut(eventsDoc.recs, from) ELSE eventsDoc.recs,
          !.merges = IF redo THEN CutMerges(eventsDoc.merges, from) ELSE Kept(eventsDoc.merges),
          !.next = FirstUnused(eventsDoc),
          !.found = {n \in found : n.at < from}]
  /\ UNCHANGED <<eventsDoc, profileDoc, torn, called, found, findings, joined, tears>>

Finding ==
  /\ generation.stage = "batches" /\ findings < MaxFindings
  /\ findings' = findings + 1 /\ UNCHANGED joined
Joining ==
  /\ generation.stage = "batches" /\ joined < MaxMerges
  /\ joined' = joined + 1 /\ UNCHANGED findings
KeepsDocs == UNCHANGED <<eventsDoc, profileDoc, torn, called, found, tears>>

FindCharacter(name) ==
  /\ Finding /\ KeepsDocs
  /\ LET n == [name |-> name, at |-> generation.at] IN
     generation' = [generation EXCEPT
       !.recs = [i \in DOMAIN @ \cup {generation.next} |->
                  IF i = generation.next THEN [names |-> {n}, first |-> generation.at] ELSE @[i]],
       !.next = NextUnused(generation.next + 1, UsedIds(eventsDoc)),
       !.found = @ \cup {n}]

FindName(i, name) ==
  /\ Finding /\ KeepsDocs
  /\ i \in DOMAIN generation.recs
  /\ LET n == [name |-> name, at |-> generation.at] IN
     generation' = [generation EXCEPT !.recs[i].names = @ \cup {n}, !.found = @ \cup {n}]

\* Two ids are found to be one person: by a proposal of a batch.
ProposeMerge(s, t) ==
  /\ Joining /\ KeepsDocs
  /\ s # t /\ {s, t} \subseteq DOMAIN generation.recs
  /\ LET e == [source |-> s, target |-> t, at |-> generation.at] IN
     generation' = [generation EXCEPT !.merges = Kept(@ \cup {e}), !.proposed = @ \cup {e}]

\* The target of a cluster: where a proposal points to, else the earliest.
PreferredTarget(ids) ==
  {t \in ids : /\ \E e \in generation.proposed : e.target = t /\ e.source \in ids
               /\ ~ \E e \in generation.proposed : e.source = t /\ e.target \in ids}
Representative(ids) == CHOOSE t \in ids : \A i \in ids :
  \/ generation.recs[t].first < generation.recs[i].first
  \/ generation.recs[t].first = generation.recs[i].first /\ t <= i

\* The strategies that resolve identities at the end, over all candidates.
ClusterMerge(ids) ==
  /\ Joining /\ KeepsDocs
  /\ generation.at = generation.upTo
  /\ Cardinality(ids) > 1 /\ ids \subseteq DOMAIN generation.recs
  /\ \E t \in IF PreferredTarget(ids) # {} THEN PreferredTarget(ids) ELSE {Representative(ids)} :
       generation' = [generation EXCEPT !.merges =
         Kept(@ \cup {[source |-> s, target |-> t, at |-> generation.upTo] : s \in ids \ {t}})]

NextEpisode ==
  /\ generation.stage = "batches" /\ generation.at < generation.upTo
  /\ generation' = [generation EXCEPT !.at = @ + 1]
  /\ UNCHANGED <<findings, joined>> /\ KeepsDocs

\* The job ends without a result: the ids it took were never published.
Abandon ==
  /\ generation.stage = "batches"
  /\ generation' = NoGeneration
  /\ UNCHANGED <<findings, joined>> /\ KeepsDocs

-----------------------------------------------------------------------------
(* The end of a generation: old ids come back, and two writes *)

KeysOf(r) == {n.name : n \in r.names}

\* An id is given back although it is in use.
GetsBack_Occupied(t, people, claims) == Cardinality(claims) = 1

\* An id is given back to the only one who claims it, unless it is in use.
GetsBack(t, people, claims) == Cardinality(claims) = 1 /\ t \notin people

\* A reprocessed episode finds its characters anew. One that carries the names
\* of exactly one published character takes the id of that back, unless
\* somebody else has it or claims it too.
Renumbered(raw, merges, doc, upTo) ==
  LET registry == Merged(doc.recs, IntoAt(doc.merges, upTo))
      known == {i \in DOMAIN registry : registry[i].first <= upTo}
      exact(k) == Cardinality({i \in DOMAIN registry : k \in KeysOf(registry[i])}) = 1
      owners(r) == {i \in known : \E k \in KeysOf(r) \cap KeysOf(registry[i]) : exact(k)}
      people == Merged(raw, IntoAt(merges, upTo))
      target(p) == IF Cardinality(owners(people[p])) = 1
                   THEN CHOOSE i \in owners(people[p]) : TRUE ELSE Nobody
      claims(t) == {p \in DOMAIN people : target(p) = t /\ p # t}
  IN [p \in {q \in DOMAIN people : /\ target(q) \notin {Nobody, q}
                                   /\ GetsBack(target(q), DOMAIN people, claims(target(q)))} |-> target(p)]

\* The ids a redo gives back.
GivenBack ==
  IF generation.redo
  THEN Renumbered(generation.recs, generation.merges, eventsDoc, generation.upTo)
  ELSE [i \in {} |-> 0]

Renumbering == DOMAIN GivenBack # {}

As(new, i) == IF i \in DOMAIN new THEN new[i] ELSE i
RenumberedRecs(raw, new) ==
  [k \in {As(new, i) : i \in DOMAIN raw} |->
     LET group == {i \in DOMAIN raw : As(new, i) = k}
     IN [names |-> UNION {raw[i].names : i \in group}, first |-> Min({raw[i].first : i \in group})]]
RenumberedMerges(events, new) ==
  Kept({[source |-> As(new, e.source), target |-> As(new, e.target), at |-> e.at] : e \in events})

\* The sources of merges are kept with their own records.
Preserved(recs, merges, existing) ==
  LET sources == {e.source : e \in merges} \cap (DOMAIN existing \ DOMAIN recs)
  IN [i \in DOMAIN recs \cup sources |-> IF i \in DOMAIN recs THEN recs[i] ELSE existing[i]]

\* Ids are retired, never given back: those whose character is gone, and those
\* that were replaced.
Retired(doc, live, new) ==
  [i \in DOMAIN doc.retired \cup (DOMAIN doc.recs \ live) \cup DOMAIN new |->
     IF i \in DOMAIN new THEN new[i]
     ELSE IF i \in DOMAIN doc.retired THEN doc.retired[i] ELSE Nobody]

\* SaveGeneratedSummaryWithOptions up to its writes.
NewEvents(new) ==
  LET g == generation
      raw == RenumberedRecs(g.recs, new)
      retired == Retired(eventsDoc, DOMAIN raw, new)
      gone == [i \in {j \in DOMAIN retired : retired[j] # Nobody} |-> retired[i]]
      existing == Merged(IF g.redo THEN Cut(eventsDoc.recs, g.from) ELSE eventsDoc.recs, gone)
      told == Kept(RenumberedMerges(g.merges, new)
                   \cup (IF g.redo THEN CutMerges(eventsDoc.merges, g.from) ELSE eventsDoc.merges))
      recs == [i \in DOMAIN raw |->
                IF i \in DOMAIN existing
                THEN [names |-> raw[i].names \cup existing[i].names, first |-> raw[i].first]
                ELSE raw[i]]
  IN [frontier |-> g.upTo, recs |-> Preserved(recs, told, existing), retired |-> retired,
      merges |-> told, next |-> NextUnused(g.next, UsedIds(eventsDoc) \cup DOMAIN raw \cup DOMAIN retired)]

\* Whom the ids stand for at some boundary.
StandIns(doc) == UNION {
  LET all == Merged(doc.recs, IntoAt(doc.merges, b))
  IN {[id |-> i, keys |-> KeysOf(all[i])] : i \in DOMAIN all} : b \in 0..doc.frontier}

SaveEvents ==
  /\ generation.stage = "batches" /\ generation.at = generation.upTo
  /\ \E new \in {GivenBack} :
       /\ eventsDoc' = NewEvents(new)
       /\ generation' = [generation EXCEPT !.stage = "profile",
                           !.behind = IF DOMAIN new # {} THEN 1
                                      ELSE IF generation.redo THEN generation.from ELSE 0]
  /\ LET now == StandIns(eventsDoc')
     IN called' = [i \in CharacterIds |-> called[i] \cup UNION {c.keys : c \in {d \in now : d.id = i}}]
  /\ found' = generation.found
  /\ UNCHANGED <<profileDoc, torn, findings, joined, tears>>

Projection(doc) == [frontier |-> doc.frontier, recs |-> doc.recs, merges |-> doc.merges]

SaveProfile ==
  /\ generation.stage = "profile"
  /\ profileDoc' = Projection(eventsDoc)
  /\ generation' = NoGeneration
  /\ torn' = 0
  /\ UNCHANGED <<eventsDoc, called, found, findings, joined, tears>>

\* The process ends between the two writes.
CrashBetween ==
  /\ generation.stage = "profile" /\ tears < MaxTears
  /\ torn' = IF torn = 0 \/ generation.behind = 0 THEN Max({torn, generation.behind})
             ELSE Earlier(torn, generation.behind)
  /\ generation' = NoGeneration
  /\ tears' = tears + 1
  /\ UNCHANGED <<eventsDoc, profileDoc, called, found, findings, joined>>

\* A profile that cannot be read is moved away.
LoseProfile ==
  /\ generation.stage # "profile" /\ tears < MaxTears
  /\ profileDoc' = NoProfile
  /\ tears' = tears + 1
  /\ UNCHANGED <<eventsDoc, generation, torn, called, found, findings, joined>>

\* A profile is made again when it is missing, or when more is asked than it
\* has and the events are at least as far.
ShouldMaterialize(b) ==
  \/ profileDoc.frontier = 0
  \/ profileDoc.frontier < b /\ eventsDoc.frontier >= profileDoc.frontier

\* LoadSummaryForEpisodes for a reader at episode b.
Read(b) ==
  /\ generation.stage # "profile"
  /\ ShouldMaterialize(b) /\ eventsDoc.frontier > 0
  /\ profileDoc' = Projection(eventsDoc)
  /\ torn' = 0
  /\ UNCHANGED <<eventsDoc, generation, called, found, findings, joined, tears>>

CharacterNext ==
  \/ \E from, upTo \in 1..Episodes : BeginGeneration(from, upTo)
  \/ \E name \in Names : FindCharacter(name)
  \/ \E i \in CharacterIds, name \in Names : FindName(i, name)
  \/ \E s, t \in CharacterIds : ProposeMerge(s, t)
  \/ \E ids \in SUBSET CharacterIds : ClusterMerge(ids)
  \/ NextEpisode \/ Abandon \/ SaveEvents \/ SaveProfile \/ CrashBetween \/ LoseProfile
  \/ \E b \in 1..Episodes : Read(b)

CharacterSpec == CharacterInit /\ [][CharacterNext]_identity
-----------------------------------------------------------------------------
(* Properties *)

\* Nothing that was found is lost, and nothing is told early, by whatever merges,
\* reprocessing, renumbering and retirement: at every boundary the readers are
\* shown exactly the names found up to it (docs/extraction.md:24).
AllIsTold == \A b \in 1..eventsDoc.frontier :
  UNION {c.names : c \in ShownAt(eventsDoc, b)} = {n \in found : n.at <= b}

\* A redo gives back the id of somebody who was merged away meanwhile, whose
\* record is still there: the two are joined (see MergesAreDated).
Revives ==
  \E k \in Range(GivenBack) : k \in DOMAIN generation.recs
    /\ k \notin DOMAIN Merged(generation.recs, IntoAt(generation.merges, generation.upTo))

\* Somebody gets an old id back, but merges from before the redo are kept with
\* the id he had in it as well (event_store.go:140).
LeavesBehind == \E e \in CutMerges(eventsDoc.merges, generation.from) :
  {e.source, e.target} \cap DOMAIN GivenBack # {}

\* Somebody was merged twice: which merge is the last depends on the ids.
MergedTwice == \E d, e \in generation.merges : d.source = e.source /\ d # e

\* What giving ids back does not promise anything about.
Entangled == generation.redo /\ Renumbering /\ (Revives \/ LeavesBehind \/ MergedTwice)

\* A record whose id was replaced is still there, as the source of a merge that
\* was left behind; in every save its names are merged into the other id again.
Haunted == \E i \in DOMAIN eventsDoc.recs \cap DOMAIN eventsDoc.retired :
  eventsDoc.retired[i] # Nobody

\* An id never comes to stand for somebody else: where it is shown again, at
\* the frontier, it carries a name it stood for before.
IdKeepsItsPerson ==
  [][eventsDoc' # eventsDoc /\ ~Entangled =>
       \A c \in ShownAt(eventsDoc', eventsDoc'.frontier) :
         called[c.id] # {} => KeysOf(c) \cap called[c.id] # {}]_identity

\* Giving ids back joins and splits nobody else: who the generation found to be
\* a person is a person at the frontier, with those names.
PeopleStayWhole ==
  [][eventsDoc' # eventsDoc /\ ~Entangled /\ ~Haunted =>
       LET people == Merged(generation.recs, IntoAt(generation.merges, generation.upTo))
       IN {c.names : c \in ShownAt(eventsDoc', generation.upTo)} = {people[p].names : p \in DOMAIN people}]_identity

\* What later episodes reveal changes nothing for a reader who is not there
\* yet: who is shown, under which id and names. Ids that come back in a redo
\* are the exception.
EarlierStaysHidden ==
  [][eventsDoc' # eventsDoc /\ ~Renumbering /\ ~Haunted =>
       \A b \in 1..(generation.from - 1) : ShownAt(eventsDoc', b) = ShownAt(eventsDoc, b)]_identity

\* The same without the exception, for names alone: before the episode of a
\* merge the two stay two people (docs/extraction.md:24).
MergesAreDated ==
  [][eventsDoc' # eventsDoc => \A b \in 1..(generation.from - 1) :
       {c.names : c \in ShownAt(eventsDoc', b)} = {c.names : c \in ShownAt(eventsDoc, b)}]_identity

=============================================================================
