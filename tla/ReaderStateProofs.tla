-------------------------- MODULE ReaderStateProofs --------------------------
(***************************************************************************)
(* Proofs about ReaderState for any sets of novels, tabs and positions and *)
(* any bounds: the positions implement the register of ReadingRegister,    *)
(* and what a removal cleaned up stays clean.  Both rest on what the       *)
(* saves on their way, and those nobody waits for, know of the versions.   *)
(***************************************************************************)
EXTENDS ReaderState, WellFoundedInduction, TLAPS

Position == Places \cup {NoPlace}
Known == [version: Nat, place: Position, by: Tabs \cup {NoTab}, gone: BOOLEAN]
Saving == [stage: {"none", "sent", "admitted", "saved", "refused", "absent"},
           place: Position, expects: Nat, answer: Known]
TabRecord == [knows: Nat, here: Position, conflict: Known, blocked: BOOLEAN, save: Saving]

\* A save, and a tab, that knows no version after v.
SaveSound(s, v) ==
  /\ s \in Saving
  /\ s.expects <= v /\ s.answer.version <= v
  /\ s.stage \in {"sent", "admitted"} => s.place \in Places
TabSound(x, v) ==
  /\ x \in TabRecord
  /\ x.knows <= v /\ x.conflict.version <= v /\ SaveSound(x.save, v)

VersionFor(t) == reading[OpenOn[t]].version

FilesOK ==
  /\ reading \in [Novels -> Known]
  /\ marks \in [Novels -> Nat]
  /\ cleaned \subseteq Novels

TabsSound ==
  /\ tab \in [Tabs -> TabRecord]
  /\ \A t \in Tabs : TabSound(tab[t], VersionFor(t))

\* One save at most that nobody waits for.
AdriftSound ==
  /\ adrift \subseteq [tab: Tabs, save: Saving]
  /\ \A a \in adrift : SaveSound(a.save, VersionFor(a.tab))
  /\ \A a, b \in adrift : a = b

\* Requests that were admitted before a removal expect a version of before it.
Outdated ==
  /\ cleaned \cap works = {}
  /\ \A t \in Tabs :
       OpenOn[t] \in cleaned /\ tab[t].save.stage = "admitted" =>
         tab[t].save.expects < VersionFor(t)
  /\ \A a \in adrift :
       OpenOn[a.tab] \in cleaned /\ a.save.stage = "admitted" => a.save.expects < VersionFor(a.tab)

ReaderInv ==
  /\ FilesOK /\ TabsSound /\ AdriftSound /\ Outdated /\ RemovedStaysEmpty

-----------------------------------------------------------------------------
(* Versions                                                                 *)

LEMMA NewestOf ==
  ASSUME NEW S \in SUBSET Nat, S # {}, NEW m \in Nat, \A v \in S : v <= m
  PROVE  /\ Newest(S) \in S
         /\ \A w \in S : w <= Newest(S)
<1> DEFINE Less == {ss \in Nat \X Nat : ss[1] < ss[2]}
           Rest == {m - v : v \in S}
<1>1. IsWellFoundedOn(Less, Nat)
  BY NatLessThanWellFounded DEF OpToRel
<1>2. Rest \in SUBSET Nat /\ Rest # {}
  <2>1. \A v \in S : m - v \in Nat
    OBVIOUS
  <2>2. QED
    BY <2>1
<1>3. PICK x \in Rest : \A y \in Rest : ~ (<<y, x>> \in Less)
  <2> HIDE DEF Less, Rest
  <2>1. QED
    BY <1>1, <1>2, WFMin
<1>4. PICK v \in S : x = m - v
  BY <1>3
<1>5. ASSUME NEW w \in S PROVE w <= v
  <2>1. m - w \in Rest /\ m - w \in Nat /\ m - v \in Nat
    OBVIOUS
  <2>2. ~ (m - w < m - v)
    BY <1>3, <1>4, <2>1
  <2>3. v \in Nat /\ w \in Nat
    OBVIOUS
  <2>4. QED
    BY <2>2, <2>3
<1>6. QED
  BY <1>4, <1>5 DEF Newest

\* What a tab may still send to the server is a version that exists.
KnownVersions == \A t \in Tabs :
  /\ VersionFor(t) \in Nat
  /\ Reachable(t) \subseteq 0..VersionFor(t)
  /\ Newest(Reachable(t)) \in Reachable(t)
  /\ \A w \in Reachable(t) : w <= Newest(Reachable(t))

LEMMA ReachableKnown == ReaderInv => KnownVersions
<1> SUFFICES ASSUME ReaderInv, NEW t \in Tabs
             PROVE  /\ VersionFor(t) \in Nat
                    /\ Reachable(t) \subseteq 0..VersionFor(t)
                    /\ Newest(Reachable(t)) \in Reachable(t)
                    /\ \A w \in Reachable(t) : w <= Newest(Reachable(t))
  BY DEF KnownVersions
<1>1. VersionFor(t) \in Nat
  BY ReaderAssumption DEF ReaderInv, FilesOK, Known, VersionFor
<1>2. {tab[t].knows, tab[t].conflict.version, tab[t].save.expects} \subseteq 0..VersionFor(t)
  BY <1>1 DEF ReaderInv, TabsSound, TabSound, SaveSound, TabRecord, Known, Saving
<1>3. ASSUME NEW a \in adrift, a.tab = t PROVE a.save.expects \in 0..VersionFor(t)
  BY <1>1, <1>3 DEF ReaderInv, AdriftSound, SaveSound, Saving
<1>4. Reachable(t) \subseteq 0..VersionFor(t) /\ Reachable(t) # {}
  BY <1>2, <1>3 DEF Reachable
<1>5. Reachable(t) \in SUBSET Nat /\ \A v \in Reachable(t) : v <= VersionFor(t)
  BY <1>1, <1>4
<1>6. QED
  BY <1>1, <1>4, <1>5, NewestOf

LEMMA KnownNext ==
  ReaderInv' => \A t \in Tabs :
    Newest(Reachable(t)') \in 0..VersionFor(t)' /\ Newest(Reachable(t)') \in Reachable(t)'
<1>1. ReaderInv' => KnownVersions'
  BY ReachableKnown, PTL
<1>2. QED
  BY <1>1 DEF KnownVersions

\* The register hears of a step of one tab as of something it learns.
LEMMA ViewStep ==
  ASSUME NEW t \in Tabs, OpenOn[t] \in Novels,
         \A u \in Tabs \ {t} : Reachable(u)' = Reachable(u)
  PROVE  RegisterView' = [RegisterView EXCEPT ![t][OpenOn[t]] = Newest(Reachable(t)')]
  BY DEF RegisterView

-----------------------------------------------------------------------------
(* Tabs and saves                                                           *)

LEMMA Empty == NoRecord \in Known /\ NoRecord.version = 0 /\ NoSave \in Saving
               /\ \A v \in Nat : SaveSound(NoSave, v)
  BY DEF NoRecord, NoSave, Known, Saving, Position, SaveSound

LEMMA LaterSound ==
  ASSUME NEW v \in Nat, NEW w \in Nat, v <= w, NEW x
  PROVE  /\ SaveSound(x, v) => SaveSound(x, w)
         /\ TabSound(x, v) => TabSound(x, w)
<1>1. ASSUME NEW s, SaveSound(s, v) PROVE SaveSound(s, w)
  BY <1>1 DEF SaveSound, Saving, Known
<1>2. QED
  BY <1>1 DEF TabSound, TabRecord, Known

LEMMA HereSound ==
  ASSUME NEW v \in Nat, NEW x, TabSound(x, v), NEW p \in Position
  PROVE  TabSound([x EXCEPT !.here = p], v) /\ [x EXCEPT !.here = p].save = x.save
  BY DEF TabSound, TabRecord

LEMMA SaveStep ==
  ASSUME NEW v \in Nat, NEW x, TabSound(x, v), NEW s, SaveSound(s, v)
  PROVE  TabSound([x EXCEPT !.save = s], v) /\ [x EXCEPT !.save = s].save = s
  BY DEF TabSound, TabRecord, SaveSound

LEMMA AcceptSound ==
  ASSUME NEW v \in Nat, NEW t \in Tabs, TabSound(tab[t], v), NEW rec \in Known, rec.version <= v
  PROVE  TabSound(Accept(t, rec), v) /\ Accept(t, rec).save = NoSave
<1> DEFINE x == tab[t]
<1>1. /\ x \in TabRecord /\ x.knows <= v /\ x.conflict.version <= v
      /\ SaveSound(NoSave, v) /\ NoSave \in Saving /\ NoRecord \in Known /\ NoRecord.version = 0
      /\ rec.version \in Nat
  BY Empty DEF TabSound, Known
<1>2. Accept(t, rec) \in { [x EXCEPT !.save = NoSave],
        [x EXCEPT !.knows = rec.version, !.blocked = TRUE, !.save = NoSave],
        [x EXCEPT !.knows = rec.version, !.blocked = FALSE, !.conflict = NoRecord, !.save = NoSave] }
  BY DEF Accept
<1> HIDE DEF x
<1>3. TabSound([x EXCEPT !.save = NoSave], v) /\ [x EXCEPT !.save = NoSave].save = NoSave
  BY <1>1 DEF TabSound, TabRecord
<1>4. ASSUME NEW y, y = [x EXCEPT !.knows = rec.version, !.blocked = TRUE, !.save = NoSave]
      PROVE  TabSound(y, v) /\ y.save = NoSave
  BY <1>1, <1>4 DEF TabSound, TabRecord
<1>5. ASSUME NEW y, y = [x EXCEPT !.knows = rec.version, !.blocked = FALSE, !.conflict = NoRecord,
                                  !.save = NoSave]
      PROVE  TabSound(y, v) /\ y.save = NoSave
  <2>1. y \in TabRecord /\ y.knows = rec.version /\ y.conflict = NoRecord /\ y.save = NoSave
    BY <1>1, <1>5 DEF TabRecord
  <2>2. QED
    BY <1>1, <2>1 DEF TabSound
<1>6. QED
  BY <1>2, <1>3, <1>4, <1>5

LEMMA ConflictSound ==
  ASSUME NEW v \in Nat, NEW t \in Tabs, TabSound(tab[t], v), NEW rec \in Known, rec.version <= v
  PROVE  TabSound(Conflict(t, rec), v) /\ Conflict(t, rec).save = NoSave
  BY Empty DEF Conflict, TabSound, TabRecord, Known

\* A step of one tab alone, which is let in only for a novel of the library.
LEMMA TabStep ==
  ASSUME ReaderInv, NEW t \in Tabs, NEW x, TabSound(x, VersionFor(t)),
         tab' = [tab EXCEPT ![t] = x],
         UNCHANGED <<works, files, adrift, cleaned>>,
         x.save.stage = "admitted" => x.save = tab[t].save \/ OpenOn[t] \in works
  PROVE  ReaderInv' /\ Register!Learn(t)
<1>1. ReaderInv'
  <2>1. FilesOK' /\ AdriftSound' /\ RemovedStaysEmpty'
    BY DEF ReaderInv, FilesOK, AdriftSound, RemovedStaysEmpty, files, VersionFor
  <2>2. TabsSound'
    BY DEF ReaderInv, TabsSound, TabSound, files, VersionFor
  <2>3. Outdated'
    BY DEF ReaderInv, Outdated, TabsSound, files, VersionFor
  <2>4. QED
    BY <2>1, <2>2, <2>3 DEF ReaderInv
<1>2. \A u \in Tabs \ {t} : Reachable(u)' = Reachable(u)
  BY DEF Reachable, ReaderInv, TabsSound
<1>3. Newest(Reachable(t)') \in 0..VersionFor(t)
  BY <1>1, KnownNext DEF VersionFor, files
<1>4. QED
  BY <1>1, <1>2, <1>3, ViewStep, ReaderAssumption DEF Register!Learn, VersionFor, files

\* A save that was let in replaces the position if it expects its version:
\* no tab can know a later one.
LEMMA ReplaceStep ==
  ASSUME ReaderInv, ReaderInv', NEW t \in Tabs, NEW p \in Places,
         VersionFor(t) \in Reachable(t),
         Reachable(t)' \subseteq Reachable(t) \cup {0},
         \A u \in Tabs \ {t} : Reachable(u)' = Reachable(u),
         reading' = [reading EXCEPT ![OpenOn[t]] = Put(@, p, t)]
  PROVE  Register!Replace(t, OpenOn[t])
<1> DEFINE n == OpenOn[t]
<1>1. n \in Novels /\ VersionFor(t) = reading[n].version
  BY ReaderAssumption DEF VersionFor
<1>2. RegisterView[t][n] = reading[n].version
  <2>1. Newest(Reachable(t)) = VersionFor(t)
    BY ReachableKnown DEF KnownVersions
  <2>2. QED
    BY <1>1, <2>1 DEF RegisterView
<1>3. Newest(Reachable(t)') \in 0..reading[n].version
  <2>1. Newest(Reachable(t)') \in Nat
    BY <1>1, KnownNext
  <2>2. VersionFor(t) \in Nat /\ Reachable(t) \subseteq 0..VersionFor(t)
    BY ReachableKnown DEF KnownVersions
  <2>3. Newest(Reachable(t)') \in Reachable(t)'
    BY KnownNext
  <2>4. QED
    BY <1>1, <2>1, <2>2, <2>3
<1>4. RegisterView' = [RegisterView EXCEPT ![t][n] = Newest(Reachable(t)')]
  BY <1>1, ViewStep
<1>5. /\ [m \in Novels |-> reading[m].version]' = [[m \in Novels |-> reading[m].version] EXCEPT ![n] = @ + 1]
      /\ [m \in Novels |-> reading[m].place]' = [[m \in Novels |-> reading[m].place] EXCEPT ![n] = p]
  BY <1>1 DEF ReaderInv, FilesOK, Known, Put
<1>6. QED
  BY <1>1, <1>2, <1>3, <1>4, <1>5 DEF Register!Replace

\* Versions that only grow leave every tab and every save sound.
LEMMA GrowingStep ==
  ASSUME ReaderInv, FilesOK', UNCHANGED <<tab, adrift>>,
         \A n \in Novels : reading[n].version <= reading'[n].version
  PROVE  TabsSound' /\ AdriftSound' /\ RegisterView' = RegisterView
<1>1. ASSUME NEW t \in Tabs
      PROVE VersionFor(t) \in Nat /\ VersionFor(t)' \in Nat /\ VersionFor(t) <= VersionFor(t)'
  BY ReaderAssumption DEF ReaderInv, FilesOK, Known, VersionFor
<1>2. TabsSound'
  BY <1>1, LaterSound DEF ReaderInv, TabsSound
<1>3. AdriftSound'
  BY <1>1, LaterSound DEF ReaderInv, AdriftSound
<1>4. RegisterView' = RegisterView
  BY DEF RegisterView, Reachable
<1>5. QED
  BY <1>2, <1>3, <1>4

\* What changes neither positions nor tabs is no step of the register.
LEMMA Stuttering ==
  ASSUME UNCHANGED <<reading, tab, adrift>>
  PROVE  UNCHANGED Register!register
  BY DEF Register!register, RegisterView, Reachable

-----------------------------------------------------------------------------
(* The steps                                                                *)

LEMMA SyncStep ==
  ASSUME ReaderInv, NEW t \in Tabs, Sync(t) PROVE ReaderInv' /\ Register!Learn(t)
<1> DEFINE rec == Shown(OpenOn[t])
           v == VersionFor(t)
<1>1. v \in Nat /\ TabSound(tab[t], v) /\ SaveSound(tab[t].save, v)
  BY ReachableKnown DEF KnownVersions, ReaderInv, TabsSound, TabSound
<1>2. rec \in Known /\ rec.version <= v
  <2>1. OpenOn[t] \in Novels
    BY ReaderAssumption
  <2>2. rec \in Known /\ rec.version = v
    BY <2>1 DEF ReaderInv, FilesOK, Known, Shown, VersionFor
  <2>3. QED
    BY <1>1, <2>2
<1>3. rec.place \in Position
  BY <1>2 DEF Known
<1>4. PICK x : /\ TabSound(x, v) /\ x.save = tab[t].save /\ tab' = [tab EXCEPT ![t] = x]
  <2> HIDE DEF rec, v
  <2>1. TabSound(Accept(t, rec), v) /\ TabSound(Conflict(t, rec), v)
    BY <1>1, <1>2, AcceptSound, ConflictSound
  <2>2. TabSound([Accept(t, rec) EXCEPT !.here = rec.place], v)
    BY <1>1, <1>3, <2>1, HereSound
  <2>3. \A y : TabSound(y, v) => TabSound([y EXCEPT !.save = tab[t].save], v)
                              /\ [y EXCEPT !.save = tab[t].save].save = tab[t].save
    BY <1>1, SaveStep
  <2>4. [Accept(t, rec) EXCEPT !.here = rec.place, !.save = tab[t].save]
          = [[Accept(t, rec) EXCEPT !.here = rec.place] EXCEPT !.save = tab[t].save]
    BY <2>1 DEF TabSound, TabRecord
  <2>5. \/ tab' = [tab EXCEPT ![t] = [[Accept(t, rec) EXCEPT !.here = rec.place] EXCEPT !.save = tab[t].save]]
        \/ tab' = [tab EXCEPT ![t] = [Conflict(t, rec) EXCEPT !.save = tab[t].save]]
        \/ tab' = [tab EXCEPT ![t] = [Accept(t, rec) EXCEPT !.save = tab[t].save]]
    BY <2>4 DEF Sync, rec
  <2>6. QED
    BY <2>1, <2>2, <2>3, <2>5
<1>5. QED
  BY <1>4, TabStep DEF Sync

LEMMA SavingStep ==
  ASSUME ReaderInv, NEW t \in Tabs, Overwrite(t) \/ \E p \in Places : Save(t, p)
  PROVE  ReaderInv' /\ Register!Learn(t)
<1> DEFINE v == VersionFor(t)
<1>1. v \in Nat /\ TabSound(tab[t], v)
  BY ReachableKnown DEF KnownVersions, ReaderInv, TabsSound
<1> HIDE DEF v
<1>2. CASE Overwrite(t)
  <2> DEFINE s == [NoSave EXCEPT !.stage = "sent", !.place = tab[t].here,
                                 !.expects = tab[t].conflict.version]
  <2>1. SaveSound(s, v)
    BY <1>1, <1>2, Empty DEF Overwrite, TabSound, SaveSound, TabRecord, Known, Saving, Position, NoSave
  <2>2. TabSound([tab[t] EXCEPT !.save = s], v) /\ [tab[t] EXCEPT !.save = s].save = s
    BY <1>1, <2>1, SaveStep
  <2>3. tab' = [tab EXCEPT ![t] = [tab[t] EXCEPT !.save = s]]
    BY <1>2 DEF Overwrite, ReaderInv, TabsSound
  <2>4. s.stage # "admitted"
    BY DEF NoSave
  <2>5. QED
    BY <1>2, <2>2, <2>3, <2>4, TabStep DEF Overwrite, v
<1>3. ASSUME NEW p \in Places, Save(t, p) PROVE ReaderInv' /\ Register!Learn(t)
  <2> DEFINE s == [NoSave EXCEPT !.stage = "sent", !.place = p, !.expects = tab[t].knows]
             x == [tab[t] EXCEPT !.here = p]
  <2>1. SaveSound(s, v)
    BY <1>1, Empty DEF TabSound, SaveSound, TabRecord, Known, Saving, Position, NoSave
  <2>2. TabSound(x, v)
    BY <1>1, HereSound DEF Position
  <2>3. TabSound([x EXCEPT !.save = s], v) /\ [x EXCEPT !.save = s].save = s
    BY <1>1, <2>1, <2>2, SaveStep
  <2>4. tab' = [tab EXCEPT ![t] = [x EXCEPT !.save = s]]
    BY <1>3 DEF Save, ReaderInv, TabsSound, TabRecord
  <2>5. s.stage # "admitted"
    BY DEF NoSave
  <2>6. QED
    BY <1>3, <2>3, <2>4, <2>5, TabStep DEF Save, v
<1>4. QED
  BY <1>2, <1>3

LEMMA ApplyStep ==
  ASSUME ReaderInv, NEW t \in Tabs, Apply(t) PROVE ReaderInv' /\ Register!Learn(t)
<1> DEFINE v == VersionFor(t)
           rec == tab[t].conflict
           x == [Accept(t, rec) EXCEPT !.here = rec.place]
<1>1. v \in Nat /\ TabSound(tab[t], v)
  BY ReachableKnown DEF KnownVersions, ReaderInv, TabsSound
<1>2. rec \in Known /\ rec.version <= v /\ rec.place \in Position
  BY <1>1 DEF TabSound, TabRecord, Known
<1>3. TabSound(x, v) /\ x.save = NoSave
  BY <1>1, <1>2, AcceptSound, HereSound
<1>4. tab' = [tab EXCEPT ![t] = x]
  BY DEF Apply
<1>5. x.save.stage # "admitted"
  BY <1>3 DEF NoSave
<1> HIDE DEF x
<1>6. QED
  BY <1>3, <1>4, <1>5, TabStep DEF Apply

LEMMA ReloadStep ==
  ASSUME ReaderInv, NEW t \in Tabs, Reload(t) PROVE ReaderInv' /\ Register!Learn(t)
<1> DEFINE v == VersionFor(t)
           x == [tab[t] EXCEPT !.knows = 0, !.here = NoPlace, !.blocked = FALSE, !.conflict = NoRecord]
<1>1. v \in Nat /\ TabSound(tab[t], v)
  BY ReachableKnown DEF KnownVersions, ReaderInv, TabsSound
<1>2. TabSound(x, v) /\ x.save = NoSave
  <2>1. x.save = tab[t].save /\ tab[t].save = NoSave
    BY <1>1 DEF TabSound, TabRecord, Reload
  <2>2. x \in TabRecord /\ x.knows = 0 /\ x.conflict = NoRecord
    BY <1>1, Empty DEF TabSound, TabRecord, Position
  <2>3. QED
    BY <1>1, <2>1, <2>2, Empty DEF TabSound
<1>3. tab' = [tab EXCEPT ![t] = x]
  BY DEF Reload, ReaderInv, TabsSound, TabRecord
<1>4. x.save.stage # "admitted"
  BY <1>2 DEF NoSave
<1> HIDE DEF x
<1>5. QED
  BY <1>2, <1>3, <1>4, TabStep DEF Reload

LEMMA DeliverStep ==
  ASSUME ReaderInv, NEW t \in Tabs, Deliver(t) PROVE ReaderInv' /\ Register!Learn(t)
<1> DEFINE v == VersionFor(t)
           s == tab[t].save
           quiet == [tab[t] EXCEPT !.save = NoSave]
<1>1. v \in Nat /\ TabSound(tab[t], v)
  BY ReachableKnown DEF KnownVersions, ReaderInv, TabsSound
<1>2. s.answer \in Known /\ s.answer.version <= v
  BY <1>1 DEF TabSound, SaveSound, Saving
<1>3. TabSound(quiet, v) /\ quiet.save = NoSave
  BY <1>1, SaveStep, Empty
<1>4. /\ TabSound(Accept(t, s.answer), v) /\ Accept(t, s.answer).save = NoSave
      /\ TabSound(Conflict(t, s.answer), v) /\ Conflict(t, s.answer).save = NoSave
  BY <1>1, <1>2, AcceptSound, ConflictSound
<1>5. \/ tab' = [tab EXCEPT ![t] = quiet]
      \/ tab' = [tab EXCEPT ![t] = Accept(t, s.answer)]
      \/ tab' = [tab EXCEPT ![t] = Conflict(t, s.answer)]
  BY DEF Deliver
<1>6. NoSave.stage # "admitted"
  BY DEF NoSave
<1>7. PICK x : TabSound(x, v) /\ x.save = NoSave /\ tab' = [tab EXCEPT ![t] = x]
  <2> HIDE DEF quiet, v
  <2>1. QED
    BY <1>3, <1>4, <1>5
<1>8. QED
  BY <1>6, <1>7, TabStep DEF Deliver

LEMMA AdmitSaveStep ==
  ASSUME ReaderInv, NEW t \in Tabs, AdmitSave(t) PROVE ReaderInv' /\ Register!Learn(t)
<1> DEFINE v == VersionFor(t)
           s == [tab[t].save EXCEPT !.stage = IF OpenOn[t] \in works THEN "admitted" ELSE "absent"]
           x == [tab[t] EXCEPT !.save = s]
<1>1. v \in Nat /\ TabSound(tab[t], v)
  BY ReachableKnown DEF KnownVersions, ReaderInv, TabsSound
<1>2. SaveSound(s, v)
  BY <1>1 DEF TabSound, SaveSound, Saving, AdmitSave
<1>3. TabSound(x, v) /\ x.save = s
  BY <1>1, <1>2, SaveStep
<1>4. tab' = [tab EXCEPT ![t] = x]
  BY DEF AdmitSave, ReaderInv, TabsSound, TabRecord
<1>5. s.stage = "admitted" => OpenOn[t] \in works
  BY <1>1 DEF TabSound, SaveSound, Saving
<1> HIDE DEF x, s
<1>6. QED
  BY <1>3, <1>4, <1>5, TabStep DEF AdmitSave

LEMMA GiveUpStep ==
  ASSUME ReaderInv, NEW t \in Tabs, GiveUp(t) PROVE ReaderInv' /\ Register!Learn(t)
<1> DEFINE v == VersionFor(t)
           s == tab[t].save
           x == [tab[t] EXCEPT !.save = NoSave]
<1>1. v \in Nat /\ TabSound(tab[t], v)
  BY ReachableKnown DEF KnownVersions, ReaderInv, TabsSound
<1>2. TabSound(x, v) /\ x.save = NoSave /\ NoSave.stage # "admitted"
  BY <1>1, SaveStep, Empty DEF NoSave
<1>3. tab' = [tab EXCEPT ![t] = x]
  BY DEF GiveUp
<1>4. CASE adrift' = adrift
  <2> HIDE DEF x
  <2>1. QED
    BY <1>2, <1>3, <1>4, TabStep DEF GiveUp
<1>5. CASE /\ s.stage \in {"sent", "admitted"} /\ adrift = {}
           /\ adrift' = {[tab |-> t, save |-> s]}
  <2> HIDE DEF x
  <2>1. ReaderInv'
    <3>1. FilesOK' /\ RemovedStaysEmpty'
      BY DEF GiveUp, ReaderInv, FilesOK, RemovedStaysEmpty, files
    <3>2. TabsSound'
      BY <1>2, <1>3 DEF GiveUp, ReaderInv, TabsSound, TabSound, files, VersionFor
    <3>3. AdriftSound'
      BY <1>1, <1>5 DEF GiveUp, AdriftSound, files, VersionFor, TabSound, SaveSound
    <3>4. Outdated'
      BY <1>2, <1>3, <1>5 DEF GiveUp, ReaderInv, Outdated, TabsSound, files, VersionFor
    <3>5. QED
      BY <3>1, <3>2, <3>3, <3>4 DEF ReaderInv
  <2>2. \A u \in Tabs \ {t} : Reachable(u)' = Reachable(u)
    BY <1>3, <1>5 DEF Reachable, ReaderInv, TabsSound
  <2>3. Newest(Reachable(t)') \in 0..VersionFor(t)
    BY <2>1, KnownNext DEF VersionFor, files, GiveUp
  <2>4. QED
    BY <2>1, <2>2, <2>3, ViewStep, ReaderAssumption DEF Register!Learn, VersionFor, files, GiveUp
<1>6. QED
  BY <1>4, <1>5 DEF GiveUp

\* A position that is replaced by a save is that of a novel which was not
\* cleaned up, and nothing else of it changes.
LEMMA SavedSound ==
  ASSUME ReaderInv, NEW n \in Novels, NEW s \in Saving, s.place \in Places, NEW t \in Tabs,
         Saved(n, t, s), n \notin cleaned, UNCHANGED <<works, marks, tuned, cleaned>>
  PROVE  /\ FilesOK' /\ RemovedStaysEmpty'
         /\ reading[n].version \in Nat /\ reading'[n].version = reading[n].version + 1
         /\ \A m \in Novels : reading[m].version \in Nat /\ reading[m].version <= reading'[m].version
<1>1. FilesOK'
  BY DEF ReaderInv, FilesOK, Saved, Put, Known, Position
<1>2. RemovedStaysEmpty'
  BY DEF ReaderInv, FilesOK, RemovedStaysEmpty, Saved
<1>3. \A m \in Novels : reading[m].version \in Nat
  BY DEF ReaderInv, FilesOK, Known
<1>4. reading'[n].version = reading[n].version + 1
  BY DEF ReaderInv, FilesOK, Saved, Put
<1>5. \A m \in Novels \ {n} : reading'[m] = reading[m]
  BY DEF ReaderInv, FilesOK, Saved
<1>6. QED
  BY <1>1, <1>2, <1>3, <1>4, <1>5

LEMMA PutSaveStep ==
  ASSUME ReaderInv, NEW t \in Tabs, PutSave(t)
  PROVE  ReaderInv' /\ (Register!Learn(t) \/ Register!Replace(t, OpenOn[t]))
<1> DEFINE v == VersionFor(t)
           n == OpenOn[t]
           s == tab[t].save
<1>1. v \in Nat /\ TabSound(tab[t], v) /\ n \in Novels /\ v = reading[n].version
  BY ReachableKnown, ReaderAssumption DEF KnownVersions, ReaderInv, TabsSound, VersionFor
<1>2. s \in Saving /\ s.stage = "admitted" /\ s.place \in Places /\ SaveSound(s, v)
  BY <1>1 DEF TabSound, SaveSound, PutSave
<1>3. CASE ~Current(n, s)
  <2> DEFINE a == [s EXCEPT !.stage = "refused", !.answer = Shown(n)]
             x == [tab[t] EXCEPT !.save = a]
  <2>1. Shown(n) \in Known /\ Shown(n).version = v
    BY <1>1 DEF ReaderInv, FilesOK, Known, Shown
  <2>2. SaveSound(a, v) /\ a.stage # "admitted"
    <3>1. a \in Saving /\ a.stage = "refused" /\ a.expects = s.expects /\ a.answer = Shown(n)
      BY <1>2, <2>1 DEF Saving
    <3>2. QED
      BY <1>1, <1>2, <2>1, <3>1 DEF SaveSound
  <2>3. TabSound(x, v) /\ x.save = a
    BY <1>1, <2>2, SaveStep
  <2>4. tab' = [tab EXCEPT ![t] = x]
    BY <1>3, ZenonT(60) DEF PutSave, ReaderInv, TabsSound, TabRecord, Saving
  <2> HIDE DEF x, a
  <2>5. QED
    BY <1>3, <2>2, <2>3, <2>4, TabStep DEF PutSave, files
<1>4. CASE Current(n, s)
  <2> DEFINE a == [s EXCEPT !.stage = "saved", !.place = NoPlace, !.expects = 0,
                            !.answer = Put(reading[n], s.place, NoTab)]
             x == [tab[t] EXCEPT !.save = a]
  <2>1. s.expects = v
    BY <1>1, <1>4 DEF Current
  <2>2. n \notin cleaned
    BY <1>1, <1>2, <2>1 DEF ReaderInv, Outdated, VersionFor
  <2>3. Saved(n, t, s) /\ UNCHANGED <<works, marks, tuned, cleaned, adrift>>
    BY <1>4 DEF PutSave
  <2>4. /\ FilesOK' /\ RemovedStaysEmpty'
        /\ reading'[n].version = v + 1
        /\ \A m \in Novels : reading[m].version \in Nat /\ reading[m].version <= reading'[m].version
    BY <1>1, <1>2, <2>2, <2>3, SavedSound
  <2>5. tab' = [tab EXCEPT ![t] = x]
    <3>1. tab' = [tab EXCEPT ![t].save.stage = "saved", ![t].save.place = NoPlace,
                             ![t].save.expects = 0, ![t].save.answer = Put(reading[n], s.place, NoTab)]
      BY <1>4 DEF PutSave
    <3>2. tab[t] \in TabRecord /\ tab \in [Tabs -> TabRecord]
      BY DEF ReaderInv, TabsSound
    <3>3. QED
      BY <3>1, <3>2, ZenonT(60) DEF TabRecord, Saving
  <2>6. SaveSound(a, v + 1) /\ a.stage # "admitted" /\ a.expects = 0
    <3>1. Put(reading[n], s.place, NoTab) \in Known /\ Put(reading[n], s.place, NoTab).version = v + 1
      BY <1>1, <1>2 DEF Put, Known, Position
    <3>2. /\ a \in Saving /\ a.stage = "saved" /\ a.expects = 0
          /\ a.answer = Put(reading[n], s.place, NoTab)
      BY <1>2, <3>1 DEF Saving, Position
    <3>3. QED
      BY <1>1, <3>1, <3>2 DEF SaveSound
  <2>7. /\ TabSound(x, v + 1) /\ x.save = a
        /\ x.knows = tab[t].knows /\ x.conflict = tab[t].conflict
    <3>1. TabSound(tab[t], v + 1)
      BY <1>1, LaterSound
    <3>2. QED
      BY <1>1, <2>6, <3>1, SaveStep DEF TabSound, TabRecord
  <2> HIDE DEF x, a
  <2>8. \A u \in Tabs : VersionFor(u) \in Nat /\ VersionFor(u)' \in Nat /\ VersionFor(u) <= VersionFor(u)'
    BY <2>4, ReaderAssumption DEF VersionFor, FilesOK, Known
  <2>9. ReaderInv'
    <3>1. TabsSound'
      BY <1>1, <2>4, <2>5, <2>7, <2>8, LaterSound DEF ReaderInv, TabsSound, VersionFor, TabSound
    <3>2. AdriftSound'
      BY <2>3, <2>8, LaterSound DEF ReaderInv, AdriftSound
    <3>3. Outdated'
      <4>1. ASSUME NEW u \in Tabs, OpenOn[u] \in cleaned, tab'[u].save.stage = "admitted"
            PROVE  tab'[u].save.expects < VersionFor(u)'
        <5>1. u # t
          BY <2>2, <4>1
        <5>2. tab'[u] = tab[u]
          BY <2>5, <5>1 DEF ReaderInv, TabsSound
        <5>3. tab[u].save.expects < VersionFor(u) /\ tab[u].save.expects \in Nat
          BY <4>1, <5>2 DEF ReaderInv, Outdated, TabsSound, TabRecord, Saving
        <5>4. QED
          BY <2>8, <5>2, <5>3
      <4>2. ASSUME NEW b \in adrift, OpenOn[b.tab] \in cleaned, b.save.stage = "admitted"
            PROVE  b.save.expects < VersionFor(b.tab)'
        BY <2>8, <4>2 DEF ReaderInv, Outdated, AdriftSound, Saving
      <4>3. QED
        BY <2>3, <4>1, <4>2 DEF ReaderInv, Outdated
    <3>4. QED
      BY <2>4, <3>1, <3>2, <3>3 DEF ReaderInv
  <2>10. Register!Replace(t, n)
    <3>1. v \in Reachable(t)
      BY <2>1 DEF Reachable
    <3>2. Reachable(t)' \subseteq Reachable(t) \cup {0}
      BY <2>3, <2>5, <2>6, <2>7 DEF Reachable, ReaderInv, TabsSound
    <3>3. \A u \in Tabs \ {t} : Reachable(u)' = Reachable(u)
      BY <2>3, <2>5 DEF Reachable, ReaderInv, TabsSound
    <3>4. reading' = [reading EXCEPT ![n] = Put(@, s.place, t)]
      BY <2>3 DEF Saved
    <3>5. QED
      BY <1>2, <2>9, <3>1, <3>2, <3>3, <3>4, ReplaceStep
  <2>11. QED
    BY <2>9, <2>10
<1>5. QED
  BY <1>3, <1>4

LEMMA PutAdriftStep ==
  ASSUME ReaderInv, PutAdrift
  PROVE  /\ ReaderInv'
         /\ \/ UNCHANGED Register!register
            \/ \E t \in Tabs : Register!Learn(t) \/ Register!Replace(t, OpenOn[t])
<1>1. PICK a \in adrift :
        LET n == OpenOn[a.tab] IN
        \/ /\ a.save.stage = "sent" /\ n \in works
           /\ adrift' = {[a EXCEPT !.save.stage = "admitted"]}
           /\ UNCHANGED reading
        \/ /\ a.save.stage = "admitted"
           /\ IF Current(n, a.save) THEN Saved(n, a.tab, a.save) ELSE UNCHANGED reading
           /\ adrift' = {}
  BY DEF PutAdrift
<1> DEFINE t == a.tab
           n == OpenOn[t]
           s == a.save
           v == VersionFor(t)
<1>2. UNCHANGED <<works, marks, tuned, tab, cleaned>>
  BY DEF PutAdrift
<1>3. /\ t \in Tabs /\ s \in Saving /\ a = [tab |-> t, save |-> s] /\ adrift = {a}
      /\ n \in Novels /\ v \in Nat /\ v = reading[n].version /\ SaveSound(s, v)
  <2>1. t \in Tabs /\ s \in Saving /\ a = [tab |-> t, save |-> s] /\ adrift = {a} /\ SaveSound(s, v)
    BY <1>1 DEF ReaderInv, AdriftSound
  <2>2. QED
    BY <2>1, ReachableKnown, ReaderAssumption DEF KnownVersions, VersionFor
<1>4. CASE /\ s.stage = "sent" /\ n \in works
           /\ adrift' = {[a EXCEPT !.save.stage = "admitted"]} /\ UNCHANGED reading
  <2> DEFINE b == [a EXCEPT !.save.stage = "admitted"]
  <2>1. /\ b \in [tab: Tabs, save: Saving] /\ b.tab = t /\ b.save.expects = s.expects
        /\ SaveSound(b.save, v)
    BY <1>3, <1>4 DEF Saving, SaveSound
  <2> HIDE DEF b
  <2>2. ReaderInv'
    <3>1. FilesOK' /\ RemovedStaysEmpty' /\ TabsSound'
      BY <1>2, <1>4 DEF ReaderInv, FilesOK, RemovedStaysEmpty, TabsSound, VersionFor
    <3>2. AdriftSound'
      BY <1>4, <2>1 DEF AdriftSound, VersionFor, b
    <3>3. Outdated'
      BY <1>2, <1>3, <1>4, <2>1 DEF ReaderInv, Outdated, VersionFor, b
    <3>4. QED
      BY <3>1, <3>2, <3>3 DEF ReaderInv
  <2>3. \A u \in Tabs : Reachable(u)' = Reachable(u)
    BY <1>2, <1>3, <1>4, <2>1 DEF Reachable, b
  <2>4. UNCHANGED Register!register
    BY <1>4, <2>3 DEF Register!register, RegisterView
  <2>5. QED
    BY <2>2, <2>4
<1>5. CASE s.stage = "admitted" /\ adrift' = {} /\ ~Current(n, s) /\ UNCHANGED reading
  <2>1. ReaderInv'
    BY <1>2, <1>5 DEF ReaderInv, FilesOK, RemovedStaysEmpty, TabsSound, VersionFor, AdriftSound, Outdated
  <2>2. \A u \in Tabs \ {t} : Reachable(u)' = Reachable(u)
    BY <1>2, <1>3, <1>5 DEF Reachable
  <2>3. Newest(Reachable(t)') \in 0..VersionFor(t)
    BY <1>3, <1>5, <2>1, KnownNext DEF VersionFor
  <2>4. Register!Learn(t)
    BY <1>3, <1>5, <2>2, <2>3, ViewStep DEF Register!Learn, VersionFor
  <2>5. QED
    BY <1>3, <2>1, <2>4
<1>6. CASE s.stage = "admitted" /\ adrift' = {} /\ Current(n, s) /\ Saved(n, t, s)
  <2>1. s.expects = v /\ s.place \in Places
    BY <1>3, <1>6 DEF Current, SaveSound
  <2>2. n \notin cleaned
    BY <1>1, <1>3, <1>6, <2>1 DEF ReaderInv, Outdated
  <2>3. /\ FilesOK' /\ RemovedStaysEmpty'
        /\ \A m \in Novels : reading[m].version \in Nat /\ reading[m].version <= reading'[m].version
    BY <1>2, <1>3, <1>6, <2>1, <2>2, SavedSound
  <2>4. \A u \in Tabs : VersionFor(u) \in Nat /\ VersionFor(u)' \in Nat /\ VersionFor(u) <= VersionFor(u)'
    BY <2>3, ReaderAssumption DEF VersionFor, FilesOK, Known
  <2>5. ReaderInv'
    <3>1. TabsSound'
      BY <1>2, <2>4, LaterSound DEF ReaderInv, TabsSound
    <3>2. AdriftSound'
      BY <1>6 DEF AdriftSound
    <3>3. Outdated'
      <4>1. ASSUME NEW u \in Tabs, OpenOn[u] \in cleaned, tab[u].save.stage = "admitted"
            PROVE  tab[u].save.expects < VersionFor(u)'
        BY <2>4, <4>1 DEF ReaderInv, Outdated, TabsSound, TabRecord, Saving
      <4>2. QED
        BY <1>2, <1>6, <4>1 DEF ReaderInv, Outdated
    <3>4. QED
      BY <2>3, <3>1, <3>2, <3>3 DEF ReaderInv
  <2>6. v \in Reachable(t)
    BY <1>3, <2>1 DEF Reachable
  <2>7. Reachable(t)' \subseteq Reachable(t) /\ \A u \in Tabs \ {t} : Reachable(u)' = Reachable(u)
    BY <1>2, <1>3, <1>6 DEF Reachable
  <2>8. reading' = [reading EXCEPT ![n] = Put(@, s.place, t)]
    BY <1>6 DEF Saved
  <2>9. Register!Replace(t, n)
    BY <1>3, <2>1, <2>5, <2>6, <2>7, <2>8, ReplaceStep
  <2>10. QED
    BY <1>3, <2>5, <2>9
<1>7. QED
  BY <1>1, <1>4, <1>5, <1>6

\* The steps that change no position.
LEMMA QuietStep ==
  ASSUME ReaderInv, UNCHANGED <<reading, tab, adrift>>, cleaned' \cap works' = {},
         FilesOK', RemovedStaysEmpty', cleaned' \subseteq cleaned
  PROVE  ReaderInv' /\ UNCHANGED Register!register
<1>1. TabsSound' /\ AdriftSound' /\ Outdated'
  BY DEF ReaderInv, TabsSound, AdriftSound, Outdated, VersionFor
<1>2. QED
  BY <1>1, Stuttering DEF ReaderInv

LEMMA FileSteps ==
  ASSUME ReaderInv, NEW n \in Novels,
         \/ AdmitBookmark(n) \/ AdmitSettings(n) \/ AdmitImport(n)
         \/ CreateBookmark(n) \/ DeleteBookmark(n) \/ PatchSettings(n) \/ Download(n)
  PROVE  ReaderInv' /\ UNCHANGED Register!register
<1>1. CASE AdmitBookmark(n) \/ AdmitSettings(n) \/ AdmitImport(n)
  BY <1>1, QuietStep DEF AdmitBookmark, AdmitSettings, AdmitImport, Admit, files,
    ReaderInv, FilesOK, RemovedStaysEmpty, Outdated
<1>2. CASE CreateBookmark(n)
  <2>1. FilesOK' /\ RemovedStaysEmpty'
    BY <1>2 DEF CreateBookmark, Refuses, ReaderInv, FilesOK, RemovedStaysEmpty
  <2>2. QED
    BY <1>2, <2>1, QuietStep DEF CreateBookmark, ReaderInv, Outdated
<1>3. CASE DeleteBookmark(n)
  <2>1. FilesOK' /\ RemovedStaysEmpty'
    BY <1>3 DEF DeleteBookmark, ReaderInv, FilesOK, RemovedStaysEmpty
  <2>2. QED
    BY <1>3, <2>1, QuietStep DEF DeleteBookmark, ReaderInv, Outdated
<1>4. CASE PatchSettings(n)
  <2>1. FilesOK' /\ RemovedStaysEmpty'
    BY <1>4 DEF PatchSettings, Refuses, ReaderInv, FilesOK, RemovedStaysEmpty
  <2>2. QED
    BY <1>4, <2>1, QuietStep DEF PatchSettings, ReaderInv, Outdated
<1>5. CASE Download(n)
  <2>1. FilesOK' /\ RemovedStaysEmpty'
    BY <1>5 DEF Download, files, ReaderInv, FilesOK, RemovedStaysEmpty
  <2>2. cleaned' \cap works' = {} /\ cleaned' \subseteq cleaned
    BY <1>5 DEF Download, ReaderInv, Outdated
  <2>3. QED
    BY <1>5, <2>1, <2>2, QuietStep DEF Download, files
<1>6. QED
  BY <1>1, <1>2, <1>3, <1>4, <1>5

LEMMA RemovalSteps ==
  ASSUME ReaderInv, (\E D \in SUBSET Novels : Remove(D)) \/ Preflight \/ RemovalStops
  PROVE  ReaderInv' /\ UNCHANGED Register!register
<1>1. UNCHANGED <<reading, marks, tuned, tab, adrift, cleaned>> /\ works' \subseteq works
  BY DEF Remove, Preflight, RemovalStops, files
<1>2. QED
  BY <1>1, QuietStep DEF ReaderInv, FilesOK, RemovedStaysEmpty, Outdated

\* An import fills the positions that are missing; an erased one keeps its
\* version growing.
LEMMA ImportStep ==
  ASSUME ReaderInv, NEW p \in Places, ImportLibrary(p)
  PROVE  ReaderInv' /\ [Register!Fill]_(Register!register)
<1> DEFINE D == {n \in Novels : <<"import", n>> \in admitted}
           empty == {n \in D : reading[n].place = NoPlace}
           positions == [n \in Novels |-> IF n \in empty THEN Put(reading[n], p, NoTab) ELSE reading[n]]
           bookmarks == [n \in Novels |-> IF n \in D /\ marks[n] = 0 THEN 1 ELSE marks[n]]
<1>1. UNCHANGED <<works, tuned, tab, adrift>>
  BY DEF ImportLibrary
<1>2. \/ reading' = positions /\ marks' \in {marks, bookmarks} /\ cleaned' = cleaned \ D
      \/ UNCHANGED <<reading, marks, cleaned>>
  BY DEF ImportLibrary
<1>3. CASE UNCHANGED <<reading, marks, cleaned>>
  <2>1. FilesOK' /\ RemovedStaysEmpty' /\ cleaned' \cap works' = {} /\ cleaned' \subseteq cleaned
    BY <1>1, <1>3 DEF ReaderInv, FilesOK, RemovedStaysEmpty, Outdated
  <2>2. QED
    BY <1>1, <1>3, <2>1, QuietStep
<1>4. CASE reading' = positions /\ marks' \in {marks, bookmarks} /\ cleaned' = cleaned \ D
  <2>1. positions \in [Novels -> Known] /\ bookmarks \in [Novels -> Nat]
    BY DEF ReaderInv, FilesOK, Known, Put, Position
  <2>2. FilesOK'
    BY <1>4, <2>1 DEF ReaderInv, FilesOK
  <2>3. \A n \in Novels : /\ reading[n].version \in Nat
                          /\ reading'[n].version = reading[n].version + (IF n \in empty THEN 1 ELSE 0)
                          /\ reading'[n].place = IF n \in empty THEN p ELSE reading[n].place
    <3> HIDE DEF empty
    <3>1. QED
      BY <1>4 DEF ReaderInv, FilesOK, Known, Put
  <2>4. TabsSound' /\ AdriftSound' /\ RegisterView' = RegisterView
    <3>1. \A n \in Novels : reading[n].version <= reading'[n].version
      <4> HIDE DEF empty
      <4>1. QED
        BY <2>3
    <3>2. QED
      BY <1>1, <2>2, <3>1, GrowingStep
  <2>5. RemovedStaysEmpty'
    <3>1. ASSUME NEW n \in Novels \ D PROVE reading'[n] = reading[n] /\ marks'[n] = marks[n]
      BY <1>4 DEF ReaderInv, FilesOK
    <3>2. \A n \in cleaned' : n \in cleaned /\ n \in Novels \ D
      BY <1>4 DEF ReaderInv, FilesOK
    <3> HIDE DEF D
    <3>3. QED
      BY <1>1, <3>1, <3>2 DEF ReaderInv, RemovedStaysEmpty
  <2>6. Outdated'
    <3>1. \A t \in Tabs : VersionFor(t) \in Nat /\ VersionFor(t)' \in Nat /\ VersionFor(t) <= VersionFor(t)'
      <4> HIDE DEF empty
      <4>1. QED
        BY <2>3, ReaderAssumption DEF VersionFor
    <3>2. ASSUME NEW t \in Tabs, OpenOn[t] \in cleaned', tab[t].save.stage = "admitted"
          PROVE tab[t].save.expects < VersionFor(t)'
      BY <1>4, <3>1, <3>2 DEF ReaderInv, Outdated, TabsSound, TabRecord, Saving
    <3>3. ASSUME NEW a \in adrift, OpenOn[a.tab] \in cleaned', a.save.stage = "admitted"
          PROVE a.save.expects < VersionFor(a.tab)'
      BY <1>4, <3>1, <3>3 DEF ReaderInv, Outdated, AdriftSound, Saving
    <3>4. QED
      BY <1>1, <1>4, <3>2, <3>3 DEF ReaderInv, Outdated
  <2>7. ReaderInv'
    BY <2>2, <2>4, <2>5, <2>6 DEF ReaderInv
  <2>8. CASE empty = {}
    <3>1. reading' = reading
      BY <1>4, <2>8 DEF ReaderInv, FilesOK
    <3>2. QED
      BY <1>1, <2>7, <3>1, Stuttering
  <2>9. CASE empty # {}
    <3>1. empty \in SUBSET Novels /\ \A n \in empty : reading[n].place = NoPlace
      OBVIOUS
    <3>2. [n \in Novels |-> reading[n].version]'
            = [n \in Novels |-> [m \in Novels |-> reading[m].version][n] + (IF n \in empty THEN 1 ELSE 0)]
      BY <2>3
    <3>3. [n \in Novels |-> reading[n].place]'
            = [n \in Novels |-> IF n \in empty THEN p ELSE [m \in Novels |-> reading[m].place][n]]
      BY <2>3
    <3> HIDE DEF empty
    <3>4. Register!Fill
      BY <2>4, <2>9, <3>1, <3>2, <3>3 DEF Register!Fill
    <3>5. QED
      BY <2>7, <3>4
  <2>10. QED
    BY <2>8, <2>9
<1>5. QED
  BY <1>2, <1>3, <1>4

\* The tombstone: whatever was let in before expects an earlier version.
LEMMA PruneStep ==
  ASSUME ReaderInv, NEW n \in Novels, PruneState(n) PROVE ReaderInv' /\ Register!Erase(n)
<1>1. /\ UNCHANGED <<works, tab, adrift>>
      /\ reading' = [reading EXCEPT ![n] = Tombstone(@)]
  BY DEF PruneState
<1>2. \/ /\ marks' = [marks EXCEPT ![n] = 0] /\ tuned' = tuned \ {n}
         /\ cleaned' = cleaned \cup ({n} \ works)
      \/ marks' \in {marks, [marks EXCEPT ![n] = 0]} /\ UNCHANGED <<tuned, cleaned>>
  BY DEF PruneState
<1>3. FilesOK'
  BY <1>1, <1>2 DEF ReaderInv, FilesOK, Tombstone, Known, Position
<1>4. /\ \A m \in Novels : reading[m].version \in Nat /\ reading[m].version <= reading'[m].version
      /\ \A m \in Novels \ {n} : reading'[m] = reading[m]
      /\ reading'[n] = Tombstone(reading[n])
      /\ reading'[n].version = reading[n].version + 1
  BY <1>1 DEF ReaderInv, FilesOK, Tombstone, Known
<1>5. TabsSound' /\ AdriftSound' /\ RegisterView' = RegisterView
  BY <1>1, <1>3, <1>4, GrowingStep
<1>6. RemovedStaysEmpty'
  <2> /\ reading'[n].gone /\ reading'[n].place = NoPlace
    BY <1>4 DEF Tombstone
  <2>1. CASE UNCHANGED <<tuned, cleaned>> /\ marks' \in {marks, [marks EXCEPT ![n] = 0]}
    BY <1>4, <2>1 DEF ReaderInv, FilesOK, RemovedStaysEmpty
  <2>2. CASE /\ marks' = [marks EXCEPT ![n] = 0] /\ tuned' = tuned \ {n}
             /\ cleaned' = cleaned \cup ({n} \ works)
    BY <1>4, <2>2 DEF ReaderInv, FilesOK, RemovedStaysEmpty
  <2>3. QED
    BY <1>2, <2>1, <2>2
<1>7. Outdated'
  <2>1. cleaned' \cap works' = {} /\ cleaned' \subseteq cleaned \cup {n}
    BY <1>1, <1>2 DEF ReaderInv, Outdated
  <2>2. \A t \in Tabs : /\ VersionFor(t) \in Nat /\ VersionFor(t)' \in Nat /\ VersionFor(t) <= VersionFor(t)'
                        /\ OpenOn[t] = n => VersionFor(t) < VersionFor(t)'
    BY <1>3, <1>4, ReaderAssumption DEF VersionFor, FilesOK, Known
  <2>3. ASSUME NEW t \in Tabs, OpenOn[t] \in cleaned', tab[t].save.stage = "admitted"
        PROVE tab[t].save.expects < VersionFor(t)'
    <3>1. tab[t].save.expects \in Nat /\ tab[t].save.expects <= VersionFor(t)
      BY DEF ReaderInv, TabsSound, TabSound, SaveSound, Saving
    <3>2. QED
      BY <2>1, <2>2, <2>3, <3>1 DEF ReaderInv, Outdated
  <2>4. ASSUME NEW a \in adrift, OpenOn[a.tab] \in cleaned', a.save.stage = "admitted"
        PROVE a.save.expects < VersionFor(a.tab)'
    <3>1. a.tab \in Tabs /\ a.save.expects \in Nat /\ a.save.expects <= VersionFor(a.tab)
      BY DEF ReaderInv, AdriftSound, SaveSound, Saving
    <3>2. QED
      BY <2>1, <2>2, <2>4, <3>1 DEF ReaderInv, Outdated
  <2>5. QED
    BY <1>1, <2>1, <2>3, <2>4 DEF Outdated
<1>8. Register!Erase(n)
  <2>1. /\ [m \in Novels |-> reading[m].version]' = [[m \in Novels |-> reading[m].version] EXCEPT ![n] = @ + 1]
        /\ [m \in Novels |-> reading[m].place]' = [[m \in Novels |-> reading[m].place] EXCEPT ![n] = NoPlace]
    <3>1. reading'[n].place = NoPlace
      BY <1>4 DEF Tombstone
    <3>2. QED
      BY <1>4, <3>1
  <2>2. QED
    BY <1>5, <2>1 DEF Register!Erase
<1>9. QED
  BY <1>3, <1>5, <1>6, <1>7, <1>8 DEF ReaderInv

-----------------------------------------------------------------------------
(* The theorems                                                             *)

LEMMA ReaderStart == ReaderInit => ReaderInv /\ Register!RegisterInit
<1> SUFFICES ASSUME ReaderInit PROVE ReaderInv /\ Register!RegisterInit
  OBVIOUS
<1> DEFINE blank == [knows |-> 0, here |-> NoPlace, conflict |-> NoRecord, blocked |-> FALSE, save |-> NoSave]
<1>1. tab = [t \in Tabs |-> blank] /\ reading = [n \in Novels |-> NoRecord]
  BY DEF ReaderInit
<1>2. blank \in TabRecord /\ TabSound(blank, 0)
  BY Empty DEF TabRecord, TabSound, Position
<1>3. ReaderInv
  <2>1. FilesOK /\ AdriftSound /\ Outdated /\ RemovedStaysEmpty
    BY <1>1, Empty DEF ReaderInit, FilesOK, AdriftSound, Outdated, RemovedStaysEmpty
  <2>2. TabsSound
    <3> HIDE DEF blank
    <3>1. QED
      BY <1>1, <1>2, Empty, ReaderAssumption DEF TabsSound, VersionFor
  <2>3. QED
    BY <2>1, <2>2 DEF ReaderInv
<1>4. ASSUME NEW t \in Tabs PROVE Newest(Reachable(t)) = 0
  <2>1. VersionFor(t) = 0
    BY <1>1, Empty, ReaderAssumption DEF VersionFor
  <2>2. QED
    BY <1>3, <2>1, ReachableKnown DEF KnownVersions
<1>5. RegisterView = [t \in Tabs |-> [n \in Novels |-> 0]]
  BY <1>4 DEF RegisterView
<1>6. QED
  BY <1>1, <1>3, <1>5, Empty DEF Register!RegisterInit, NoRecord

\* One step of the program keeps the invariant and is a step of the register,
\* or none.
LEMMA ReaderStep ==
  ReaderInv /\ [ReaderNext]_reader => ReaderInv' /\ [Register!RegisterNext]_(Register!register)
<1> SUFFICES ASSUME ReaderInv, [ReaderNext]_reader
             PROVE  ReaderInv' /\ [Register!RegisterNext]_(Register!register)
  OBVIOUS
<1>1. ASSUME NEW t \in Tabs,
             \/ Sync(t) \/ Overwrite(t) \/ Apply(t) \/ GiveUp(t) \/ Reload(t)
             \/ Deliver(t) \/ AdmitSave(t) \/ (\E p \in Places : Save(t, p))
      PROVE  ReaderInv' /\ Register!Learn(t)
  BY <1>1, SyncStep, SavingStep, ApplyStep, GiveUpStep, ReloadStep, DeliverStep, AdmitSaveStep
<1>2. CASE \E t \in Tabs : PutSave(t)
  BY <1>2, PutSaveStep, ReaderAssumption DEF Register!RegisterNext
<1>3. CASE PutAdrift
  BY <1>3, PutAdriftStep, ReaderAssumption DEF Register!RegisterNext
<1>4. CASE \E n \in Novels : PruneState(n)
  BY <1>4, PruneStep DEF Register!RegisterNext
<1>5. CASE \E p \in Places : ImportLibrary(p)
  BY <1>5, ImportStep DEF Register!RegisterNext
<1>6. CASE \E n \in Novels :
             \/ AdmitBookmark(n) \/ AdmitSettings(n) \/ AdmitImport(n)
             \/ CreateBookmark(n) \/ DeleteBookmark(n) \/ PatchSettings(n) \/ Download(n)
  BY <1>6, FileSteps
<1>7. CASE (\E D \in SUBSET Novels : Remove(D)) \/ Preflight \/ RemovalStops
  BY <1>7, RemovalSteps
<1>8. CASE UNCHANGED reader
  <2>1. UNCHANGED <<reading, tab, adrift, works, marks, tuned, cleaned>>
    BY <1>8 DEF reader
  <2>2. FilesOK' /\ RemovedStaysEmpty' /\ cleaned' \cap works' = {}
    BY <2>1 DEF ReaderInv, FilesOK, RemovedStaysEmpty, Outdated
  <2>3. QED
    BY <2>1, <2>2, QuietStep
<1>9. ASSUME NEW t \in Tabs,
             \/ Sync(t) \/ Overwrite(t) \/ Apply(t) \/ GiveUp(t) \/ Reload(t)
             \/ Deliver(t) \/ AdmitSave(t) \/ (\E p \in Places : Save(t, p))
      PROVE  ReaderInv' /\ Register!RegisterNext
  BY <1>1, <1>9 DEF Register!RegisterNext
<1>10. QED
  BY <1>2, <1>3, <1>4, <1>5, <1>6, <1>7, <1>8, <1>9 DEF ReaderNext

\* No state of the program breaks what the saves, the tabs and the clean-up
\* rest on.
THEOREM ReaderSafe == ReaderSpec => []ReaderInv
BY ReaderStart, ReaderStep, PTL DEF ReaderSpec

\* What a removal cleaned up stays clean, for any number of tabs, requests and
\* novels: the check for the novel and the write are two steps, and a request
\* between them finds the tombstone or a version it did not expect.
THEOREM RemovedStaysClean == ReaderSpec => []RemovedStaysEmpty
<1>1. ReaderInv => RemovedStaysEmpty
  BY DEF ReaderInv
<1>2. QED
  BY <1>1, ReaderSafe, PTL

\* The positions of all novels are registers which readers replace only when
\* the version they know is the current one (ReadingRegister).
THEOREM ReaderImplementsRegister == ReaderSpec => RegisterSpec
BY ReaderSafe, ReaderStart, ReaderStep, PTL DEF ReaderSpec, RegisterSpec, Register!RegisterSpec
=============================================================================
