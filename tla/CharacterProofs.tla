--------------------------- MODULE CharacterProofs ---------------------------
(***************************************************************************)
(* Proofs about CharacterIdentity for any names, any number of episodes,   *)
(* findings, merges and mishaps.  Who somebody is at a boundary is the end *)
(* of a way along the merges that are told.  Those never close a circle,   *)
(* so every way ends, at a record that is there, and merging loses nobody. *)
(* Then comes bookkeeping: each operation of a save (cutting, merging,     *)
(* giving ids back, keeping the records of those merged away) passes on    *)
(* exactly the names that were found.  The last part compares a document   *)
(* with the one before it: a second invariant ties the generation to the   *)
(* history it goes on from, and says what a save shows, and to whom.       *)
(***************************************************************************)
EXTENDS CharacterIdentity, FiniteSetTheorems, WellFoundedInduction, TLAPS

-----------------------------------------------------------------------------
(* Ways along the merges, and the order in which they are told *)

\* The length of every way: as many steps as there are ids.
Last == Cardinality(CharacterIds)
Merges == [source: CharacterIds, target: CharacterIds, at: 1..Episodes]

\* The ids are 1 to their number.
LEMMA IdsAreCounted ==
  /\ MaxFindings \in Nat /\ Episodes \in Nat \ {0}
  /\ IsFiniteSet(CharacterIds) /\ Last = MaxFindings + 1 /\ Last \in Nat
  /\ CharacterIds = 1..Last
<1>1. MaxFindings \in Nat /\ Episodes \in Nat \ {0}
  BY CharacterAssumption
<1>2. /\ IsFiniteSet(1..(MaxFindings + 1))
      /\ Cardinality(1..(MaxFindings + 1)) = IF 1 > MaxFindings + 1 THEN 0 ELSE MaxFindings + 1 - 1 + 1
  BY <1>1, FS_Interval
<1> QED BY <1>1, <1>2 DEF CharacterIds, Last

\* Induction over numbers, as the existence of a least one.
LEMMA LeastNatural ==
  ASSUME NEW S \in SUBSET Nat, S # {}
  PROVE  \E x \in S : \A y \in S : x <= y
<1> DEFINE Less == {ss \in Nat \X Nat : ss[1] < ss[2]}
<1>1. IsWellFoundedOn(Less, Nat)
  BY NatLessThanWellFounded DEF OpToRel
<1>2. PICK x \in S : \A y \in S : ~ (<<y, x>> \in Less)
  <2> HIDE DEF Less
  <2> QED BY <1>1, WFMin
<1>3. ASSUME NEW y \in S PROVE x <= y
  <2>1. y \in Nat /\ x \in Nat /\ ~(<<y, x>> \in Less)
    BY <1>2
  <2>2. ~(y < x)
    BY <2>1
  <2> QED BY <2>1, <2>2
<1> QED BY <1>3

\* And of a greatest one, below a bound.
LEMMA GreatestNatural ==
  ASSUME NEW B \in Nat, NEW S \in SUBSET (0..B), S # {}
  PROVE  \E x \in S : \A y \in S : y <= x
<1> DEFINE R == {B - x : x \in S}
<1>1. R \in SUBSET Nat /\ R # {}
  <2>1. \A x \in S : x \in Int /\ 0 <= x /\ x <= B
    OBVIOUS
  <2>2. \A x \in S : B - x \in Nat
    BY <2>1
  <2> QED BY <2>2
<1>2. PICK r \in R : \A y \in R : r <= y
  BY <1>1, LeastNatural
<1>3. PICK x \in S : r = B - x
  BY <1>2
<1>4. ASSUME NEW y \in S PROVE y <= x
  <2>1. B - y \in R
    OBVIOUS
  <2> QED BY <1>2, <1>3, <2>1
<1> QED BY <1>4

\* The order in which the code sorts merges is total and strict.
LEMMA BeforeOrders ==
  /\ \A e \in Merges : ~Before(e, e)
  /\ \A d, e \in Merges : d = e \/ Before(d, e) \/ Before(e, d)
  /\ \A d, e \in Merges : Before(d, e) => ~Before(e, d)
  /\ \A c, d, e \in Merges : Before(c, d) /\ Before(d, e) => Before(c, e)
<1>1. \A d, e \in Merges : d.at = e.at /\ d.source = e.source /\ d.target = e.target => d = e
  BY DEF Merges
<1>2. \A e \in Merges : e.at \in Nat /\ e.source \in Nat /\ e.target \in Nat
  BY IdsAreCounted DEF Merges
<1>3. \A d, e \in Merges : d = e \/ Before(d, e) \/ Before(e, d)
  <2> SUFFICES ASSUME NEW d \in Merges, NEW e \in Merges PROVE d = e \/ Before(d, e) \/ Before(e, d)
    OBVIOUS
  <2>1. /\ d.at \in Nat /\ d.source \in Nat /\ d.target \in Nat
        /\ e.at \in Nat /\ e.source \in Nat /\ e.target \in Nat
    BY <1>2
  <2> QED BY <1>1, <2>1 DEF Before
<1> QED BY <1>2, <1>3 DEF Before

\* The first and the last of some merges, in that order.
LEMMA EarliestMerge ==
  ASSUME NEW T \in SUBSET Merges, T # {}
  PROVE  \E e \in T : \A d \in T : ~Before(d, e)
<1>1. \A e \in Merges : e.at \in Nat /\ e.source \in Nat /\ e.target \in Nat
  BY IdsAreCounted DEF Merges
<1> DEFINE A == {e.at : e \in T}
<1>2. PICK p \in A : \A q \in A : p <= q
  BY <1>1, LeastNatural, ZenonT(60)
<1> DEFINE B == {e.source : e \in {d \in T : d.at = p}}
<1>3. B # {} /\ B \in SUBSET Nat
  BY <1>1, <1>2
<1>4. PICK s \in B : \A q \in B : s <= q
  BY <1>3, LeastNatural
<1> DEFINE C == {e.target : e \in {d \in T : d.at = p /\ d.source = s}}
<1>5. C # {} /\ C \in SUBSET Nat
  BY <1>1, <1>4
<1>6. PICK t \in C : \A q \in C : t <= q
  BY <1>5, LeastNatural
<1>7. PICK e \in T : e.at = p /\ e.source = s /\ e.target = t
  BY <1>6
<1>8. ASSUME NEW d \in T PROVE ~Before(d, e)
  <2>1. d.at \in A /\ (d.at = p => d.source \in B) /\ (d.at = p /\ d.source = s => d.target \in C)
    OBVIOUS
  <2>2. d.at \in Nat /\ d.source \in Nat /\ d.target \in Nat /\ p \in Nat /\ s \in Nat /\ t \in Nat
    BY <1>1, <1>7
  <2>3. p <= d.at /\ (d.at = p => s <= d.source) /\ (d.at = p /\ d.source = s => t <= d.target)
    BY <2>1, <1>2, <1>4, <1>6
  <2> HIDE DEF A, B, C
  <2> QED BY <2>2, <2>3, <1>7 DEF Before
<1> QED BY <1>8

\* Of the told merges one is the last.
LEMMA LatestMerge ==
  ASSUME NEW T \in SUBSET Merges, T # {}
  PROVE  \E e \in T : \A d \in T : d = e \/ Before(d, e)
<1>0. Episodes \in Nat /\ Last \in Nat
  BY IdsAreCounted
<1>1. \A e \in Merges : e.at \in 0..Episodes /\ e.source \in 0..Last /\ e.target \in 0..Last
  BY IdsAreCounted DEF Merges
<1> DEFINE A == {e.at : e \in T}
<1>a. A \in SUBSET (0..Episodes) /\ A # {}
  BY <1>1
<1>2. PICK p \in A : \A q \in A : q <= p
  BY <1>0, <1>a, GreatestNatural
<1> DEFINE B == {e.source : e \in {d \in T : d.at = p}}
<1>3. B # {} /\ B \in SUBSET (0..Last)
  BY <1>1, <1>2
<1>4. PICK s \in B : \A q \in B : q <= s
  BY <1>0, <1>3, GreatestNatural
<1> DEFINE C == {e.target : e \in {d \in T : d.at = p /\ d.source = s}}
<1>5. C # {} /\ C \in SUBSET (0..Last)
  BY <1>1, <1>4
<1>6. PICK t \in C : \A q \in C : q <= t
  BY <1>0, <1>5, GreatestNatural
<1>7. PICK e \in T : e.at = p /\ e.source = s /\ e.target = t
  BY <1>6
<1>8. ASSUME NEW d \in T PROVE ~Before(e, d)
  <2>1. d.at \in A /\ (d.at = p => d.source \in B) /\ (d.at = p /\ d.source = s => d.target \in C)
    OBVIOUS
  <2>2. d.at \in Nat /\ d.source \in Nat /\ d.target \in Nat /\ p \in Nat /\ s \in Nat /\ t \in Nat
    BY <1>0, <1>1, <1>7
  <2>3. d.at <= p /\ (d.at = p => d.source <= s) /\ (d.at = p /\ d.source = s => d.target <= t)
    BY <2>1, <1>2, <1>4, <1>6
  <2> HIDE DEF A, B, C
  <2> QED BY <2>2, <2>3, <1>7 DEF Before
<1> QED BY <1>7, <1>8, BeforeOrders

\* One step along the merges, and a walk of n steps.
Onward(into, j) == IF j \in DOMAIN into THEN into[j] ELSE j

IsWalk(f, into, i, n) == f = [k \in 0..n |-> IF k = 0 THEN i ELSE Onward(into, f[k - 1])]

\* A way is what its definition says, step by step: the function exists.
LEMMA WalksExist ==
  ASSUME NEW into, NEW i, NEW n \in Nat
  PROVE  \E f : IsWalk(f, into, i, n)
<1> DEFINE Bad == {m \in Nat : ~ \E f : IsWalk(f, into, i, m)}
<1>1. SUFFICES ASSUME Bad # {} PROVE FALSE
  OBVIOUS
<1>2. PICK m \in Bad : \A k \in Bad : m <= k
  BY <1>1, LeastNatural
<1>3. m # 0
  <2>1. IsWalk([k \in 0..0 |-> i], into, i, 0)
    BY DEF IsWalk
  <2> QED BY <2>1
<1>4. m \in Nat /\ m - 1 \in Nat /\ m - 1 \notin Bad
  BY <1>2, <1>3
<1>5. PICK f : IsWalk(f, into, i, m - 1)
  BY <1>4
<1> DEFINE g == [k \in 0..m |-> IF k = m THEN Onward(into, f[m - 1]) ELSE f[k]]
<1>6. \A k \in 0..(m - 1) : f[k] = IF k = 0 THEN i ELSE Onward(into, f[k - 1])
  BY <1>4, <1>5 DEF IsWalk
<1>7. ASSUME NEW k \in 0..m PROVE g[k] = IF k = 0 THEN i ELSE Onward(into, g[k - 1])
  <2>1. CASE k = m
    <3>1. g[k - 1] = f[m - 1]
      BY <1>3, <1>4, <2>1
    <3> QED BY <1>3, <2>1, <3>1
  <2>2. CASE k # m
    <3>1. k \in 0..(m - 1) /\ g[k] = f[k]
      BY <1>4, <2>2
    <3>2. k # 0 => k - 1 \in 0..m /\ k - 1 # m /\ g[k - 1] = f[k - 1]
      BY <1>4, <2>2
    <3> QED BY <1>6, <3>1, <3>2
  <2> QED BY <2>1, <2>2
<1>8. g = [k \in 0..m |-> IF k = 0 THEN i ELSE Onward(into, g[k - 1])]
  BY <1>7
<1>9. IsWalk(g, into, i, m)
  <2> HIDE DEF g
  <2> QED BY <1>8 DEF IsWalk
<1> QED BY <1>2, <1>9

\* A way goes on merge by merge.
LEMMA WayWalks ==
  ASSUME NEW into, NEW i
  PROVE  /\ Way(into, i) = [n \in 0..Last |-> Way(into, i)[n]]
         /\ Way(into, i)[0] = i
         /\ \A n \in 1..Last : Way(into, i)[n] = Onward(into, Way(into, i)[n - 1])
<1>1. PICK g : IsWalk(g, into, i, Last)
  BY WalksExist, IdsAreCounted
<1> DEFINE Walks(f) == f = [n \in 0..Cardinality(CharacterIds) |->
      IF n = 0 THEN i ELSE IF f[n - 1] \in DOMAIN into THEN into[f[n - 1]] ELSE f[n - 1]]
<1>2. Walks(g)
  BY <1>1 DEF IsWalk, Onward, Last
<1>3. Way(into, i) = CHOOSE f : Walks(f)
  BY DEF Way
<1>4. Walks(Way(into, i))
  <2> HIDE DEF Walks
  <2> QED BY <1>2, <1>3
<1> DEFINE w == Way(into, i)
<1>5. w = [n \in 0..Last |->
      IF n = 0 THEN i ELSE IF w[n - 1] \in DOMAIN into THEN into[w[n - 1]] ELSE w[n - 1]]
  BY <1>4 DEF Last
<1>6. Last \in Nat
  BY IdsAreCounted
<1> HIDE DEF w
<1>7. w = [n \in 0..Last |-> w[n]] /\ \A n \in 0..Last : w[n] = IF n = 0 THEN i ELSE Onward(into, w[n - 1])
  BY <1>5, <1>6 DEF Onward
<1>8. w[0] = i /\ \A n \in 1..Last : w[n] = Onward(into, w[n - 1])
  <2>1. \A n \in 1..Last : n \in 0..Last /\ n # 0
    BY <1>6
  <2>2. 0 \in 0..Last
    BY <1>6
  <2> QED BY <1>7, <2>1, <2>2
<1> QED BY <1>7, <1>8 DEF w

\* A way does not leave a set that no step leaves.
LEMMA WayStaysIn ==
  ASSUME NEW into, NEW C, NEW i \in C, \A j \in C : Onward(into, j) \in C
  PROVE  Way(into, i) \in [0..Last -> C]
<1> DEFINE w == Way(into, i)
           Bad == {n \in 0..Last : w[n] \notin C}
<1>1. /\ w = [n \in 0..Last |-> w[n]] /\ w[0] = i
      /\ \A n \in 1..Last : w[n] = Onward(into, w[n - 1])
  BY WayWalks
<1>2. Bad = {}
  <2>1. SUFFICES ASSUME Bad # {} PROVE FALSE
    OBVIOUS
  <2>a. Bad \in SUBSET Nat
    BY IdsAreCounted
  <2>2. PICK m \in Bad : \A k \in Bad : m <= k
    <3> HIDE DEF Bad
    <3> QED BY <2>1, <2>a, LeastNatural
  <2>3. m \in 1..Last /\ m - 1 \in 0..Last /\ m - 1 \notin Bad
    BY <1>1, <2>2, IdsAreCounted
  <2> QED BY <1>1, <2>2, <2>3
<1> QED BY <1>1, <1>2

Circle(into, S) == S # {} /\ \A s \in S : s \in DOMAIN into /\ into[s] \in S

\* No set of ids leads only into itself.
Acyclic(into) == \A S \in SUBSET CharacterIds : ~Circle(into, S)

\* A way that never ends has gone in a circle: it is longer than there are ids.
LEMMA WayCircles ==
  ASSUME NEW into, NEW i, Way(into, i) \in [0..Last -> CharacterIds],
         \A n \in 0..Last : Way(into, i)[n] \in DOMAIN into
  PROVE  \E S \in SUBSET Range(Way(into, i)) : Circle(into, S)
<1> DEFINE w == Way(into, i)
<1>1. Last \in Nat /\ IsFiniteSet(CharacterIds) /\ Cardinality(CharacterIds) = Last
  BY IdsAreCounted DEF Last
<1>2. IsFiniteSet(0..Last) /\ Cardinality(0..Last) = Last + 1
  BY <1>1, FS_Interval
<1>3. \A n \in 1..Last : w[n] = Onward(into, w[n - 1])
  BY WayWalks, ZenonT(60)
<1>4. w \in [0..Last -> CharacterIds] /\ \A n \in 0..Last : w[n] \in DOMAIN into
  OBVIOUS
<1> HIDE DEF w
<1>5. \E x, y \in 0..Last : x # y /\ w[x] = w[y]
  <2>1. Cardinality(CharacterIds) < Cardinality(0..Last)
    BY <1>1, <1>2
  <2> QED BY <1>1, <1>2, <1>4, <2>1, FS_PigeonHole
<1>6. PICK j \in 0..Last, k \in 0..Last : j < k /\ w[j] = w[k]
  <2>1. PICK x \in 0..Last, y \in 0..Last : x # y /\ w[x] = w[y]
    BY <1>5
  <2>2. x < y \/ y < x
    BY <2>1, <1>1
  <2> QED BY <2>1, <2>2
<1> DEFINE S == {w[l] : l \in j..(k - 1)}
<1>7. j \in j..(k - 1) /\ j..(k - 1) \subseteq 0..Last
  BY <1>1, <1>6
<1>8. S # {} /\ S \in SUBSET Range(w)
  BY <1>4, <1>7 DEF Range
<1>9. ASSUME NEW l \in j..(k - 1) PROVE w[l] \in DOMAIN into /\ into[w[l]] \in S
  <2>1. l \in 0..Last /\ l + 1 \in 1..Last /\ (l + 1) - 1 = l
    BY <1>1, <1>6
  <2>2. w[l] \in DOMAIN into
    BY <1>4, <2>1
  <2>3. w[l + 1] = Onward(into, w[(l + 1) - 1])
    BY <1>3, <2>1
  <2>4. w[l + 1] = into[w[l]]
    BY <2>1, <2>2, <2>3 DEF Onward
  <2>5. CASE l = k - 1
    <3>1. w[l + 1] = w[j]
      BY <1>6, <2>5
    <3> QED BY <1>7, <2>2, <2>4, <3>1
  <2>6. CASE l # k - 1
    <3>1. l + 1 \in j..(k - 1)
      BY <1>6, <2>6
    <3> QED BY <2>2, <2>4, <3>1
  <2> QED BY <2>5, <2>6
<1>10. Circle(into, S)
  BY <1>8, <1>9 DEF Circle
<1> HIDE DEF S
<1> QED BY <1>8, <1>10 DEF w

\* Without circles the end of a way is an id that is merged into nobody.
LEMMA StandsEnds ==
  ASSUME NEW D \in SUBSET CharacterIds, NEW into \in [D -> CharacterIds], Acyclic(into),
         NEW i \in CharacterIds
  PROVE  Stands(into, i) \in CharacterIds \ D
<1> DEFINE w == Way(into, i)
<1>1. Last \in Nat
  BY IdsAreCounted
<1>2. w \in [0..Last -> CharacterIds]
  <2>1. \A j \in CharacterIds : Onward(into, j) \in CharacterIds
    BY DEF Onward
  <2> QED BY <2>1, WayStaysIn
<1>3. \A n \in 1..Last : w[n] = Onward(into, w[n - 1])
  BY WayWalks
<1>4. Stands(into, i) = w[Last]
  BY DEF Stands, Last
<1>5. w[Last] \notin D
  <2>1. SUFFICES ASSUME w[Last] \in D PROVE FALSE
    OBVIOUS
  <2>2. \A n \in 0..Last : w[n] \in DOMAIN into
    <3> DEFINE Bad == {n \in 0..Last : w[n] \notin D}
    <3>1. SUFFICES ASSUME Bad # {} PROVE FALSE
      OBVIOUS
    <3>2. PICK m \in Bad : \A k \in Bad : k <= m
      <4>1. Bad \in SUBSET (0..Last)
        OBVIOUS
      <4> HIDE DEF Bad
      <4> QED BY <1>1, <3>1, <4>1, GreatestNatural
    <3>3. m \in 0..Last /\ w[m] \notin D
      BY <3>2
    <3>4. m # Last /\ m + 1 \in 1..Last /\ (m + 1) - 1 = m /\ m + 1 \in 0..Last
      BY <1>1, <2>1, <3>3
    <3>5. w[m + 1] = w[m]
      <4>1. w[m + 1] = Onward(into, w[(m + 1) - 1])
        BY <1>3, <3>4
      <4> QED BY <3>3, <3>4, <4>1 DEF Onward
    <3>6. m + 1 \in Bad
      BY <3>3, <3>4, <3>5
    <3> QED BY <3>2, <3>3, <3>6
  <2>3. PICK S \in SUBSET Range(w) : Circle(into, S)
    BY <1>2, <2>2, WayCircles
  <2>4. S \in SUBSET CharacterIds
    BY <1>2, <2>3 DEF Range
  <2> QED BY <2>3, <2>4 DEF Acyclic
<1>6. w[Last] \in CharacterIds
  BY <1>1, <1>2
<1> QED BY <1>4, <1>5, <1>6

\* Who is merged into nobody stands for himself.
LEMMA StandsStays ==
  ASSUME NEW into, NEW i, i \notin DOMAIN into
  PROVE  Stands(into, i) = i
<1>1. \A j \in {i} : Onward(into, j) \in {i}
  BY DEF Onward
<1>2. Way(into, i) \in [0..Last -> {i}]
  BY <1>1, WayStaysIn
<1> QED BY <1>2, IdsAreCounted DEF Stands, Last

\* Who stands for a record is there, and stands for himself.
LEMMA SurvivorSurvives ==
  ASSUME NEW recs, DOMAIN recs \in SUBSET CharacterIds,
         NEW D \in SUBSET CharacterIds, NEW into \in [D -> CharacterIds], Acyclic(into),
         NEW i \in DOMAIN recs
  PROVE  /\ Survivor(recs, into, i) \in DOMAIN recs
         /\ Survivor(recs, into, Survivor(recs, into, i)) = Survivor(recs, into, i)
<1> DEFINE t == Stands(into, i)
<1>1. CASE t \in DOMAIN recs
  <2>1. t \notin DOMAIN into
    BY StandsEnds
  <2>2. Stands(into, t) = t
    BY <2>1, StandsStays
  <2> QED BY <1>1, <2>2 DEF Survivor
<1>2. CASE t \notin DOMAIN recs
  BY <1>2 DEF Survivor
<1> QED BY <1>1, <1>2

-----------------------------------------------------------------------------
(* Which merges are told *)

Sources(told) == {e.source : e \in told}

\* Of several merges of one source the last is the one that is told.
LastWord(told, e) == e \in told /\ \A d \in told : d.source = e.source => d = e \/ Before(d, e)

\* Of several merges of a source the last one told counts.
LEMMA IntoIsLastWord ==
  ASSUME NEW told \in SUBSET Merges
  PROVE  /\ Sources(told) \in SUBSET CharacterIds
         /\ Into(told) \in [Sources(told) -> CharacterIds]
         /\ \A s \in Sources(told) : \E e \in told : e.source = s /\ LastWord(told, e)
         /\ \A e \in told : LastWord(told, e) => Into(told)[e.source] = e.target
<1> DEFINE Word(s, e) == e.source = s /\ \A d \in told : d.source = s => ~Before(e, d)
<1>1. ASSUME NEW s \in Sources(told) PROVE \E e \in told : e.source = s /\ LastWord(told, e)
  <2> DEFINE T == {e \in told : e.source = s}
  <2>1. T # {} /\ T \in SUBSET Merges
    BY DEF Sources
  <2>2. PICK e \in T : \A d \in T : d = e \/ Before(d, e)
    BY <2>1, LatestMerge
  <2> QED BY <2>2 DEF LastWord
<1>2. ASSUME NEW e \in told, LastWord(told, e)
      PROVE  Word(e.source, e) /\ \A c \in told : Word(e.source, c) => c = e
  BY <1>2, BeforeOrders DEF LastWord
<1>3. Into(told) = [s \in Sources(told) |-> (CHOOSE e \in told : Word(s, e)).target]
  BY DEF Into, Sources
<1> HIDE DEF Word
<1>4. ASSUME NEW e \in told, LastWord(told, e)
      PROVE  (CHOOSE c \in told : Word(e.source, c)) = e
  BY <1>2, <1>4
<1>5. ASSUME NEW e \in told, LastWord(told, e)
      PROVE  e.source \in Sources(told) /\ Into(told)[e.source] = e.target
  <2>1. e.source \in Sources(told)
    BY DEF Sources
  <2> QED BY <1>3, <1>4, <1>5, <2>1
<1>6. \A e \in told : e.source \in CharacterIds /\ e.target \in CharacterIds
  BY DEF Merges
<1>7. \A s \in Sources(told) : Into(told)[s] \in CharacterIds
  BY <1>1, <1>5, <1>6
<1>8. Sources(told) \in SUBSET CharacterIds
  BY <1>6 DEF Sources
<1> QED BY <1>1, <1>3, <1>5, <1>7, <1>8

\* What Kept chooses: a merge is told if those told before it leave it acceptable.
Told(told, events) ==
  /\ told \in SUBSET events
  /\ \A e \in events : e \in told <=> Acceptable({d \in told : Before(d, e)}, e)

\* events holds with each of its own those of all that are before it.
Begins(events, all) ==
  events \in SUBSET all /\ \A e \in events, d \in all : Before(d, e) => d \in events

\* There is one such set: the first merge on which two differ has the same ones before it.
LEMMA ToldOnlyOneWay ==
  ASSUME NEW events \in SUBSET Merges, NEW told, NEW also, Told(told, events), Told(also, events)
  PROVE  told = also
<1> DEFINE Bad == {e \in events : ~(e \in told <=> e \in also)}
<1>1. SUFFICES ASSUME Bad # {} PROVE FALSE
  BY DEF Told
<1>2. PICK e \in Bad : \A d \in Bad : ~Before(d, e)
  BY <1>1, EarliestMerge
<1>3. {d \in told : Before(d, e)} = {d \in also : Before(d, e)}
  BY <1>2 DEF Told
<1> QED BY <1>2, <1>3 DEF Told

\* The part of it in a beginning of the merges is what is told of that beginning.
LEMMA BeginningIsTold ==
  ASSUME NEW all \in SUBSET Merges, NEW events, Begins(events, all), NEW told, Told(told, all)
  PROVE  Told(told \cap events, events)
<1>1. ASSUME NEW e \in events
      PROVE  e \in told \cap events <=> Acceptable({d \in told \cap events : Before(d, e)}, e)
  <2>1. {d \in told \cap events : Before(d, e)} = {d \in told : Before(d, e)}
    BY DEF Begins, Told
  <2> QED BY <2>1 DEF Begins, Told
<1> QED BY <1>1 DEF Told

\* A merge and all that are before it.
UpToEvent(events, e) == {d \in events : d = e \/ Before(d, e)}

\* The merges up to one of them are a beginning of all.
LEMMA UpToBegins ==
  ASSUME NEW events \in SUBSET Merges, NEW e \in events
  PROVE  /\ UpToEvent(events, e) \in SUBSET Merges
         /\ Begins(UpToEvent(events, e), events)
         /\ \A d \in UpToEvent(events, e) : Begins(UpToEvent(events, d), UpToEvent(events, e))
BY BeforeOrders DEF Begins, UpToEvent

\* If each beginning of the events can be told, so can they.
LEMMA ToldTogether ==
  ASSUME NEW events \in SUBSET Merges,
         \A e \in events : \E told : Told(told, UpToEvent(events, e))
  PROVE  \E told : Told(told, events)
<1> DEFINE by(e) == CHOOSE told : Told(told, UpToEvent(events, e))
           all == {e \in events : e \in by(e)}
<1>1. \A e \in events : Told(by(e), UpToEvent(events, e))
  OBVIOUS
<1> HIDE DEF by
<1>2. ASSUME NEW e \in events, NEW d \in UpToEvent(events, e)
      PROVE  d \in by(d) <=> d \in by(e)
  <2>1. d \in events /\ UpToEvent(events, d) \in SUBSET Merges /\ UpToEvent(events, e) \in SUBSET Merges
    BY DEF UpToEvent
  <2>2. Told(by(e) \cap UpToEvent(events, d), UpToEvent(events, d))
    BY <1>1, <2>1, UpToBegins, BeginningIsTold
  <2>3. by(d) = by(e) \cap UpToEvent(events, d)
    BY <1>1, <2>1, <2>2, ToldOnlyOneWay
  <2> QED BY <2>1, <2>3 DEF UpToEvent
<1>3. ASSUME NEW e \in events
      PROVE  e \in all <=> Acceptable({d \in all : Before(d, e)}, e)
  <2>1. e \in UpToEvent(events, e)
    BY DEF UpToEvent
  <2>2. e \in by(e) <=> Acceptable({d \in by(e) : Before(d, e)}, e)
    BY <1>1, <2>1 DEF Told
  <2>3. {d \in all : Before(d, e)} = {d \in by(e) : Before(d, e)}
    <3>1. by(e) \in SUBSET events
      BY <1>1 DEF Told, UpToEvent
    <3>2. \A d \in events : Before(d, e) => d \in UpToEvent(events, e)
      BY DEF UpToEvent
    <3> QED BY <1>2, <3>1, <3>2
  <2> QED BY <2>2, <2>3
<1>4. Told(all, events)
  <2>1. all \in SUBSET events
    OBVIOUS
  <2> HIDE DEF all
  <2> QED BY <1>3, <2>1 DEF Told
<1> QED BY <1>4

\* There is such a set for any merges.
LEMMA ToldAtAll ==
  ASSUME NEW events \in SUBSET Merges
  PROVE  \E told : Told(told, events)
<1> DEFINE Bad == {e \in events : ~ \E told : Told(told, UpToEvent(events, e))}
<1>1. Bad = {}
  <2>1. SUFFICES ASSUME Bad # {} PROVE FALSE
    OBVIOUS
  <2>2. PICK e \in Bad : \A d \in Bad : ~Before(d, e)
    BY <2>1, EarliestMerge
  <2> DEFINE earlier == UpToEvent(events, e) \ {e}
  <2>3. earlier \in SUBSET Merges /\ \A d \in earlier : d \in events /\ Before(d, e)
    BY DEF UpToEvent
  <2>4. \A d \in earlier : UpToEvent(earlier, d) = UpToEvent(events, d)
    BY <2>2, <2>3, BeforeOrders DEF UpToEvent
  <2>5. PICK told : Told(told, earlier)
    <3>1. \A d \in earlier : \E one : Told(one, UpToEvent(earlier, d))
      BY <2>2, <2>3, <2>4
    <3> HIDE DEF earlier
    <3> QED BY <2>3, <3>1, ToldTogether
  <2> DEFINE more == IF Acceptable(told, e) THEN told \cup {e} ELSE told
  <2>6. told \in SUBSET earlier /\ e \notin told
    BY <2>5 DEF Told
  <2>7. {d \in more : Before(d, e)} = told
    BY <2>2, <2>3, <2>6, BeforeOrders
  <2>8. ASSUME NEW d \in earlier PROVE {c \in more : Before(c, d)} = {c \in told : Before(c, d)}
    BY <2>2, <2>3, <2>6, BeforeOrders
  <2>9. Told(more, UpToEvent(events, e))
    <3>1. UpToEvent(events, e) = earlier \cup {e} /\ e \notin earlier
      BY <2>2 DEF UpToEvent
    <3>2. \A d \in earlier : d \in more <=> d \in told
      BY <3>1
    <3>3. e \in more <=> Acceptable(told, e)
      BY <2>6
    <3>4. more \in SUBSET (earlier \cup {e})
      BY <2>6
    <3> HIDE DEF more, earlier
    <3>5. \A d \in earlier : d \in more <=> Acceptable({c \in more : Before(c, d)}, d)
      BY <2>5, <2>8, <3>2 DEF Told
    <3>6. e \in more <=> Acceptable({d \in more : Before(d, e)}, e)
      BY <2>7, <3>3
    <3> QED BY <3>1, <3>4, <3>5, <3>6 DEF Told
  <2> QED BY <2>2, <2>9
<1> QED BY <1>1, ToldTogether

\* So Kept is that set.
LEMMA KeptIsTold ==
  ASSUME NEW events \in SUBSET Merges
  PROVE  Told(Kept(events), events)
<1> DEFINE P(told) == \A e \in events : e \in told <=> Acceptable({d \in told : Before(d, e)}, e)
<1>1. \E told \in SUBSET events : P(told)
  BY ToldAtAll DEF Told
<1>2. Kept(events) = CHOOSE told \in SUBSET events : P(told)
  BY DEF Kept
<1> HIDE DEF P
<1>3. Kept(events) \in SUBSET events /\ P(Kept(events))
  BY <1>1, <1>2
<1> QED BY <1>3 DEF P, Told

\* What was told up to some event does not depend on what comes after it.
LEMMA KeptFromTheStart ==
  ASSUME NEW all \in SUBSET Merges, NEW events, Begins(events, all)
  PROVE  Kept(all) \cap events = Kept(events)
<1>1. events \in SUBSET Merges
  BY DEF Begins
<1> QED BY <1>1, KeptIsTold, BeginningIsTold, ToldOnlyOneWay

\* In particular a reader at a boundary hears what is told of the merges up to it.
LEMMA KeptUpTo ==
  ASSUME NEW events \in SUBSET Merges, NEW b \in Int
  PROVE  {e \in Kept(events) : e.at <= b} = Kept({e \in events : e.at <= b})
<1> DEFINE early == {e \in events : e.at <= b}
<1>1. \A e \in Merges : e.at \in Int
  BY IdsAreCounted DEF Merges
<1>2. Begins(early, events)
  BY <1>1 DEF Begins, Before
<1>3. Kept(events) \cap early = Kept(early)
  BY <1>2, KeptFromTheStart
<1>4. Kept(events) \in SUBSET events
  BY KeptIsTold DEF Told
<1> QED BY <1>3, <1>4

\* The merges that are told never close a circle: the last of a circle would not
\* have been acceptable, the way from its target leads to its source.
LEMMA KeptIsAcyclic ==
  ASSUME NEW events \in SUBSET Merges
  PROVE  Acyclic(Into(Kept(events)))
<1> DEFINE K == Kept(events)
           I == Into(K)
           Latest(e, S) == e.source \in S /\ \A d \in K : d.source \in S => d = e \/ Before(d, e)
           Bad == {e \in K : \E S \in SUBSET CharacterIds : Circle(I, S) /\ Latest(e, S)}
<1>1. K \in SUBSET Merges /\ Told(K, events)
  BY KeptIsTold DEF Told
<1>2. /\ I \in [Sources(K) -> CharacterIds]
      /\ \A s \in Sources(K) : \E e \in K : e.source = s /\ LastWord(K, e)
      /\ \A e \in K : LastWord(K, e) => I[e.source] = e.target
  BY <1>1, IntoIsLastWord
<1> HIDE DEF K, I
<1>3. ASSUME NEW S \in SUBSET CharacterIds, Circle(I, S) PROVE \E e \in K : Latest(e, S)
  <2> DEFINE T == {d \in K : d.source \in S}
  <2>1. T \in SUBSET Merges /\ T # {}
    BY <1>1, <1>2, <1>3 DEF Circle
  <2>2. PICK e \in T : \A d \in T : d = e \/ Before(d, e)
    BY <2>1, LatestMerge
  <2> QED BY <2>2
<1>4. Bad = {}
  <2>1. SUFFICES ASSUME Bad # {} PROVE FALSE
    OBVIOUS
  <2>2. PICK e \in Bad : \A d \in Bad : ~Before(d, e)
    BY <1>1, <2>1, EarliestMerge
  <2>3. PICK S \in SUBSET CharacterIds : Circle(I, S) /\ Latest(e, S)
    BY <2>2
  <2> DEFINE earlier == {d \in K : Before(d, e)}
             J == Into(earlier)
             w == Way(J, e.target)
  <2>4. e \in K /\ e.source \notin Range(w)
    BY <1>1, <2>2 DEF Told, Acceptable
  <2>5. e.target \in S
    <3>1. LastWord(K, e)
      BY <2>3, <2>4 DEF LastWord
    <3> QED BY <1>2, <2>3, <2>4, <3>1 DEF Circle
  <2>6. /\ J \in [Sources(earlier) -> CharacterIds]
        /\ \A d \in earlier : LastWord(earlier, d) => J[d.source] = d.target
    BY <1>1, IntoIsLastWord
  <2>7. ASSUME NEW s \in S, s # e.source PROVE s \in DOMAIN J /\ J[s] = I[s]
    <3>1. s \in Sources(K)
      BY <1>2, <2>3 DEF Circle
    <3>2. PICK d \in K : d.source = s /\ LastWord(K, d)
      BY <1>2, <3>1
    <3>3. d \in earlier
      BY <2>3, <2>7, <3>2
    <3>4. LastWord(earlier, d)
      BY <3>2, <3>3 DEF LastWord
    <3>5. s \in Sources(earlier)
      BY <3>2, <3>3 DEF Sources
    <3> HIDE DEF earlier, J
    <3> QED BY <1>2, <2>6, <3>2, <3>3, <3>4, <3>5
  <2> HIDE DEF J
  <2>8. /\ w = [n \in 0..Last |-> w[n]] /\ w[0] = e.target
        /\ \A n \in 1..Last : w[n] = Onward(J, w[n - 1])
    <3>1. \A i : /\ Way(J, i) = [n \in 0..Last |-> Way(J, i)[n]] /\ Way(J, i)[0] = i
                /\ \A n \in 1..Last : Way(J, i)[n] = Onward(J, Way(J, i)[n - 1])
      BY WayWalks
    <3> QED BY <3>1
  <2> HIDE DEF w
  <2>9. \A n \in 0..Last : w[n] # e.source
    BY <2>4, <2>8 DEF Range
  <2>10. \A n \in 0..Last : w[n] \in S
    <3> DEFINE Off == {n \in 0..Last : w[n] \notin S}
    <3>1. SUFFICES ASSUME Off # {} PROVE FALSE
      OBVIOUS
    <3>2. Off \in SUBSET Nat
      BY IdsAreCounted
    <3>3. PICK n \in Off : \A k \in Off : n <= k
      <4> HIDE DEF Off
      <4> QED BY <3>1, <3>2, LeastNatural
    <3>4. n \in 1..Last /\ n - 1 \in 0..Last /\ n - 1 \notin Off
      BY <2>5, <2>8, <3>3, IdsAreCounted
    <3>5. w[n - 1] \in S /\ w[n - 1] # e.source
      BY <2>9, <3>4
    <3>6. w[n] = I[w[n - 1]]
      BY <2>7, <2>8, <3>4, <3>5 DEF Onward
    <3> QED BY <2>3, <3>3, <3>5, <3>6 DEF Circle
  <2>11. w \in [0..Last -> CharacterIds] /\ \A n \in 0..Last : w[n] \in DOMAIN J
    BY <2>7, <2>8, <2>9, <2>10
  <2>12. PICK R \in SUBSET Range(w) : Circle(J, R)
    BY <2>11, WayCircles DEF w
  <2>13. R \in SUBSET S /\ e.source \notin R
    BY <2>4, <2>8, <2>10, <2>12 DEF Range
  <2>14. Circle(I, R)
    <3>1. \A s \in R : s \in DOMAIN I
      BY <2>3, <2>13 DEF Circle
    <3> QED BY <2>7, <2>12, <2>13, <3>1 DEF Circle
  <2>15. PICK d \in K : Latest(d, R)
    BY <1>3, <2>13, <2>14
  <2>16. d \in Bad
    BY <2>13, <2>14, <2>15
  <2>17. Before(d, e)
    BY <2>3, <2>13, <2>15
  <2> QED BY <2>2, <2>16, <2>17
<1>5. \A S \in SUBSET CharacterIds : ~Circle(I, S)
  BY <1>3, <1>4
<1> QED BY <1>5 DEF Acyclic, I, K

\* What a reader knows at any boundary has no circle.
LEMMA IntoAtIsAcyclic ==
  ASSUME NEW events \in SUBSET Merges, NEW b \in Int
  PROVE  /\ DOMAIN IntoAt(events, b) \in SUBSET CharacterIds
         /\ IntoAt(events, b) \in [DOMAIN IntoAt(events, b) -> CharacterIds]
         /\ Acyclic(IntoAt(events, b))
<1> DEFINE early == {e \in events : e.at <= b}
<1>1. IntoAt(events, b) = Into(Kept(early))
  BY KeptUpTo DEF IntoAt
<1>2. early \in SUBSET Merges
  OBVIOUS
<1> HIDE DEF early
<1>3. Kept(early) \in SUBSET Merges
  BY <1>2, KeptIsTold DEF Told
<1>4. /\ Sources(Kept(early)) \in SUBSET CharacterIds
      /\ Into(Kept(early)) \in [Sources(Kept(early)) -> CharacterIds]
  BY <1>3, IntoIsLastWord
<1> QED BY <1>1, <1>2, <1>4, KeptIsAcyclic

-----------------------------------------------------------------------------
(* People, and what they are called *)

\* The types of the documents: names with their episodes, people, records by id.
Namings == [name: Names, at: 1..Episodes]
Persons == [names: SUBSET Namings, first: 1..Episodes]
Records == UNION {[D -> Persons] : D \in SUBSET CharacterIds}
RetiredIds == UNION {[D -> CharacterIds \cup {Nobody}] : D \in SUBSET CharacterIds}

\* All names of some records.
Tells(recs) == UNION {recs[i].names : i \in DOMAIN recs}

\* The records tell exactly these names, each under somebody who is already
\* there when the name is found.
Tell(recs, names) ==
  /\ Tells(recs) = names
  /\ \A n \in names : \E i \in DOMAIN recs : n \in recs[i].names /\ recs[i].first <= n.at

\* Nobody, and no name, is from after episode e.
NotAfter(recs, e) == \A i \in DOMAIN recs : recs[i].first <= e /\ \A n \in recs[i].names : n.at <= e

\* Of the documents: the types, nothing from after the frontier, exactly the names
\* that were found, and ids that are all below the next one to be given.
DocInv ==
  /\ eventsDoc \in [frontier: 0..Episodes, recs: Records, retired: RetiredIds,
                    merges: SUBSET Merges, next: 1..(MaxFindings + 1)]
  /\ findings \in 0..MaxFindings
  /\ NotAfter(eventsDoc.recs, eventsDoc.frontier)
  /\ Tell(eventsDoc.recs, found)
  /\ eventsDoc.next <= findings + 1
  /\ \A i \in UsedIds(eventsDoc) : i < eventsDoc.next

\* What a generation goes on from.
Base == IF generation.redo THEN Cut(eventsDoc.recs, generation.from) ELSE eventsDoc.recs

\* Of a generation under way: it has found its names and has those it began with,
\* and its ids are below its next one.
Generations ==
  [stage: {"none", "batches", "profile"}, from: 0..Episodes, upTo: 0..Episodes, at: 0..Episodes,
   redo: BOOLEAN, recs: Records, merges: SUBSET Merges, proposed: SUBSET Merges,
   next: 1..(MaxFindings + 1), found: SUBSET Namings, behind: 0..Episodes]

Batching ==
  /\ 1 <= generation.from /\ generation.from <= generation.at /\ generation.at <= generation.upTo
  /\ NotAfter(generation.recs, generation.at)
  /\ Tell(generation.recs, generation.found)
  /\ Tells(Base) \subseteq generation.found /\ NotAfter(Base, generation.at)
  /\ eventsDoc.next <= generation.next /\ generation.next <= findings + 1
  /\ \A i \in DOMAIN generation.recs : i < generation.next

GenInv == generation \in Generations /\ (generation.stage = "batches" => Batching)

IdentityInv == DocInv /\ GenInv

\* Min and records, as the provers need them.
LEMMA MinIsLeast ==
  ASSUME NEW S \in SUBSET Nat, S # {}
  PROVE  Min(S) \in S /\ \A x \in S : Min(S) <= x
<1>1. \E x \in S : \A y \in S : x <= y
  BY LeastNatural
<1> QED BY <1>1 DEF Min

\* What a record of characters is.
LEMMA RecordsAre ==
  /\ \A r \in Records : DOMAIN r \in SUBSET CharacterIds /\ r \in [DOMAIN r -> Persons]
  /\ \A D \in SUBSET CharacterIds : [D -> Persons] \subseteq Records
BY DEF Records

\* What one character is.
LEMMA PersonsAre ==
  \A p \in Persons : p.names \in SUBSET Namings /\ p.first \in 1..Episodes /\ p.first \in Nat
BY IdsAreCounted DEF Persons

\* Any group of people as one: under all their names, from the first of them on.
LEMMA Joined ==
  ASSUME NEW recs \in Records, NEW G \in SUBSET DOMAIN recs, G # {}
  PROVE  /\ [names |-> UNION {recs[i].names : i \in G}, first |-> Min({recs[i].first : i \in G})] \in Persons
         /\ \A i \in G : Min({recs[j].first : j \in G}) <= recs[i].first
         /\ \E i \in G : Min({recs[j].first : j \in G}) = recs[i].first
<1> DEFINE F == {recs[i].first : i \in G}
<1>1. \A i \in G : recs[i] \in Persons
  BY RecordsAre
<1>2. \A i \in G : recs[i].names \in SUBSET Namings /\ recs[i].first \in 1..Episodes /\ recs[i].first \in Nat
  BY <1>1, PersonsAre
<1>3. F \in SUBSET Nat /\ F # {}
  BY <1>2
<1>4. Min(F) \in F /\ \A x \in F : Min(F) <= x
  BY <1>3, MinIsLeast
<1>5. UNION {recs[i].names : i \in G} \in SUBSET Namings
  BY <1>2
<1>6. \A i \in G : Min(F) <= recs[i].first
  BY <1>4
<1>7. \E i \in G : Min(F) = recs[i].first
  BY <1>4
<1>8. Min(F) \in 1..Episodes
  BY <1>2, <1>7
<1> HIDE DEF F
<1>9. [names |-> UNION {recs[i].names : i \in G}, first |-> Min(F)] \in Persons
  BY <1>5, <1>8 DEF Persons
<1> QED BY <1>6, <1>7, <1>9 DEF F

\* Merged people are made of records: no name and no first appearance is new.
LEMMA MergedWithin ==
  ASSUME NEW recs \in Records, NEW into
  PROVE  /\ Merged(recs, into) \in Records
         /\ DOMAIN Merged(recs, into) = {i \in DOMAIN recs : Survivor(recs, into, i) = i}
         /\ Tells(Merged(recs, into)) \subseteq Tells(recs)
         /\ \A e \in Nat : NotAfter(recs, e) => NotAfter(Merged(recs, into), e)
         /\ \A k \in DOMAIN Merged(recs, into), i \in DOMAIN recs : Survivor(recs, into, i) = k =>
              /\ recs[i].names \subseteq Merged(recs, into)[k].names
              /\ Merged(recs, into)[k].first <= recs[i].first
<1> DEFINE kept == {i \in DOMAIN recs : Survivor(recs, into, i) = i}
           group(k) == {i \in DOMAIN recs : Survivor(recs, into, i) = k}
           M == Merged(recs, into)
<1>0. \A G \in SUBSET DOMAIN recs : G # {} =>
        /\ [names |-> UNION {recs[i].names : i \in G}, first |-> Min({recs[i].first : i \in G})] \in Persons
        /\ \A i \in G : Min({recs[j].first : j \in G}) <= recs[i].first
        /\ \E i \in G : Min({recs[j].first : j \in G}) = recs[i].first
  BY Joined
<1>1. M = [k \in kept |-> [names |-> UNION {recs[i].names : i \in group(k)},
                           first |-> Min({recs[i].first : i \in group(k)})]]
  BY DEF Merged
<1>2. \A k \in kept : group(k) \in SUBSET DOMAIN recs /\ group(k) # {}
  OBVIOUS
<1> HIDE DEF M
<1>3. ASSUME NEW k \in kept
      PROVE  /\ M[k] \in Persons
             /\ M[k].names = UNION {recs[i].names : i \in group(k)}
             /\ \A i \in group(k) : M[k].first <= recs[i].first
             /\ \E i \in group(k) : M[k].first = recs[i].first
  <2>1. M[k] = [names |-> UNION {recs[i].names : i \in group(k)},
                first |-> Min({recs[i].first : i \in group(k)})]
    BY <1>1
  <2>2. group(k) \in SUBSET DOMAIN recs /\ group(k) # {}
    BY <1>2
  <2> DEFINE G == group(k)
  <2>3. /\ M[k] = [names |-> UNION {recs[i].names : i \in G}, first |-> Min({recs[i].first : i \in G})]
        /\ G \in SUBSET DOMAIN recs /\ G # {}
    BY <2>1, <2>2
  <2> HIDE DEF G
  <2>4. /\ M[k] \in Persons
        /\ \A i \in G : Min({recs[j].first : j \in G}) <= recs[i].first
        /\ \E i \in G : Min({recs[j].first : j \in G}) = recs[i].first
    BY <1>0, <2>3
  <2>5. M[k].names = UNION {recs[i].names : i \in G} /\ M[k].first = Min({recs[i].first : i \in G})
    BY <2>3
  <2>6. /\ \A i \in G : M[k].first <= recs[i].first
        /\ \E i \in G : M[k].first = recs[i].first
    BY <2>4, <2>5
  <2> QED BY <2>4, <2>5, <2>6 DEF G
<1>4. DOMAIN M = kept /\ kept \in SUBSET CharacterIds
  BY <1>1, RecordsAre
<1>5. M \in Records
  <2> HIDE DEF kept
  <2> QED BY <1>1, <1>3, <1>4, RecordsAre
<1>6. Tells(M) \subseteq Tells(recs)
  <2>1. ASSUME NEW k \in kept, NEW n \in M[k].names PROVE n \in Tells(recs)
    BY <1>3, <2>1 DEF Tells
  <2> HIDE DEF kept
  <2> QED BY <1>4, <2>1 DEF Tells
<1>7. ASSUME NEW e \in Nat, NotAfter(recs, e) PROVE NotAfter(M, e)
  <2>1. ASSUME NEW k \in kept PROVE M[k].first <= e /\ \A n \in M[k].names : n.at <= e
    BY <1>3, <1>7 DEF NotAfter
  <2> HIDE DEF kept
  <2> QED BY <1>4, <2>1 DEF NotAfter
<1>8. ASSUME NEW k \in kept, NEW i \in DOMAIN recs, Survivor(recs, into, i) = k
      PROVE  recs[i].names \subseteq M[k].names /\ M[k].first <= recs[i].first
  BY <1>3, <1>8
<1>9. \A k \in DOMAIN M, i \in DOMAIN recs : Survivor(recs, into, i) = k =>
            recs[i].names \subseteq M[k].names /\ M[k].first <= recs[i].first
  BY <1>4, <1>8
<1> QED BY <1>4, <1>5, <1>6, <1>7, <1>9 DEF M

\* Merging by any merges without circles loses no name.
LEMMA MergedTells ==
  ASSUME NEW recs \in Records, NEW events \in SUBSET Merges, NEW b \in Int, NEW i \in DOMAIN recs
  PROVE  \E k \in DOMAIN Merged(recs, IntoAt(events, b)) :
           /\ recs[i].names \subseteq Merged(recs, IntoAt(events, b))[k].names
           /\ Merged(recs, IntoAt(events, b))[k].first <= recs[i].first
<1> DEFINE into == IntoAt(events, b)
           k == Survivor(recs, into, i)
<1>1. /\ DOMAIN into \in SUBSET CharacterIds /\ into \in [DOMAIN into -> CharacterIds]
      /\ Acyclic(into)
  BY IntoAtIsAcyclic
<1> HIDE DEF into
<1>2. k \in DOMAIN recs /\ Survivor(recs, into, k) = k
  <2>1. DOMAIN recs \in SUBSET CharacterIds
    BY RecordsAre
  <2> QED BY <1>1, <2>1, SurvivorSurvives
<1>3. k \in DOMAIN Merged(recs, into)
  BY <1>2, MergedWithin
<1>4. recs[i].names \subseteq Merged(recs, into)[k].names /\ Merged(recs, into)[k].first <= recs[i].first
  BY <1>3, MergedWithin
<1> QED BY <1>3, <1>4 DEF into

\* So a reader at boundary b is shown exactly the names up to b.
LEMMA ShownTells ==
  ASSUME NEW doc, doc.recs \in Records, doc.merges \in SUBSET Merges, doc.frontier \in Nat,
         NEW names, Tell(doc.recs, names), NEW b \in 1..doc.frontier
  PROVE  UNION {c.names : c \in ShownAt(doc, b)} = {n \in names : n.at <= b}
<1> DEFINE all == Merged(doc.recs, IntoAt(doc.merges, b))
           who == {i \in DOMAIN all : all[i].first <= b}
           shown == {[id |-> i, names |-> {n \in all[i].names : n.at <= b}] : i \in who}
<1>1. ShownAt(doc, b) = shown
  <2>1. Earlier(b, doc.frontier) = b
    BY DEF Earlier
  <2> QED BY <2>1 DEF ShownAt
<1>2. /\ all \in Records /\ Tells(all) \subseteq Tells(doc.recs)
  BY MergedWithin
<1>3. \A i \in DOMAIN doc.recs : \E k \in DOMAIN all :
        doc.recs[i].names \subseteq all[k].names /\ all[k].first <= doc.recs[i].first
  <2>1. b \in Int
    OBVIOUS
  <2>2. \A recs \in Records, events \in SUBSET Merges : \A i \in DOMAIN recs :
          \E k \in DOMAIN Merged(recs, IntoAt(events, b)) :
            /\ recs[i].names \subseteq Merged(recs, IntoAt(events, b))[k].names
            /\ Merged(recs, IntoAt(events, b))[k].first <= recs[i].first
    BY <2>1, MergedTells
  <2> QED BY <2>2
<1> HIDE DEF all
<1>4. UNION {c.names : c \in shown} = UNION {{n \in all[i].names : n.at <= b} : i \in who}
  <2>1. \A i \in who : [id |-> i, names |-> {n \in all[i].names : n.at <= b}].names
                        = {n \in all[i].names : n.at <= b}
    OBVIOUS
  <2>2. \A N : (\E c \in shown : N = c.names) <=> \E i \in who : N = {n \in all[i].names : n.at <= b}
    <3> HIDE DEF who
    <3> QED BY <2>1
  <2>3. {c.names : c \in shown} = {{n \in all[i].names : n.at <= b} : i \in who}
    <3> HIDE DEF shown, who
    <3> QED BY <2>2
  <2> QED BY <2>3
<1>5. ASSUME NEW i \in who, NEW n \in all[i].names, n.at <= b PROVE n \in names
  BY <1>2 DEF Tells, Tell
<1>6. ASSUME NEW n \in names, n.at <= b PROVE \E i \in who : n \in all[i].names
  <2>1. PICK i \in DOMAIN doc.recs : n \in doc.recs[i].names /\ doc.recs[i].first <= n.at
    BY DEF Tell
  <2>2. PICK k \in DOMAIN all : doc.recs[i].names \subseteq all[k].names /\ all[k].first <= doc.recs[i].first
    BY <1>3
  <2>3. doc.recs[i].first \in Nat /\ n.at \in Nat /\ all[k].first \in Nat
    <3>1. doc.recs[i] \in Persons /\ all[k] \in Persons
      BY <1>2, RecordsAre
    <3>2. n \in Namings
      BY <2>1, <3>1, PersonsAre
    <3> QED BY <3>1, <3>2, PersonsAre, IdsAreCounted DEF Namings
  <2>4. all[k].first <= b
    BY <1>6, <2>1, <2>2, <2>3
  <2> QED BY <2>1, <2>2, <2>4
<1> HIDE DEF who, shown
<1>7. UNION {{n \in all[i].names : n.at <= b} : i \in who} = {n \in names : n.at <= b}
  <2>1. ASSUME NEW i \in who, NEW n \in all[i].names, n.at <= b PROVE n \in {m \in names : m.at <= b}
    BY <1>5, <2>1
  <2>2. ASSUME NEW n \in names, n.at <= b PROVE \E i \in who : n \in {m \in all[i].names : m.at <= b}
    BY <1>6, <2>2
  <2> QED BY <2>1, <2>2
<1> QED BY <1>1, <1>4, <1>7

\* The next unused id is a free one, if one in sight is free.
LEMMA NextIsFree ==
  ASSUME NEW n \in 1..(Cardinality(CharacterIds) + 1), NEW used, \A i \in used : i < n
  PROVE  NextUnused(n, used) = n
<1>1. Cardinality(CharacterIds) \in Nat
  BY IdsAreCounted DEF Last
<1> DEFINE P(m) == m \notin used /\ \A k \in n..(m - 1) : k \in used
           T == n..(Cardinality(CharacterIds) + 1)
<1>2. n \in T /\ P(n)
  <2>1. n \notin used
    BY <1>1
  <2>2. n..(n - 1) = {}
    BY <1>1
  <2> QED BY <1>1, <2>1, <2>2
<1>3. ASSUME NEW m \in T, P(m) PROVE m = n
  <2>1. m # n => n \in n..(m - 1)
    BY <1>1
  <2> QED BY <1>2, <1>3, <2>1
<1>4. NextUnused(n, used) = CHOOSE m \in T : P(m)
  BY DEF NextUnused
<1> HIDE DEF P, T
<1> QED BY <1>2, <1>3, <1>4

\* Cutting a history leaves exactly the names before the cut.
LEMMA CutTells ==
  ASSUME NEW recs \in Records, NEW names \in SUBSET Namings, Tell(recs, names), NEW from \in 1..Episodes
  PROVE  /\ Cut(recs, from) \in Records /\ DOMAIN Cut(recs, from) \subseteq DOMAIN recs
         /\ Tell(Cut(recs, from), {n \in names : n.at < from})
         /\ NotAfter(Cut(recs, from), from)
<1> DEFINE left(i) == {n \in recs[i].names : n.at < from}
           D == {j \in DOMAIN recs : recs[j].first < from /\ left(j) # {}}
           C == Cut(recs, from)
<1>1. C = [i \in D |-> [names |-> left(i), first |-> recs[i].first]]
  BY DEF Cut
<1>2. \A i \in DOMAIN recs : recs[i] \in Persons /\ recs[i].names \in SUBSET Namings /\ recs[i].first \in 1..Episodes
  BY RecordsAre, PersonsAre
<1>3. D \in SUBSET CharacterIds /\ D \subseteq DOMAIN recs
  BY RecordsAre
<1>0. \A n \in Namings : n.at \in Nat
  BY IdsAreCounted DEF Namings
<1> HIDE DEF C
<1>4. DOMAIN C = D /\ \A i \in D : C[i].names = left(i) /\ C[i].first = recs[i].first
  BY <1>1
<1>5. \A i \in D : C[i] \in Persons
  BY <1>1, <1>2 DEF Persons
<1>6. C \in Records
  <2> HIDE DEF D
  <2> QED BY <1>1, <1>3, <1>5, RecordsAre
<1>7. NotAfter(C, from)
  BY <1>0, <1>2, <1>4, IdsAreCounted DEF NotAfter
<1>8. ASSUME NEW n \in names, n.at < from PROVE \E i \in D : n \in C[i].names /\ C[i].first <= n.at
  <2>1. PICK i \in DOMAIN recs : n \in recs[i].names /\ recs[i].first <= n.at
    BY DEF Tell
  <2>2. recs[i].first < from
    BY <1>0, <1>2, <1>8, <2>1
  <2> QED BY <1>4, <1>8, <2>1, <2>2
<1>9. ASSUME NEW i \in D, NEW n \in C[i].names PROVE n \in names /\ n.at < from
  BY <1>4 DEF Tell, Tells
<1>10. Tell(C, {n \in names : n.at < from})
  <2> HIDE DEF D
  <2>1. Tells(C) = {n \in names : n.at < from}
    BY <1>4, <1>8, <1>9 DEF Tells
  <2> QED BY <1>4, <1>8, <2>1 DEF Tell
<1> QED BY <1>3, <1>4, <1>6, <1>7, <1>10 DEF C

\* Giving ids back loses no name, also when two records get one id.
LEMMA RenumberedTells ==
  ASSUME NEW recs \in Records, NEW new, \A i \in DOMAIN new : new[i] \in CharacterIds
  PROVE  /\ RenumberedRecs(recs, new) \in Records
         /\ DOMAIN RenumberedRecs(recs, new) = {As(new, i) : i \in DOMAIN recs}
         /\ \A names : Tell(recs, names) => Tell(RenumberedRecs(recs, new), names)
         /\ \A e \in Nat : NotAfter(recs, e) => NotAfter(RenumberedRecs(recs, new), e)
<1> DEFINE D == {As(new, i) : i \in DOMAIN recs}
           group(k) == {i \in DOMAIN recs : As(new, i) = k}
           R == RenumberedRecs(recs, new)
<1>1. R = [k \in D |-> [names |-> UNION {recs[i].names : i \in group(k)},
                        first |-> Min({recs[i].first : i \in group(k)})]]
  BY DEF RenumberedRecs
<1>2. \A i \in DOMAIN recs : As(new, i) \in CharacterIds
  BY RecordsAre DEF As
<1> HIDE DEF R
<1>3. ASSUME NEW k \in D
      PROVE  /\ R[k] \in Persons
             /\ R[k].names = UNION {recs[i].names : i \in group(k)}
             /\ \A i \in group(k) : R[k].first <= recs[i].first
             /\ \E i \in group(k) : R[k].first = recs[i].first
  <2> DEFINE G == group(k)
  <2>1. /\ R[k] = [names |-> UNION {recs[i].names : i \in G}, first |-> Min({recs[i].first : i \in G})]
        /\ G \in SUBSET DOMAIN recs /\ G # {}
    BY <1>1
  <2> HIDE DEF G
  <2>2. /\ R[k] \in Persons
        /\ \A i \in G : Min({recs[j].first : j \in G}) <= recs[i].first
        /\ \E i \in G : Min({recs[j].first : j \in G}) = recs[i].first
    BY <2>1, Joined
  <2>3. R[k].names = UNION {recs[i].names : i \in G} /\ R[k].first = Min({recs[i].first : i \in G})
    BY <2>1
  <2>4. /\ \A i \in G : R[k].first <= recs[i].first
        /\ \E i \in G : R[k].first = recs[i].first
    BY <2>2, <2>3
  <2> QED BY <2>2, <2>3, <2>4 DEF G
<1>4. DOMAIN R = D /\ D \in SUBSET CharacterIds
  BY <1>1, <1>2
<1>5. R \in Records
  <2> HIDE DEF D
  <2> QED BY <1>1, <1>3, <1>4, RecordsAre
<1>6. ASSUME NEW names, Tell(recs, names) PROVE Tell(R, names)
  <2>1. ASSUME NEW n \in names
        PROVE  \E k \in D : n \in R[k].names /\ R[k].first <= n.at
    <3>1. PICK i \in DOMAIN recs : n \in recs[i].names /\ recs[i].first <= n.at
      BY <1>6 DEF Tell
    <3>2. As(new, i) \in D /\ i \in group(As(new, i))
      OBVIOUS
    <3>3. n \in R[As(new, i)].names /\ R[As(new, i)].first <= recs[i].first
      BY <1>3, <3>1, <3>2
    <3>4. recs[i].first \in Nat /\ R[As(new, i)].first \in Nat /\ n.at \in Nat
      <4>1. recs[i] \in Persons /\ R[As(new, i)] \in Persons
        BY <1>3, <3>2, RecordsAre
      <4>2. n \in Namings
        BY <3>1, <4>1, PersonsAre
      <4> QED BY <4>1, <4>2, PersonsAre, IdsAreCounted DEF Namings
    <3>5. R[As(new, i)].first <= n.at
      BY <3>1, <3>3, <3>4
    <3> HIDE DEF D, group
    <3> QED BY <3>2, <3>3, <3>5
  <2>2. ASSUME NEW k \in D, NEW n \in R[k].names PROVE n \in names
    BY <1>3, <1>6 DEF Tell, Tells
  <2> HIDE DEF D
  <2>3. Tells(R) = names
    BY <1>4, <2>1, <2>2 DEF Tells
  <2> QED BY <1>4, <2>1, <2>3 DEF Tell
<1>7. ASSUME NEW e \in Nat, NotAfter(recs, e) PROVE NotAfter(R, e)
  <2>1. ASSUME NEW k \in D PROVE R[k].first <= e /\ \A n \in R[k].names : n.at <= e
    BY <1>3, <1>7 DEF NotAfter
  <2> HIDE DEF D
  <2> QED BY <1>4, <2>1 DEF NotAfter
<1> QED BY <1>4, <1>5, <1>6, <1>7 DEF R

\* Names that an existing record has are kept with it.
WithNames(raw, existing) ==
  [i \in DOMAIN raw |->
     IF i \in DOMAIN existing
     THEN [names |-> raw[i].names \cup existing[i].names, first |-> raw[i].first]
     ELSE raw[i]]

\* Adding the names of the existing records tells both.
LEMMA WithNamesTells ==
  ASSUME NEW raw \in Records, NEW existing \in Records, NEW names,
         Tell(raw, names), Tells(existing) \subseteq names,
         NEW e \in Nat, NotAfter(raw, e), NotAfter(existing, e)
  PROVE  /\ WithNames(raw, existing) \in Records
         /\ DOMAIN WithNames(raw, existing) = DOMAIN raw
         /\ Tell(WithNames(raw, existing), names)
         /\ NotAfter(WithNames(raw, existing), e)
<1> DEFINE R == WithNames(raw, existing)
<1>1. /\ \A i \in DOMAIN raw : raw[i] \in Persons /\ raw[i].names \in SUBSET Namings /\ raw[i].first \in 1..Episodes
      /\ \A i \in DOMAIN existing : existing[i].names \in SUBSET Namings
  BY RecordsAre, PersonsAre
<1>2. DOMAIN R = DOMAIN raw
  BY DEF WithNames
<1>3. ASSUME NEW i \in DOMAIN raw
      PROVE  /\ R[i] \in Persons /\ R[i].first = raw[i].first
             /\ R[i].names = raw[i].names \cup (IF i \in DOMAIN existing THEN existing[i].names ELSE {})
  <2>1. CASE i \in DOMAIN existing
    <3>1. R[i] = [names |-> raw[i].names \cup existing[i].names, first |-> raw[i].first]
      BY <2>1 DEF WithNames
    <3> QED BY <1>1, <2>1, <3>1 DEF Persons
  <2>2. CASE i \notin DOMAIN existing
    <3>1. R[i] = raw[i]
      BY <2>2 DEF WithNames
    <3> QED BY <1>1, <2>2, <3>1
  <2> QED BY <2>1, <2>2
<1>4. R = [i \in DOMAIN raw |-> R[i]]
  BY DEF WithNames
<1> HIDE DEF R
<1>5. R \in Records
  BY <1>3, <1>4, RecordsAre
<1>6. Tell(R, names)
  <2>1. ASSUME NEW i \in DOMAIN raw, NEW n \in R[i].names PROVE n \in names
    BY <1>3, <2>1 DEF Tell, Tells
  <2>2. ASSUME NEW n \in names PROVE \E i \in DOMAIN R : n \in R[i].names /\ R[i].first <= n.at
    <3>1. PICK i \in DOMAIN raw : n \in raw[i].names /\ raw[i].first <= n.at
      BY DEF Tell
    <3> QED BY <1>2, <1>3, <3>1
  <2>3. Tells(R) = names
    BY <1>2, <2>1, <2>2 DEF Tells
  <2> QED BY <2>2, <2>3 DEF Tell
<1>7. NotAfter(R, e)
  <2>1. ASSUME NEW i \in DOMAIN raw PROVE R[i].first <= e /\ \A n \in R[i].names : n.at <= e
    BY <1>3 DEF NotAfter
  <2> QED BY <1>2, <2>1 DEF NotAfter
<1> QED BY <1>2, <1>5, <1>6, <1>7 DEF R

\* Records of merged people that are kept add no name that is not told anyway.
LEMMA PreservedTells ==
  ASSUME NEW recs \in Records, NEW existing \in Records, NEW merges, NEW names,
         Tell(recs, names), Tells(existing) \subseteq names,
         NEW e \in Nat, NotAfter(recs, e), NotAfter(existing, e)
  PROVE  /\ Preserved(recs, merges, existing) \in Records
         /\ DOMAIN Preserved(recs, merges, existing) \subseteq DOMAIN recs \cup DOMAIN existing
         /\ DOMAIN recs \subseteq DOMAIN Preserved(recs, merges, existing)
         /\ Tell(Preserved(recs, merges, existing), names)
         /\ NotAfter(Preserved(recs, merges, existing), e)
<1> DEFINE more == {d.source : d \in merges} \cap (DOMAIN existing \ DOMAIN recs)
           P == Preserved(recs, merges, existing)
<1>1. P = [i \in DOMAIN recs \cup more |-> IF i \in DOMAIN recs THEN recs[i] ELSE existing[i]]
  BY DEF Preserved
<1>2. more \subseteq DOMAIN existing
  OBVIOUS
<1>3. /\ DOMAIN recs \in SUBSET CharacterIds /\ DOMAIN existing \in SUBSET CharacterIds
      /\ \A i \in DOMAIN recs : recs[i] \in Persons
      /\ \A i \in DOMAIN existing : existing[i] \in Persons
  BY RecordsAre
<1> HIDE DEF more, P
<1>4. /\ DOMAIN P = DOMAIN recs \cup more
      /\ \A i \in DOMAIN recs : P[i] = recs[i]
      /\ \A i \in more : P[i] = recs[i] \/ (i \in DOMAIN existing /\ P[i] = existing[i])
  BY <1>1, <1>2
<1>5. P \in Records
  <2>1. \A i \in DOMAIN recs \cup more : P[i] \in Persons
    BY <1>1, <1>2, <1>3
  <2> QED BY <1>1, <1>2, <1>3, <2>1, RecordsAre
<1>6. \A i \in DOMAIN P : (i \in DOMAIN recs /\ P[i] = recs[i]) \/ (i \in DOMAIN existing /\ P[i] = existing[i])
  BY <1>1, <1>2
<1>7. Tell(P, names)
  <2>1. ASSUME NEW i \in DOMAIN P, NEW n \in P[i].names PROVE n \in names
    BY <1>6, <2>1 DEF Tell, Tells
  <2>2. ASSUME NEW n \in names PROVE \E i \in DOMAIN P : n \in P[i].names /\ P[i].first <= n.at
    BY <1>4 DEF Tell
  <2>3. Tells(P) = names
    BY <2>1, <2>2 DEF Tells
  <2> QED BY <2>2, <2>3 DEF Tell
<1>8. NotAfter(P, e)
  BY <1>6 DEF NotAfter
<1> QED BY <1>2, <1>4, <1>5, <1>7, <1>8 DEF P

\* A set of one element has one element.
LEMMA OneOfThem ==
  ASSUME NEW O, Cardinality(O) = 1
  PROVE  (CHOOSE i \in O : TRUE) \in O
<1>1. O # {}
  <2>1. Cardinality({}) = 0
    BY FS_EmptySet
  <2> QED BY <2>1
<1> QED BY <1>1

\* Ids that are given back are in use in the document, or were.
LEMMA GivenBackIds ==
  ASSUME NEW raw \in Records, NEW merges, NEW doc, doc.recs \in Records, NEW upTo
  PROVE  /\ DOMAIN Renumbered(raw, merges, doc, upTo) \subseteq DOMAIN raw
         /\ \A p \in DOMAIN Renumbered(raw, merges, doc, upTo) :
              Renumbered(raw, merges, doc, upTo)[p] \in DOMAIN doc.recs
<1> DEFINE registry == Merged(doc.recs, IntoAt(doc.merges, upTo))
           known == {i \in DOMAIN registry : registry[i].first <= upTo}
           exact(k) == Cardinality({i \in DOMAIN registry : k \in KeysOf(registry[i])}) = 1
           owners(r) == {i \in known : \E k \in KeysOf(r) \cap KeysOf(registry[i]) : exact(k)}
           people == Merged(raw, IntoAt(merges, upTo))
           target(p) == IF Cardinality(owners(people[p])) = 1
                        THEN CHOOSE i \in owners(people[p]) : TRUE ELSE Nobody
           claims(t) == {p \in DOMAIN people : target(p) = t /\ p # t}
           D == {q \in DOMAIN people : /\ target(q) \notin {Nobody, q}
                                       /\ GetsBack(target(q), DOMAIN people, claims(target(q)))}
<1>1. Renumbered(raw, merges, doc, upTo) = [p \in D |-> target(p)]
  BY DEF Renumbered
<1>2. DOMAIN registry \subseteq DOMAIN doc.recs /\ DOMAIN people \subseteq DOMAIN raw
  <2>1. \A recs \in Records : \A into : DOMAIN Merged(recs, into) \subseteq DOMAIN recs
    <3> SUFFICES ASSUME NEW recs \in Records, NEW into PROVE DOMAIN Merged(recs, into) \subseteq DOMAIN recs
      OBVIOUS
    <3>1. DOMAIN Merged(recs, into) = {i \in DOMAIN recs : Survivor(recs, into, i) = i}
      BY MergedWithin
    <3> QED BY <3>1
  <2> QED BY <2>1
<1>3. ASSUME NEW q \in DOMAIN people, target(q) # Nobody PROVE target(q) \in DOMAIN doc.recs
  <2> DEFINE O == owners(people[q])
  <2>1. Cardinality(O) = 1 /\ target(q) = CHOOSE i \in O : TRUE
    BY <1>3
  <2>2. target(q) \in O
    <3> HIDE DEF O, target
    <3> QED BY <2>1, OneOfThem
  <2>3. O \subseteq DOMAIN registry
    OBVIOUS
  <2> HIDE DEF O, registry, target
  <2> QED BY <1>2, <2>1, <2>2, <2>3
<1>4. D \subseteq DOMAIN people /\ \A q \in D : target(q) # Nobody
  OBVIOUS
<1> HIDE DEF D, target, people, registry
<1> QED BY <1>1, <1>2, <1>3, <1>4

\* What is told, and what a cut leaves of it, are merges that were there.
LEMMA KeptWithin ==
  ASSUME NEW events \in SUBSET Merges
  PROVE  Kept(events) \in SUBSET Merges /\ Kept(events) \subseteq events
BY KeptIsTold DEF Told

\* Merges that are cut are merges still.
LEMMA CutMergesWithin ==
  ASSUME NEW events \in SUBSET Merges, NEW from
  PROVE  CutMerges(events, from) \in SUBSET Merges
<1> DEFINE early == {e \in events : e.at < from}
<1>1. early \in SUBSET Merges
  OBVIOUS
<1> HIDE DEF early
<1>2. Kept(early) \in SUBSET Merges
  BY <1>1, KeptWithin
<1> QED BY <1>2 DEF CutMerges, early

\* Retired ids have their type.
LEMMA RetiredAre ==
  /\ \A r \in RetiredIds : DOMAIN r \in SUBSET CharacterIds /\ r \in [DOMAIN r -> CharacterIds \cup {Nobody}]
  /\ \A D \in SUBSET CharacterIds : [D -> CharacterIds \cup {Nobody}] \subseteq RetiredIds
BY DEF RetiredIds

\* What a generation goes on from tells what was found before its first episode.
LEMMA BaseTells ==
  ASSUME DocInv, GenInv, generation.stage = "batches"
  PROVE  Base \in Records /\ DOMAIN Base \subseteq DOMAIN eventsDoc.recs
<1>1. eventsDoc.recs \in Records /\ Tell(eventsDoc.recs, found)
  BY DEF DocInv
<1>2. generation.from \in 1..Episodes
  BY IdsAreCounted DEF GenInv, Batching, Generations
<1>3. found \in SUBSET Namings
  <2>1. \A i \in DOMAIN eventsDoc.recs : eventsDoc.recs[i].names \in SUBSET Namings
    BY <1>1, RecordsAre, PersonsAre
  <2> QED BY <1>1, <2>1 DEF Tell, Tells
<1>4. /\ Cut(eventsDoc.recs, generation.from) \in Records
      /\ DOMAIN Cut(eventsDoc.recs, generation.from) \subseteq DOMAIN eventsDoc.recs
  BY <1>1, <1>2, <1>3, CutTells
<1> QED BY <1>1, <1>4 DEF Base

\* What a generation writes.
LEMMA NewEventsTell ==
  ASSUME DocInv, GenInv, generation.stage = "batches", generation.at = generation.upTo,
         NEW new, DOMAIN new \subseteq DOMAIN generation.recs,
         \A i \in DOMAIN new : new[i] \in DOMAIN eventsDoc.recs
  PROVE  LET doc == NewEvents(new) IN
         /\ doc \in [frontier: 0..Episodes, recs: Records, retired: RetiredIds,
                     merges: SUBSET Merges, next: 1..(MaxFindings + 1)]
         /\ doc.frontier = generation.upTo
         /\ NotAfter(doc.recs, doc.frontier)
         /\ Tell(doc.recs, generation.found)
         /\ doc.next = generation.next /\ doc.next <= findings + 1
         /\ \A i \in UsedIds(doc) : i < doc.next
<1> DEFINE raw == RenumberedRecs(generation.recs, new)
           retired == Retired(eventsDoc, DOMAIN raw, new)
           gone == [i \in {j \in DOMAIN retired : retired[j] # Nobody} |-> retired[i]]
           existing == Merged(Base, gone)
           told == Kept(RenumberedMerges(generation.merges, new)
                        \cup (IF generation.redo THEN CutMerges(eventsDoc.merges, generation.from)
                              ELSE eventsDoc.merges))
           recs == WithNames(raw, existing)
           live == Preserved(recs, told, existing)
           next == NextUnused(generation.next, UsedIds(eventsDoc) \cup DOMAIN raw \cup DOMAIN retired)
           top == generation.upTo
           names == generation.found
<1>1. NewEvents(new) = [frontier |-> top, recs |-> live, retired |-> retired, merges |-> told, next |-> next]
  BY DEF NewEvents, WithNames, Base
<1>2. /\ top \in 1..Episodes /\ top \in Nat /\ generation.recs \in Records
      /\ names \in SUBSET Namings /\ Tell(generation.recs, names)
      /\ NotAfter(generation.recs, top) /\ NotAfter(Base, top) /\ Tells(Base) \subseteq names
      /\ generation.merges \in SUBSET Merges
      /\ generation.next \in 1..(MaxFindings + 1) /\ generation.next <= findings + 1
      /\ eventsDoc.next <= generation.next
      /\ \A i \in DOMAIN generation.recs : i < generation.next
  BY IdsAreCounted DEF GenInv, Batching, Generations
<1>3. /\ eventsDoc.recs \in Records /\ eventsDoc.retired \in RetiredIds
      /\ eventsDoc.merges \in SUBSET Merges
      /\ eventsDoc.next \in 1..(MaxFindings + 1)
      /\ \A i \in UsedIds(eventsDoc) : i < eventsDoc.next
  BY DEF DocInv
<1>4. /\ DOMAIN eventsDoc.recs \in SUBSET CharacterIds /\ DOMAIN generation.recs \in SUBSET CharacterIds
      /\ DOMAIN eventsDoc.retired \in SUBSET CharacterIds
  BY <1>2, <1>3, RecordsAre, RetiredAre
<1>5. \A i \in DOMAIN new : new[i] \in CharacterIds
  BY <1>4
<1>6. /\ raw \in Records /\ DOMAIN raw = {As(new, i) : i \in DOMAIN generation.recs}
      /\ Tell(raw, names) /\ NotAfter(raw, top)
  BY <1>2, <1>5, RenumberedTells
<1>7. /\ existing \in Records /\ Tells(existing) \subseteq names /\ NotAfter(existing, top)
      /\ DOMAIN existing \subseteq DOMAIN eventsDoc.recs
  <2>1. Base \in Records /\ DOMAIN Base \subseteq DOMAIN eventsDoc.recs
    BY BaseTells
  <2> HIDE DEF gone
  <2>2. /\ existing \in Records /\ Tells(existing) \subseteq Tells(Base)
        /\ DOMAIN existing = {i \in DOMAIN Base : Survivor(Base, gone, i) = i}
        /\ NotAfter(Base, top) => NotAfter(existing, top)
    BY <1>2, <2>1, MergedWithin
  <2> QED BY <1>2, <2>1, <2>2
<1> HIDE DEF existing
<1>8. told \in SUBSET Merges
  <2>1. RenumberedMerges(generation.merges, new) \in SUBSET Merges
    <3> DEFINE R == {[source |-> As(new, e.source), target |-> As(new, e.target), at |-> e.at] :
                     e \in generation.merges}
    <3>1. R \in SUBSET Merges
      BY <1>2, <1>5 DEF As, Merges
    <3> HIDE DEF R
    <3>2. Kept(R) \in SUBSET Merges
      BY <3>1, KeptWithin
    <3> QED BY <3>2 DEF RenumberedMerges, R
  <2>2. CutMerges(eventsDoc.merges, generation.from) \in SUBSET Merges
    BY <1>3, CutMergesWithin
  <2> DEFINE T == RenumberedMerges(generation.merges, new)
                  \cup (IF generation.redo THEN CutMerges(eventsDoc.merges, generation.from)
                        ELSE eventsDoc.merges)
  <2>3. T \in SUBSET Merges
    BY <1>3, <2>1, <2>2
  <2> HIDE DEF T
  <2>4. Kept(T) \in SUBSET Merges
    BY <2>3, KeptWithin
  <2> QED BY <2>4 DEF T
<1> HIDE DEF told, raw
<1>9. /\ recs \in Records /\ DOMAIN recs = DOMAIN raw /\ Tell(recs, names) /\ NotAfter(recs, top)
  BY <1>2, <1>6, <1>7, WithNamesTells
<1> HIDE DEF recs
<1>10. /\ live \in Records /\ Tell(live, names) /\ NotAfter(live, top)
       /\ DOMAIN live \subseteq DOMAIN recs \cup DOMAIN existing
  BY <1>2, <1>7, <1>9, PreservedTells
<1>11. /\ retired \in RetiredIds
       /\ DOMAIN retired = DOMAIN eventsDoc.retired \cup (DOMAIN eventsDoc.recs \ DOMAIN raw) \cup DOMAIN new
  <2> DEFINE D == DOMAIN eventsDoc.retired \cup (DOMAIN eventsDoc.recs \ DOMAIN raw) \cup DOMAIN new
  <2>1. retired = [i \in D |-> IF i \in DOMAIN new THEN new[i]
                               ELSE IF i \in DOMAIN eventsDoc.retired THEN eventsDoc.retired[i] ELSE Nobody]
    BY DEF Retired
  <2>2. D \in SUBSET CharacterIds
    BY <1>4
  <2>3. \A i \in DOMAIN eventsDoc.retired : eventsDoc.retired[i] \in CharacterIds \cup {Nobody}
    BY <1>3, RetiredAre
  <2> HIDE DEF D
  <2>4. retired \in [D -> CharacterIds \cup {Nobody}] /\ DOMAIN retired = D
    BY <1>5, <2>1, <2>3
  <2> QED BY <2>2, <2>4, RetiredAre DEF D
<1> HIDE DEF live, retired
<1>12. \A i \in UsedIds(eventsDoc) \cup DOMAIN raw \cup DOMAIN retired \cup DOMAIN live : i < generation.next
  <2>1. \A i \in UsedIds(eventsDoc) : i < generation.next
    <3>1. UsedIds(eventsDoc) \in SUBSET Nat
      BY <1>4, IdsAreCounted DEF UsedIds
    <3> QED BY <1>2, <1>3, <3>1
  <2>2. \A i \in DOMAIN eventsDoc.recs \cup DOMAIN eventsDoc.retired : i < generation.next
    BY <2>1 DEF UsedIds
  <2>3. \A i \in DOMAIN raw : i < generation.next
    BY <1>2, <1>6, <2>2 DEF As
  <2>4. \A i \in DOMAIN new : i < generation.next
    BY <1>2
  <2> QED BY <1>7, <1>9, <1>10, <1>11, <2>1, <2>2, <2>3, <2>4
<1>13. next = generation.next
  <2> DEFINE U == UsedIds(eventsDoc) \cup DOMAIN raw \cup DOMAIN retired
  <2>1. \A i \in U : i < generation.next
    BY <1>12
  <2>2. generation.next \in 1..(Cardinality(CharacterIds) + 1)
    BY <1>2, IdsAreCounted DEF Last
  <2> HIDE DEF U
  <2>3. NextUnused(generation.next, U) = generation.next
    BY <2>1, <2>2, NextIsFree
  <2> QED BY <2>3 DEF U
<1> HIDE DEF next
<1> DEFINE doc == NewEvents(new)
<1>14. /\ doc.frontier = top /\ doc.recs = live /\ doc.retired = retired /\ doc.next = next
       /\ doc \in [frontier: 0..Episodes, recs: Records, retired: RetiredIds,
                   merges: SUBSET Merges, next: 1..(MaxFindings + 1)]
  BY <1>1, <1>2, <1>8, <1>10, <1>11, <1>13
<1> HIDE DEF doc
<1>15. UsedIds(doc) = DOMAIN live \cup DOMAIN retired
  BY <1>14 DEF UsedIds
<1> QED BY <1>2, <1>10, <1>12, <1>13, <1>14, <1>15 DEF doc

\* What is found has its type.
LEMMA FoundIsNamed ==
  ASSUME DocInv
  PROVE  found \in SUBSET Namings /\ \A n \in found : n.at <= eventsDoc.frontier
<1>1. eventsDoc.recs \in Records /\ Tell(eventsDoc.recs, found) /\ NotAfter(eventsDoc.recs, eventsDoc.frontier)
  BY DEF DocInv
<1>2. \A i \in DOMAIN eventsDoc.recs : eventsDoc.recs[i].names \in SUBSET Namings
  BY <1>1, RecordsAre, PersonsAre
<1> QED BY <1>1, <1>2 DEF Tell, Tells, NotAfter

-----------------------------------------------------------------------------
(* The actions *)

\* The invariant holds in the beginning, and every action keeps it.
LEMMA IdentityStarts ==
  ASSUME CharacterInit
  PROVE  IdentityInv
<1>1. [i \in {} |-> 0] \in Records /\ [i \in {} |-> 0] \in RetiredIds
  BY RecordsAre, RetiredAre
<1>2. MaxFindings \in Nat /\ Episodes \in Nat
  BY IdsAreCounted
<1>3. DocInv
  <2>1. Tell(NoEvents.recs, {}) /\ NotAfter(NoEvents.recs, 0) /\ UsedIds(NoEvents) = {}
    BY DEF Tell, Tells, NotAfter, UsedIds, NoEvents
  <2> QED BY <1>1, <1>2, <2>1 DEF DocInv, CharacterInit, NoEvents
<1>4. GenInv
  BY <1>1, <1>2 DEF GenInv, Generations, CharacterInit, NoGeneration
<1> QED BY <1>3, <1>4 DEF IdentityInv

\* Beginning a generation keeps the invariant.
LEMMA BeginKeeps ==
  ASSUME IdentityInv, NEW from \in 1..Episodes, NEW upTo \in 1..Episodes, BeginGeneration(from, upTo)
  PROVE  IdentityInv'
<1> DEFINE redo == from <= eventsDoc.frontier
           recs == IF redo THEN Cut(eventsDoc.recs, from) ELSE eventsDoc.recs
           merges == IF redo THEN CutMerges(eventsDoc.merges, from) ELSE Kept(eventsDoc.merges)
           names == {n \in found : n.at < from}
<1>1. generation' = [NoGeneration EXCEPT !.stage = "batches", !.from = from, !.upTo = upTo,
            !.at = from, !.redo = redo, !.recs = recs, !.merges = merges,
            !.next = FirstUnused(eventsDoc), !.found = names]
  BY DEF BeginGeneration
<1>a. from <= upTo /\ from <= eventsDoc.frontier + 1 /\ UNCHANGED <<eventsDoc, found, findings>>
  BY DEF BeginGeneration
<1>2. /\ eventsDoc.recs \in Records /\ Tell(eventsDoc.recs, found)
      /\ eventsDoc.merges \in SUBSET Merges /\ eventsDoc.frontier \in Nat
      /\ NotAfter(eventsDoc.recs, eventsDoc.frontier)
      /\ eventsDoc.next \in 1..(MaxFindings + 1) /\ eventsDoc.next <= findings + 1
      /\ \A i \in UsedIds(eventsDoc) : i < eventsDoc.next
  BY IdsAreCounted DEF IdentityInv, DocInv
<1>3. found \in SUBSET Namings /\ \A n \in found : n.at <= eventsDoc.frontier
  BY FoundIsNamed DEF IdentityInv
<1>4. \A n \in Namings : n.at \in Nat
  BY IdsAreCounted DEF Namings
<1>5. recs \in Records /\ DOMAIN recs \subseteq DOMAIN eventsDoc.recs /\ Tell(recs, names) /\ NotAfter(recs, from)
  <2>1. CASE redo
    BY <1>2, <1>3, <2>1, CutTells
  <2>2. CASE ~redo
    <3>1. names = found
      BY <1>a, <1>2, <1>3, <1>4, <2>2
    <3>2. \A i \in DOMAIN eventsDoc.recs :
            eventsDoc.recs[i].first \in Nat /\ \A n \in eventsDoc.recs[i].names : n.at \in Nat
      BY <1>2, <1>4, RecordsAre, PersonsAre
    <3>3. NotAfter(eventsDoc.recs, from)
      BY <1>2, <2>2, <3>2 DEF NotAfter
    <3> QED BY <1>2, <2>2, <3>1, <3>3
  <2> QED BY <2>1, <2>2
<1>6. merges \in SUBSET Merges
  BY <1>2, CutMergesWithin, KeptWithin
<1>7. FirstUnused(eventsDoc) = eventsDoc.next
  <2>1. eventsDoc.next \in 1..(Cardinality(CharacterIds) + 1)
    BY <1>2, IdsAreCounted DEF Last
  <2> QED BY <1>2, <2>1, NextIsFree DEF FirstUnused
<1>8. names \in SUBSET Namings
  BY <1>3
<1> HIDE DEF recs, merges, names, redo
<1>9. /\ generation' = [stage |-> "batches", from |-> from, upTo |-> upTo, at |-> from, redo |-> redo,
                        recs |-> recs, merges |-> merges, proposed |-> {}, next |-> eventsDoc.next,
                        found |-> names, behind |-> 0]
  BY <1>1, <1>7 DEF NoGeneration
<1>10. Base' = recs
  BY <1>a, <1>9 DEF Base, recs, redo
<1>11. DocInv'
  BY <1>a DEF IdentityInv, DocInv, UsedIds
<1>12. generation' \in Generations
  BY <1>2, <1>5, <1>6, <1>8, <1>9, IdsAreCounted DEF redo, Generations
<1>13. \A i \in DOMAIN recs : i < eventsDoc.next
  BY <1>2, <1>5 DEF UsedIds
<1>14. Tells(recs) = names
  BY <1>5 DEF Tell
<1>15. /\ generation'.from = from /\ generation'.upTo = upTo /\ generation'.at = from
       /\ generation'.recs = recs /\ generation'.next = eventsDoc.next /\ generation'.found = names
       /\ eventsDoc' = eventsDoc /\ findings' = findings
  BY <1>a, <1>9
<1>16. 1 <= from /\ from <= from /\ from <= upTo /\ eventsDoc.next <= eventsDoc.next
  BY <1>a, <1>2, IdsAreCounted
<1>17. Batching'
  BY <1>2, <1>5, <1>10, <1>13, <1>14, <1>15, <1>16 DEF Batching
<1> QED BY <1>11, <1>12, <1>17 DEF IdentityInv, GenInv

\* An action that leaves the events alone keeps what holds of them.
LEMMA DocStays ==
  ASSUME DocInv, UNCHANGED <<eventsDoc, found>>,
         findings' \in 0..MaxFindings, findings <= findings'
  PROVE  DocInv'
<1>1. eventsDoc.next \in Nat /\ findings \in Nat /\ findings' \in Nat
  BY IdsAreCounted DEF DocInv
<1>2. eventsDoc.next <= findings' + 1
  BY <1>1 DEF DocInv
<1> QED BY <1>2 DEF DocInv, UsedIds

\* A character that is found keeps it.
LEMMA FindCharacterKeeps ==
  ASSUME IdentityInv, NEW name \in Names, FindCharacter(name)
  PROVE  IdentityInv'
<1> DEFINE n == [name |-> name, at |-> generation.at]
           new == generation.next
           recs == [i \in DOMAIN generation.recs \cup {new} |->
                     IF i = new THEN [names |-> {n}, first |-> generation.at] ELSE generation.recs[i]]
           next == NextUnused(new + 1, UsedIds(eventsDoc))
           names == generation.found \cup {n}
<1>1. generation \in Generations /\ Batching /\ generation.stage = "batches"
  BY DEF IdentityInv, GenInv, FindCharacter, Finding
<1>2. /\ findings < MaxFindings /\ findings' = findings + 1
      /\ UNCHANGED <<eventsDoc, found>>
  BY DEF FindCharacter, Finding, KeepsDocs
<1>3. generation' = [generation EXCEPT !.recs = recs, !.next = next, !.found = names]
  BY DEF FindCharacter
<1>4. findings \in 0..MaxFindings /\ MaxFindings \in Nat /\ Episodes \in Nat
  BY IdsAreCounted DEF IdentityInv, DocInv
<1>5. /\ generation.at \in 1..Episodes /\ generation.recs \in Records
      /\ generation.found \in SUBSET Namings
      /\ new \in 1..(MaxFindings + 1) /\ new <= findings + 1
  BY <1>1, <1>4 DEF Generations, Batching
<1>6. new \in CharacterIds /\ new \notin DOMAIN generation.recs
  <2>1. ~(new < new)
    BY <1>5
  <2> QED BY <1>1, <1>2, <1>4, <1>5, <2>1 DEF CharacterIds, Batching
<1>7. next = new + 1 /\ next \in 1..(MaxFindings + 1) /\ next <= findings' + 1 /\ new < next
  <2>1. eventsDoc.next \in 1..(MaxFindings + 1) /\ UsedIds(eventsDoc) \in SUBSET Nat
    <3>1. eventsDoc.recs \in Records /\ eventsDoc.retired \in RetiredIds
      BY DEF IdentityInv, DocInv
    <3> QED BY <3>1, RecordsAre, RetiredAre, IdsAreCounted DEF IdentityInv, DocInv, UsedIds
  <2>2. \A i \in UsedIds(eventsDoc) : i < new + 1
    <3>1. (\A i \in UsedIds(eventsDoc) : i < eventsDoc.next) /\ eventsDoc.next <= new
      BY <1>1 DEF IdentityInv, DocInv, Batching
    <3> QED BY <1>5, <2>1, <3>1
  <2>3. new + 1 \in 1..(Cardinality(CharacterIds) + 1)
    BY <1>4, <1>5, IdsAreCounted DEF Last
  <2>4. next = new + 1
    BY <2>2, <2>3, NextIsFree
  <2> QED BY <1>2, <1>4, <1>5, <2>4
<1>8. n \in Namings
  BY <1>5 DEF Namings
<1>9. recs \in Records
  <2> DEFINE D == DOMAIN generation.recs \cup {new}
  <2>1. D \in SUBSET CharacterIds
    BY <1>5, <1>6, RecordsAre
  <2>2. [names |-> {n}, first |-> generation.at] \in Persons
    BY <1>5, <1>8 DEF Persons
  <2>3. \A i \in DOMAIN generation.recs : generation.recs[i] \in Persons
    BY <1>5, RecordsAre
  <2>4. recs \in [D -> Persons]
    <3> HIDE DEF n
    <3> QED BY <2>2, <2>3
  <2> HIDE DEF D
  <2> QED BY <2>1, <2>4, RecordsAre
<1>10. /\ DOMAIN recs = DOMAIN generation.recs \cup {new}
       /\ recs[new].names = {n} /\ recs[new].first = generation.at
       /\ \A i \in DOMAIN generation.recs : recs[i] = generation.recs[i]
  BY <1>6
<1>11. n.at = generation.at /\ generation.at <= generation.at
  BY <1>5
<1> HIDE DEF n, recs, next, names, new
<1>12. NotAfter(recs, generation.at)
  BY <1>1, <1>10, <1>11 DEF Batching, NotAfter
<1>13. Tell(recs, names)
  <2>1. Tell(generation.recs, generation.found)
    BY <1>1 DEF Batching
  <2>2. Tells(recs) = names
    <3>1. ASSUME NEW i \in DOMAIN recs, NEW m \in recs[i].names PROVE m \in names
      BY <1>10, <2>1, <3>1 DEF Tell, Tells, names
    <3>2. ASSUME NEW m \in names PROVE \E i \in DOMAIN recs : m \in recs[i].names
      BY <1>10, <2>1 DEF Tell, Tells, names
    <3> QED BY <3>1, <3>2 DEF Tells
  <2>3. \A m \in names : \E i \in DOMAIN recs : m \in recs[i].names /\ recs[i].first <= m.at
    BY <1>10, <1>11, <2>1 DEF Tell, names
  <2> QED BY <2>2, <2>3 DEF Tell
<1>14. generation' \in Generations
  BY <1>1, <1>3, <1>5, <1>7, <1>8, <1>9 DEF Generations, names
<1>15. /\ generation'.recs = recs /\ generation'.next = next /\ generation'.found = names
       /\ generation'.from = generation.from /\ generation'.upTo = generation.upTo
       /\ generation'.at = generation.at /\ generation'.redo = generation.redo
  BY <1>1, <1>3 DEF Generations
<1>16. Base' = Base
  BY <1>2, <1>15 DEF Base
<1>17. generation.found \subseteq names
  BY DEF names
<1>18. eventsDoc'.next <= next
  <2>1. eventsDoc.next \in Nat /\ eventsDoc.next <= new
    BY <1>1 DEF IdentityInv, DocInv, Batching, new
  <2> QED BY <1>2, <1>5, <1>7, <2>1
<1>19. \A i \in DOMAIN recs : i < next
  <2>1. DOMAIN generation.recs \in SUBSET Nat
    BY <1>5, RecordsAre, IdsAreCounted
  <2>2. \A i \in DOMAIN generation.recs : i < new
    BY <1>1 DEF Batching, new
  <2> QED BY <1>5, <1>7, <1>10, <2>1, <2>2
<1>20. Batching'
  BY <1>1, <1>7, <1>12, <1>13, <1>15, <1>16, <1>17, <1>18, <1>19 DEF Batching
<1>21. findings' \in 0..MaxFindings /\ findings <= findings'
  BY <1>2, <1>4
<1>22. DocInv'
  BY <1>2, <1>21, DocStays DEF IdentityInv
<1> QED BY <1>14, <1>20, <1>22 DEF IdentityInv, GenInv

\* A name that is found keeps it.
LEMMA FindNameKeeps ==
  ASSUME IdentityInv, NEW i \in CharacterIds, NEW name \in Names, FindName(i, name)
  PROVE  IdentityInv'
<1> DEFINE n == [name |-> name, at |-> generation.at]
           recs == [generation.recs EXCEPT ![i].names = @ \cup {n}]
           names == generation.found \cup {n}
<1>1. generation \in Generations /\ Batching /\ generation.stage = "batches"
  BY DEF IdentityInv, GenInv, FindName, Finding
<1>2. /\ findings < MaxFindings /\ findings' = findings + 1
      /\ UNCHANGED <<eventsDoc, found>> /\ i \in DOMAIN generation.recs
  BY DEF FindName, Finding, KeepsDocs
<1>3. generation' = [generation EXCEPT !.recs = recs, !.found = names]
  <2>1. generation' = [generation EXCEPT !.recs[i].names = @ \cup {n}, !.found = @ \cup {n}]
    BY DEF FindName
  <2> QED BY <1>1, <2>1 DEF Generations
<1>4. findings \in 0..MaxFindings /\ MaxFindings \in Nat /\ Episodes \in Nat
  BY IdsAreCounted DEF IdentityInv, DocInv
<1>5. /\ generation.at \in 1..Episodes /\ generation.recs \in Records
      /\ generation.found \in SUBSET Namings
      /\ generation.next \in 1..(MaxFindings + 1) /\ generation.next <= findings + 1
  BY <1>1, <1>4 DEF Generations, Batching
<1>6. n \in Namings /\ n.at = generation.at
  BY <1>5 DEF Namings
<1>7. generation.recs[i] \in Persons /\ generation.recs \in [DOMAIN generation.recs -> Persons]
  BY <1>2, <1>5, RecordsAre
<1>8. /\ DOMAIN recs = DOMAIN generation.recs
      /\ recs[i].names = generation.recs[i].names \cup {n} /\ recs[i].first = generation.recs[i].first
      /\ recs[i] \in Persons
      /\ \A j \in DOMAIN generation.recs : j # i => recs[j] = generation.recs[j]
  BY <1>2, <1>6, <1>7 DEF Persons
<1>9. recs \in Records
  <2>1. recs \in [DOMAIN generation.recs -> Persons]
    <3>1. recs = [j \in DOMAIN generation.recs |-> recs[j]]
      BY <1>7
    <3> HIDE DEF recs
    <3> QED BY <1>7, <1>8, <3>1
  <2> HIDE DEF recs
  <2> QED BY <1>5, <2>1, RecordsAre
<1> HIDE DEF n, recs, names
<1>12. NotAfter(recs, generation.at)
  <2>1. NotAfter(generation.recs, generation.at) /\ generation.at <= generation.at
    BY <1>1, <1>5 DEF Batching
  <2>2. ASSUME NEW j \in DOMAIN generation.recs
        PROVE  recs[j].first <= generation.at /\ \A m \in recs[j].names : m.at <= generation.at
    BY <1>6, <1>8, <2>1 DEF NotAfter
  <2> QED BY <1>8, <2>2 DEF NotAfter
<1>13. Tell(recs, names)
  <2>1. Tell(generation.recs, generation.found) /\ NotAfter(generation.recs, generation.at)
    BY <1>1 DEF Batching
  <2>2. Tells(recs) = names
    <3>1. ASSUME NEW j \in DOMAIN recs, NEW m \in recs[j].names PROVE m \in names
      BY <1>8, <2>1, <3>1 DEF Tell, Tells, names
    <3>2. ASSUME NEW m \in names PROVE \E j \in DOMAIN recs : m \in recs[j].names
      BY <1>2, <1>8, <2>1 DEF Tell, Tells, names
    <3> QED BY <3>1, <3>2 DEF Tells
  <2>3. ASSUME NEW m \in names PROVE \E j \in DOMAIN recs : m \in recs[j].names /\ recs[j].first <= m.at
    <3>1. CASE m = n
      BY <1>2, <1>6, <1>8, <2>1, <3>1 DEF NotAfter
    <3>2. CASE m \in generation.found
      BY <1>8, <2>1, <3>2 DEF Tell
    <3> QED BY <3>1, <3>2 DEF names
  <2> QED BY <2>2, <2>3 DEF Tell
<1>14. generation' \in Generations
  BY <1>1, <1>3, <1>5, <1>6, <1>9 DEF Generations, names
<1>15. /\ generation'.recs = recs /\ generation'.next = generation.next /\ generation'.found = names
       /\ generation'.from = generation.from /\ generation'.upTo = generation.upTo
       /\ generation'.at = generation.at /\ generation'.redo = generation.redo
  BY <1>1, <1>3 DEF Generations
<1>16. Base' = Base
  BY <1>2, <1>15 DEF Base
<1>17. generation.found \subseteq names
  BY DEF names
<1>18. generation.next <= findings' + 1
  BY <1>2, <1>4, <1>5
<1>19. \A j \in DOMAIN recs : j < generation.next
  BY <1>1, <1>8 DEF Batching
<1>20. Batching'
  BY <1>1, <1>2, <1>12, <1>13, <1>15, <1>16, <1>17, <1>18, <1>19 DEF Batching
<1>21. findings' \in 0..MaxFindings /\ findings <= findings'
  BY <1>2, <1>4
<1>22. DocInv'
  BY <1>2, <1>21, DocStays DEF IdentityInv
<1> QED BY <1>14, <1>20, <1>22 DEF IdentityInv, GenInv

\* A later bound holds as well.
LEMMA NotAfterGrows ==
  ASSUME NEW recs \in Records, NEW e \in Nat, NEW f \in Nat, e <= f, NotAfter(recs, e)
  PROVE  NotAfter(recs, f)
<1>1. \A n \in Namings : n.at \in Nat
  BY IdsAreCounted DEF Namings
<1>2. \A i \in DOMAIN recs : recs[i].first \in Nat /\ \A n \in recs[i].names : n.at \in Nat
  BY <1>1, RecordsAre, PersonsAre
<1> QED BY <1>2 DEF NotAfter

\* A merge more changes the merges alone.
LEMMA MergesKeep ==
  ASSUME IdentityInv, Joining, KeepsDocs, NEW merges \in SUBSET Merges, NEW proposed \in SUBSET Merges,
         generation' = [generation EXCEPT !.merges = merges, !.proposed = proposed]
  PROVE  IdentityInv'
<1>1. /\ generation \in Generations /\ Batching /\ generation.stage = "batches"
      /\ UNCHANGED <<eventsDoc, found, findings>>
  BY DEF IdentityInv, GenInv, Joining, KeepsDocs
<1>2. generation' \in Generations
  BY <1>1 DEF Generations
<1>3. /\ generation'.recs = generation.recs /\ generation'.next = generation.next
      /\ generation'.found = generation.found
      /\ generation'.from = generation.from /\ generation'.upTo = generation.upTo
      /\ generation'.at = generation.at /\ generation'.redo = generation.redo
  BY <1>1 DEF Generations
<1>4. Batching'
  BY <1>1, <1>3 DEF Batching, Base
<1>5. DocInv'
  BY <1>1 DEF IdentityInv, DocInv, UsedIds
<1> QED BY <1>2, <1>4, <1>5 DEF IdentityInv, GenInv

\* A merge that is proposed keeps it.
LEMMA ProposeMergeKeeps ==
  ASSUME IdentityInv, NEW s \in CharacterIds, NEW t \in CharacterIds, ProposeMerge(s, t)
  PROVE  IdentityInv'
<1> DEFINE e == [source |-> s, target |-> t, at |-> generation.at]
           merges == Kept(generation.merges \cup {e})
           proposed == generation.proposed \cup {e}
<1>1. /\ generation \in Generations /\ Batching /\ Joining /\ KeepsDocs
      /\ generation' = [generation EXCEPT !.merges = merges, !.proposed = proposed]
  BY DEF IdentityInv, GenInv, ProposeMerge, Joining
<1>2. e \in Merges
  BY <1>1, IdsAreCounted DEF Merges, Generations, Batching
<1> DEFINE all == generation.merges \cup {e}
<1>3. all \in SUBSET Merges /\ proposed \in SUBSET Merges
  BY <1>1, <1>2 DEF Generations
<1> HIDE DEF e
<1>4. merges \in SUBSET Merges
  <2> HIDE DEF all
  <2>1. Kept(all) \in SUBSET Merges
    BY <1>3, KeptWithin
  <2> QED BY <2>1 DEF all
<1> HIDE DEF merges, proposed
<1> QED BY <1>1, <1>3, <1>4, MergesKeep

\* The representative of a cluster is one of its ids.
LEMMA RepresentativeIsOne ==
  ASSUME generation.recs \in Records, NEW ids \in SUBSET DOMAIN generation.recs, ids # {}
  PROVE  Representative(ids) \in ids
<1>1. \A i \in ids : generation.recs[i].first \in Nat /\ i \in Nat
  BY RecordsAre, PersonsAre, IdsAreCounted
<1> DEFINE F == {generation.recs[i].first : i \in ids}
<1>0. F \in SUBSET Nat /\ F # {}
  BY <1>1
<1>2. PICK f \in F : \A g \in F : f <= g
  <2> HIDE DEF F
  <2> QED BY <1>0, LeastNatural
<1> DEFINE I == {i \in ids : generation.recs[i].first = f}
<1>3. I \in SUBSET Nat /\ I # {}
  BY <1>1, <1>2
<1>4. PICK t \in I : \A i \in I : t <= i
  BY <1>3, LeastNatural
<1>5. t \in ids /\ \A i \in ids :
        \/ generation.recs[t].first < generation.recs[i].first
        \/ generation.recs[t].first = generation.recs[i].first /\ t <= i
  <2>1. ASSUME NEW i \in ids
        PROVE  \/ generation.recs[t].first < generation.recs[i].first
               \/ generation.recs[t].first = generation.recs[i].first /\ t <= i
    <3>1. f <= generation.recs[i].first /\ generation.recs[t].first = f
      BY <1>2, <1>4
    <3>2. generation.recs[i].first = f => t <= i
      BY <1>4
    <3> HIDE DEF I, F
    <3>3. generation.recs[i].first \in Nat /\ f \in Nat
      BY <1>1, <1>4, <3>1 DEF I
    <3> QED BY <3>1, <3>2, <3>3
  <2> QED BY <2>1
<1> QED BY <1>5 DEF Representative

\* The merges of a cluster keep it.
LEMMA ClusterMergeKeeps ==
  ASSUME IdentityInv, NEW ids \in SUBSET CharacterIds, ClusterMerge(ids)
  PROVE  IdentityInv'
<1>1. /\ generation \in Generations /\ Batching /\ Joining /\ KeepsDocs
      /\ Cardinality(ids) > 1 /\ ids \in SUBSET DOMAIN generation.recs
  BY DEF IdentityInv, GenInv, ClusterMerge, Joining
<1>2. PICK t \in IF PreferredTarget(ids) # {} THEN PreferredTarget(ids) ELSE {Representative(ids)} :
        generation' = [generation EXCEPT !.merges =
          Kept(@ \cup {[source |-> s, target |-> t, at |-> generation.upTo] : s \in ids \ {t}})]
  BY DEF ClusterMerge
<1>3. ids # {} /\ generation.recs \in Records
  <2>1. Cardinality({}) = 0
    BY FS_EmptySet
  <2> QED BY <1>1, <2>1 DEF Generations
<1>4. t \in ids
  <2>1. Representative(ids) \in ids
    BY <1>1, <1>3, RepresentativeIsOne
  <2> QED BY <1>2, <2>1 DEF PreferredTarget
<1> DEFINE new == {[source |-> s, target |-> t, at |-> generation.upTo] : s \in ids \ {t}}
           all == generation.merges \cup new
<1>5. generation.upTo \in 1..Episodes
  BY <1>1, IdsAreCounted DEF Generations, Batching
<1>6. all \in SUBSET Merges
  BY <1>1, <1>4, <1>5 DEF Merges, Generations
<1>7. generation' = [generation EXCEPT !.merges = Kept(all), !.proposed = generation.proposed]
  <2>1. generation' = [generation EXCEPT !.merges = Kept(all)]
    BY <1>1, <1>2 DEF Generations
  <2> HIDE DEF all
  <2> QED BY <1>1, <2>1 DEF Generations
<1> HIDE DEF all
<1>8. Kept(all) \in SUBSET Merges /\ generation.proposed \in SUBSET Merges
  <2>1. Kept(all) \in SUBSET Merges
    BY <1>6, KeptWithin
  <2> QED BY <1>1, <2>1 DEF Generations
<1> QED BY <1>1, <1>7, <1>8, MergesKeep

\* Moving on to the next episode keeps it.
LEMMA NextEpisodeKeeps ==
  ASSUME IdentityInv, NextEpisode
  PROVE  IdentityInv'
<1>1. /\ generation \in Generations /\ Batching
      /\ generation.at < generation.upTo /\ generation' = [generation EXCEPT !.at = @ + 1]
      /\ UNCHANGED <<eventsDoc, found, findings>> /\ generation.stage = "batches"
  BY DEF IdentityInv, GenInv, NextEpisode, KeepsDocs
<1>2. /\ generation.at \in Nat /\ generation.upTo \in 0..Episodes /\ Episodes \in Nat
      /\ generation.recs \in Records /\ generation.from \in Nat
  BY <1>1, IdsAreCounted DEF Generations
<1>3. /\ generation'.recs = generation.recs /\ generation'.next = generation.next
      /\ generation'.found = generation.found
      /\ generation'.from = generation.from /\ generation'.upTo = generation.upTo
      /\ generation'.at = generation.at + 1 /\ generation'.redo = generation.redo
  BY <1>1 DEF Generations
<1>4. Base \in Records
  BY <1>1, BaseTells DEF IdentityInv
<1>5. NotAfter(generation.recs, generation.at + 1) /\ NotAfter(Base, generation.at + 1)
  <2>1. generation.at + 1 \in Nat /\ generation.at <= generation.at + 1
    BY <1>2
  <2> QED BY <1>1, <1>2, <1>4, <2>1, NotAfterGrows DEF Batching
<1>6. generation' \in Generations
  <2>1. generation.at + 1 \in 0..Episodes
    BY <1>1, <1>2
  <2> QED BY <1>1, <2>1 DEF Generations
<1>7. generation.from <= generation.at + 1 /\ generation.at + 1 <= generation.upTo
  BY <1>1, <1>2 DEF Batching
<1>8. Base' = Base
  BY <1>1, <1>3 DEF Base
<1>9. Batching'
  BY <1>1, <1>3, <1>5, <1>7, <1>8 DEF Batching
<1>10. DocInv'
  BY <1>1 DEF IdentityInv, DocInv, UsedIds
<1> QED BY <1>6, <1>9, <1>10 DEF IdentityInv, GenInv

\* The save of the events keeps it.
LEMMA SaveEventsKeeps ==
  ASSUME IdentityInv, SaveEvents
  PROVE  IdentityInv'
<1>1. PICK new \in {GivenBack} :
        /\ eventsDoc' = NewEvents(new)
        /\ generation' = [generation EXCEPT !.stage = "profile",
                            !.behind = IF DOMAIN new # {} THEN 1
                                       ELSE IF generation.redo THEN generation.from ELSE 0]
  BY DEF SaveEvents
<1>2. /\ generation \in Generations /\ Batching /\ generation.stage = "batches"
      /\ generation.at = generation.upTo /\ found' = generation.found /\ findings' = findings
  BY DEF SaveEvents, IdentityInv, GenInv
<1>3. DOMAIN new \subseteq DOMAIN generation.recs /\ \A i \in DOMAIN new : new[i] \in DOMAIN eventsDoc.recs
  <2>1. eventsDoc.recs \in Records /\ generation.recs \in Records
    BY <1>2 DEF IdentityInv, DocInv, Generations
  <2> DEFINE back == Renumbered(generation.recs, generation.merges, eventsDoc, generation.upTo)
  <2>2. DOMAIN back \subseteq DOMAIN generation.recs /\ \A i \in DOMAIN back : back[i] \in DOMAIN eventsDoc.recs
    BY <2>1, GivenBackIds
  <2>3. new = back \/ new = [i \in {} |-> 0]
    BY DEF GivenBack
  <2> HIDE DEF back
  <2> QED BY <2>2, <2>3
<1> DEFINE doc == NewEvents(new)
<1>4. /\ doc \in [frontier: 0..Episodes, recs: Records, retired: RetiredIds,
                  merges: SUBSET Merges, next: 1..(MaxFindings + 1)]
      /\ NotAfter(doc.recs, doc.frontier)
      /\ Tell(doc.recs, generation.found)
      /\ doc.next <= findings + 1
      /\ \A i \in UsedIds(doc) : i < doc.next
  BY <1>2, <1>3, NewEventsTell DEF IdentityInv
<1>5. findings \in 0..MaxFindings /\ eventsDoc' = doc
  BY <1>1 DEF IdentityInv, DocInv
<1> HIDE DEF doc
<1>6. DocInv'
  BY <1>2, <1>4, <1>5 DEF DocInv, UsedIds
<1>7. generation' \in Generations /\ generation'.stage = "profile"
  <2> DEFINE behind == IF DOMAIN new # {} THEN 1 ELSE IF generation.redo THEN generation.from ELSE 0
  <2>1. behind \in 0..Episodes
    BY <1>2, IdsAreCounted DEF Generations
  <2>2. generation' = [generation EXCEPT !.stage = "profile", !.behind = behind]
    BY <1>1
  <2> HIDE DEF behind
  <2> QED BY <1>2, <2>1, <2>2 DEF Generations
<1> QED BY <1>6, <1>7 DEF IdentityInv, GenInv

\* So does whatever leaves the events alone and does not go on with the generation.
LEMMA IdleKeeps ==
  ASSUME IdentityInv, UNCHANGED <<eventsDoc, found, findings>>,
         generation' = NoGeneration \/ generation' = generation
  PROVE  IdentityInv'
<1>1. DocInv'
  BY DEF IdentityInv, DocInv, UsedIds
<1>2. GenInv'
  <2>1. CASE generation' = NoGeneration
    <3>1. [i \in {} |-> 0] \in Records
      BY RecordsAre
    <3>2. NoGeneration \in Generations /\ NoGeneration.stage = "none"
      BY <3>1, IdsAreCounted DEF NoGeneration, Generations
    <3> QED BY <2>1, <3>2 DEF GenInv
  <2>2. CASE generation' = generation
    BY <2>2 DEF IdentityInv, GenInv, Batching, Base
  <2> QED BY <2>1, <2>2
<1> QED BY <1>1, <1>2 DEF IdentityInv

\* Every action keeps the invariant.
LEMMA IdentityIsKept ==
  ASSUME IdentityInv, [CharacterNext]_identity
  PROVE  IdentityInv'
<1>1. CASE \E from, upTo \in 1..Episodes : BeginGeneration(from, upTo)
  BY <1>1, BeginKeeps
<1>2. CASE \E name \in Names : FindCharacter(name)
  BY <1>2, FindCharacterKeeps
<1>3. CASE \E i \in CharacterIds, name \in Names : FindName(i, name)
  BY <1>3, FindNameKeeps
<1>4. CASE \E s, t \in CharacterIds : ProposeMerge(s, t)
  BY <1>4, ProposeMergeKeeps
<1>5. CASE \E ids \in SUBSET CharacterIds : ClusterMerge(ids)
  BY <1>5, ClusterMergeKeeps
<1>6. CASE NextEpisode
  BY <1>6, NextEpisodeKeeps
<1>7. CASE SaveEvents
  BY <1>7, SaveEventsKeeps
<1>8. CASE Abandon \/ SaveProfile \/ CrashBetween
  BY <1>8, IdleKeeps DEF Abandon, SaveProfile, CrashBetween, KeepsDocs
<1>9. CASE LoseProfile \/ \E b \in 1..Episodes : Read(b)
  BY <1>9, IdleKeeps DEF LoseProfile, Read
<1>10. CASE UNCHANGED identity
  BY <1>10, IdleKeeps DEF identity
<1> QED BY <1>1, <1>2, <1>3, <1>4, <1>5, <1>6, <1>7, <1>8, <1>9, <1>10 DEF CharacterNext

\* The inductive invariant, for any names, episodes and bounds.
THEOREM IdentityInductive == CharacterSpec => []IdentityInv
<1>1. CharacterInit => IdentityInv
  BY IdentityStarts
<1>2. IdentityInv /\ [CharacterNext]_identity => IdentityInv'
  BY IdentityIsKept
<1> QED BY <1>1, <1>2, PTL DEF CharacterSpec

\* The invariant says what AllIsTold does, through what is shown.
LEMMA DocTellsAll ==
  ASSUME IdentityInv
  PROVE  AllIsTold
<1>1. /\ eventsDoc.recs \in Records /\ eventsDoc.merges \in SUBSET Merges
      /\ eventsDoc.frontier \in Nat /\ Tell(eventsDoc.recs, found)
  BY IdsAreCounted DEF IdentityInv, DocInv
<1>2. \A b \in 1..eventsDoc.frontier :
        UNION {c.names : c \in ShownAt(eventsDoc, b)} = {n \in found : n.at <= b}
  BY <1>1, ShownTells
<1> QED BY <1>2 DEF AllIsTold

\* At every boundary the readers are shown exactly the names found up to it, after
\* any merges, reprocessing, renumbering, retirement, crashes and lost profiles.
THEOREM NothingIsLost == CharacterSpec => []AllIsTold
<1>1. IdentityInv => AllIsTold
  BY DocTellsAll
<1> QED BY <1>1, IdentityInductive, PTL

-----------------------------------------------------------------------------
(* The history of a document, and of a generation that goes on from it *)

\* Everybody has a name from where he first appears.
Rooted(recs) == \A i \in DOMAIN recs : \E n \in recs[i].names : n.at = recs[i].first

Ends(e) == {e.source, e.target}

\* Nobody is merged before he appears.
MergesFit(merges, recs) ==
  \A e \in merges : \A i \in Ends(e) \cap DOMAIN recs : recs[i].first <= e.at

MergesKnown(merges, next, upTo) == \A e \in merges : e.at <= upTo /\ \A i \in Ends(e) : i < next

HistoryDoc ==
  /\ Rooted(eventsDoc.recs)
  /\ MergesFit(eventsDoc.merges, eventsDoc.recs)
  /\ MergesKnown(eventsDoc.merges, eventsDoc.next, eventsDoc.frontier)
  /\ Kept(eventsDoc.merges) = eventsDoc.merges
  /\ called \in [CharacterIds -> SUBSET Names]
  /\ \A i \in CharacterIds : called[i] # {} => i < eventsDoc.next
  /\ \A c \in StandIns(eventsDoc) : c.keys \subseteq called[c.id]

\* The records go on from those before episode from.
GoesOn(recs, base, from, next) ==
  /\ \A i \in DOMAIN base : /\ i \in DOMAIN recs /\ recs[i].first = base[i].first
                            /\ base[i].names = {n \in recs[i].names : n.at < from}
  /\ \A i \in DOMAIN recs \ DOMAIN base : recs[i].first >= from /\ i >= next

MergesGoOn ==
  /\ {e \in generation.merges : e.at < generation.from} = {e \in eventsDoc.merges : e.at < generation.from}
  /\ \A e \in generation.merges : e.at >= generation.from => Ends(e) \subseteq DOMAIN generation.recs

HistoryBatches ==
  /\ generation.from <= eventsDoc.frontier + 1
  /\ generation.redo <=> generation.from <= eventsDoc.frontier
  /\ Rooted(generation.recs)
  /\ MergesFit(generation.merges, generation.recs)
  /\ MergesKnown(generation.merges, generation.next, generation.at)
  /\ Kept(generation.merges) = generation.merges
  /\ GoesOn(generation.recs, Base, generation.from, eventsDoc.next)
  /\ MergesGoOn

HistoryInv == HistoryDoc /\ (generation.stage = "batches" => HistoryBatches)

\* What is told of what is told is just that.
LEMMA KeptStays ==
  ASSUME NEW events \in SUBSET Merges
  PROVE  Kept(Kept(events)) = Kept(events)
<1>1. Kept(events) \in SUBSET Merges /\ Kept(events) \in SUBSET events
  BY KeptIsTold DEF Told
<1>2. Told(Kept(events), Kept(events))
  BY KeptIsTold DEF Told
<1> QED BY <1>1, <1>2, KeptIsTold, ToldOnlyOneWay

\* So do those before an episode.
LEMMA KeptBefore ==
  ASSUME NEW events \in SUBSET Merges, NEW from \in Int
  PROVE  {e \in Kept(events) : e.at < from} = Kept({e \in events : e.at < from})
<1>1. from - 1 \in Int /\ \A e \in Merges : e.at \in Int /\ (e.at < from <=> e.at <= from - 1)
  BY IdsAreCounted DEF Merges
<1>2. Kept(events) \in SUBSET Merges
  BY KeptWithin
<1>3. {e \in Kept(events) : e.at <= from - 1} = Kept({e \in events : e.at <= from - 1})
  BY <1>1, KeptUpTo
<1>4. /\ {e \in Kept(events) : e.at <= from - 1} = {e \in Kept(events) : e.at < from}
      /\ {e \in events : e.at <= from - 1} = {e \in events : e.at < from}
  BY <1>1, <1>2
<1> QED BY <1>3, <1>4

\* Cutting merges that are told leaves those before the cut.
LEMMA CutMergesAre ==
  ASSUME NEW events \in SUBSET Merges, Kept(events) = events, NEW from \in Int
  PROVE  CutMerges(events, from) = {e \in events : e.at < from}
BY KeptBefore DEF CutMerges

\* More merges, of later episodes, leave the earlier ones as they are.
LEMMA KeptGrows ==
  ASSUME NEW events \in SUBSET Merges, Kept(events) = events,
         NEW more \in SUBSET Merges, NEW from \in Int, \A e \in more : e.at >= from
  PROVE  \A e \in Merges : e.at < from => (e \in Kept(events \cup more) <=> e \in events)
<1>1. events \cup more \in SUBSET Merges
  OBVIOUS
<1>2. {e \in Kept(events \cup more) : e.at < from} = Kept({e \in events \cup more : e.at < from})
  BY <1>1, KeptBefore
<1>3. {e \in events \cup more : e.at < from} = {e \in events : e.at < from}
  <2>1. \A e \in more : ~(e.at < from)
    BY IdsAreCounted DEF Merges
  <2> QED BY <2>1
<1>4. Kept({e \in events : e.at < from}) = {e \in events : e.at < from}
  BY KeptBefore
<1>5. {e \in Kept(events \cup more) : e.at < from} = {e \in events : e.at < from}
  BY <1>2, <1>3, <1>4
<1>6. \A e : e.at < from => (e \in Kept(events \cup more) <=> e \in events)
  BY <1>5
<1> QED BY <1>6

\* Cutting leaves everybody who had appeared, and their names before the cut.
LEMMA CutRooted ==
  ASSUME NEW recs \in Records, Rooted(recs), NEW from \in 1..Episodes
  PROVE  /\ Rooted(Cut(recs, from))
         /\ \A i \in DOMAIN recs : recs[i].first < from => i \in DOMAIN Cut(recs, from)
         /\ \A i \in DOMAIN Cut(recs, from) :
              /\ i \in DOMAIN recs /\ Cut(recs, from)[i].first = recs[i].first
              /\ recs[i].first < from
              /\ Cut(recs, from)[i].names = {n \in recs[i].names : n.at < from}
<1> DEFINE left(i) == {n \in recs[i].names : n.at < from}
           D == {j \in DOMAIN recs : recs[j].first < from /\ left(j) # {}}
           C == Cut(recs, from)
<1>1. C = [i \in D |-> [names |-> left(i), first |-> recs[i].first]]
  BY DEF Cut
<1> HIDE DEF C
<1>2. DOMAIN C = D /\ \A i \in D : C[i].names = left(i) /\ C[i].first = recs[i].first
  BY <1>1
<1>3. \A i \in DOMAIN recs : recs[i].first < from => \E n \in left(i) : n.at = recs[i].first
  BY DEF Rooted
<1>4. Rooted(C)
  BY <1>2, <1>3 DEF Rooted
<1> QED BY <1>2, <1>3, <1>4 DEF C

\* The history holds in the beginning.
LEMMA HistoryStarts ==
  ASSUME CharacterInit
  PROVE  HistoryInv
<1>1. /\ eventsDoc = NoEvents /\ generation.stage = "none"
      /\ called = [i \in CharacterIds |-> {}]
  BY DEF CharacterInit, NoGeneration
<1>2. Rooted(eventsDoc.recs) /\ MergesFit(eventsDoc.merges, eventsDoc.recs)
      /\ MergesKnown(eventsDoc.merges, eventsDoc.next, eventsDoc.frontier)
  BY <1>1 DEF NoEvents, Rooted, MergesFit, MergesKnown
<1>3. Kept(eventsDoc.merges) = eventsDoc.merges
  <2>1. eventsDoc.merges = {} /\ {} \in SUBSET Merges
    BY <1>1 DEF NoEvents
  <2> QED BY <2>1, KeptWithin
<1>4. StandIns(eventsDoc) = {}
  <2>1. eventsDoc.recs = [i \in {} |-> 0] /\ DOMAIN [i \in {} |-> 0] = {}
    BY <1>1 DEF NoEvents
  <2>2. \A into : DOMAIN Merged([i \in {} |-> 0], into) = {}
    BY DEF Merged
  <2> QED BY <2>1, <2>2 DEF StandIns
<1> QED BY <1>1, <1>2, <1>3, <1>4 DEF HistoryInv, HistoryDoc

\* The base of a generation, and the merges it goes on from.
LEMMA BaseIsEarlier ==
  ASSUME DocInv, HistoryDoc, NEW from \in 1..Episodes, from <= eventsDoc.frontier + 1,
         NEW base, base = IF from <= eventsDoc.frontier THEN Cut(eventsDoc.recs, from) ELSE eventsDoc.recs
  PROVE  /\ base \in Records /\ Rooted(base)
         /\ \A i \in DOMAIN eventsDoc.recs : eventsDoc.recs[i].first < from => i \in DOMAIN base
         /\ \A i \in DOMAIN base :
              /\ i \in DOMAIN eventsDoc.recs /\ base[i].first = eventsDoc.recs[i].first
              /\ base[i].first < from
              /\ base[i].names = {n \in eventsDoc.recs[i].names : n.at < from}
              /\ base[i].names = {n \in base[i].names : n.at < from}
<1>1. /\ eventsDoc.recs \in Records /\ NotAfter(eventsDoc.recs, eventsDoc.frontier)
      /\ eventsDoc.frontier \in Nat /\ from \in Nat
  BY IdsAreCounted DEF DocInv
<1>2. CASE from <= eventsDoc.frontier
  <2>1. base = Cut(eventsDoc.recs, from) /\ Rooted(eventsDoc.recs)
    BY <1>2 DEF HistoryDoc
  <2>2. /\ Rooted(base)
        /\ \A i \in DOMAIN eventsDoc.recs : eventsDoc.recs[i].first < from => i \in DOMAIN base
        /\ \A i \in DOMAIN base :
             /\ i \in DOMAIN eventsDoc.recs /\ base[i].first = eventsDoc.recs[i].first
             /\ eventsDoc.recs[i].first < from
             /\ base[i].names = {n \in eventsDoc.recs[i].names : n.at < from}
    BY <1>1, <2>1, CutRooted
  <2>3. base \in Records
    <3>1. found \in SUBSET Namings /\ Tell(eventsDoc.recs, found)
      BY FoundIsNamed DEF DocInv
    <3> QED BY <1>1, <2>1, <3>1, CutTells
  <2>4. \A i \in DOMAIN base : base[i].first < from
    BY <2>2
  <2> QED BY <2>2, <2>3, <2>4
<1>3. CASE ~(from <= eventsDoc.frontier)
  <2>1. base = eventsDoc.recs /\ Rooted(base) /\ from = eventsDoc.frontier + 1
    BY <1>1, <1>3 DEF HistoryDoc
  <2>2. \A i \in DOMAIN base : /\ base[i].first \in Nat
                               /\ \A n \in base[i].names : n.at \in Nat
    BY <1>1, <2>1, RecordsAre, PersonsAre, IdsAreCounted DEF Namings
  <2>3. \A i \in DOMAIN base : base[i].first < from /\ \A n \in base[i].names : n.at < from
    BY <1>1, <2>1, <2>2 DEF NotAfter
  <2> QED BY <1>1, <2>1, <2>3
<1> QED BY <1>2, <1>3

\* A generation begins as a history that goes on from the document's.
LEMMA HistoryBegins ==
  ASSUME IdentityInv, HistoryInv, NEW from \in 1..Episodes, NEW upTo \in 1..Episodes,
         BeginGeneration(from, upTo)
  PROVE  HistoryInv'
<1> DEFINE redo == from <= eventsDoc.frontier
           recs == IF redo THEN Cut(eventsDoc.recs, from) ELSE eventsDoc.recs
           merges == IF redo THEN CutMerges(eventsDoc.merges, from) ELSE Kept(eventsDoc.merges)
           early == {e \in eventsDoc.merges : e.at < from}
<1>1. /\ generation' = [NoGeneration EXCEPT !.stage = "batches", !.from = from, !.upTo = upTo,
              !.at = from, !.redo = redo, !.recs = recs, !.merges = merges,
              !.next = FirstUnused(eventsDoc), !.found = {n \in found : n.at < from}]
      /\ from <= upTo /\ from <= eventsDoc.frontier + 1 /\ UNCHANGED <<eventsDoc, called>>
  BY DEF BeginGeneration
<1>2. DocInv /\ HistoryDoc
  BY DEF IdentityInv, HistoryInv
<1>3. /\ eventsDoc.merges \in SUBSET Merges /\ eventsDoc.frontier \in Nat /\ from \in Nat
      /\ eventsDoc.next \in 1..(MaxFindings + 1) /\ \A i \in UsedIds(eventsDoc) : i < eventsDoc.next
  BY <1>2, IdsAreCounted DEF DocInv
<1>4. /\ Rooted(recs)
      /\ \A i \in DOMAIN recs :
           /\ i \in DOMAIN eventsDoc.recs /\ recs[i].first = eventsDoc.recs[i].first
           /\ recs[i].names = {n \in recs[i].names : n.at < from}
  <2> DEFINE base == recs
  <2>1. base = IF from <= eventsDoc.frontier THEN Cut(eventsDoc.recs, from) ELSE eventsDoc.recs
    OBVIOUS
  <2>a. from <= eventsDoc.frontier + 1
    BY <1>1
  <2> HIDE DEF base, recs
  <2>2. /\ Rooted(base)
        /\ \A i \in DOMAIN base :
             /\ i \in DOMAIN eventsDoc.recs /\ base[i].first = eventsDoc.recs[i].first
             /\ base[i].names = {n \in base[i].names : n.at < from}
    BY <1>2, <2>1, <2>a, BaseIsEarlier
  <2> QED BY <2>2 DEF base
<1>5. merges = early
  <2>1. Kept(eventsDoc.merges) = eventsDoc.merges
    BY <1>2 DEF HistoryDoc
  <2>2. CASE redo
    <3>1. CutMerges(eventsDoc.merges, from) = early
      BY <1>3, <2>1, CutMergesAre
    <3> QED BY <2>2, <3>1
  <2>3. CASE ~redo
    <3>1. \A e \in eventsDoc.merges : e.at <= eventsDoc.frontier /\ e.at \in Nat
      BY <1>2, <1>3, IdsAreCounted DEF HistoryDoc, MergesKnown, Merges
    <3>2. eventsDoc.merges = early
      BY <1>1, <1>3, <2>3, <3>1
    <3> QED BY <2>1, <2>3, <3>2
  <2> QED BY <2>2, <2>3
<1>6. FirstUnused(eventsDoc) = eventsDoc.next
  <2>1. eventsDoc.next \in 1..(Cardinality(CharacterIds) + 1)
    BY <1>3, IdsAreCounted DEF Last
  <2> QED BY <1>3, <2>1, NextIsFree DEF FirstUnused
<1> HIDE DEF recs, merges, redo
<1>7. /\ generation'.from = from /\ generation'.upTo = upTo /\ generation'.at = from
      /\ generation'.redo = redo /\ generation'.recs = recs /\ generation'.merges = early
      /\ generation'.next = eventsDoc.next /\ eventsDoc' = eventsDoc /\ called' = called
  BY <1>1, <1>5, <1>6 DEF NoGeneration
<1>8. Base' = recs
  BY <1>7 DEF Base, recs, redo
<1>9. MergesFit(early, recs)
  BY <1>2, <1>4 DEF HistoryDoc, MergesFit
<1>10. MergesKnown(early, eventsDoc.next, from) /\ \A e \in early : ~(e.at >= from)
  <2>1. \A e \in early : e.at \in Nat
    BY <1>3, IdsAreCounted DEF Merges
  <2> QED BY <1>2, <1>3, <2>1 DEF HistoryDoc, MergesKnown
<1>11. Kept(early) = early
  <2>1. from \in Int /\ eventsDoc.merges \in SUBSET Merges
    BY <1>3, IdsAreCounted
  <2>2. {e \in Kept(eventsDoc.merges) : e.at < from} = Kept({e \in eventsDoc.merges : e.at < from})
    BY <2>1, KeptBefore
  <2>3. Kept(eventsDoc.merges) = eventsDoc.merges
    BY <1>2 DEF HistoryDoc
  <2> QED BY <2>2, <2>3
<1>12. GoesOn(recs, recs, from, eventsDoc.next)
  BY <1>4 DEF GoesOn
<1>13. {e \in early : e.at < from} = early
  OBVIOUS
<1>14. from <= eventsDoc.frontier + 1 /\ redo <=> from <= eventsDoc.frontier
  BY <1>1 DEF redo
<1> HIDE DEF early
<1>15. MergesGoOn'
  <2>1. {e \in eventsDoc.merges : e.at < from} = early
    BY DEF early
  <2> QED BY <1>7, <1>10, <1>13, <2>1 DEF MergesGoOn
<1>16. HistoryBatches'
  BY <1>1, <1>4, <1>7, <1>8, <1>9, <1>10, <1>11, <1>12, <1>14, <1>15 DEF HistoryBatches, redo
<1>17. HistoryDoc'
  BY <1>2, <1>7 DEF HistoryDoc
<1> QED BY <1>16, <1>17 DEF HistoryInv

\* While the events stay, so does what is said of them.
LEMMA HistoryStays ==
  ASSUME HistoryDoc, UNCHANGED <<eventsDoc, called>>
  PROVE  HistoryDoc'
BY DEF HistoryDoc

\* It holds while the events are left alone and no generation is under way.
LEMMA HistoryIdles ==
  ASSUME HistoryInv, UNCHANGED <<eventsDoc, called>>,
         generation' = NoGeneration \/ generation' = generation
  PROVE  HistoryInv'
<1>1. HistoryDoc'
  BY HistoryStays DEF HistoryInv
<1>2. CASE generation' = NoGeneration
  BY <1>1, <1>2 DEF HistoryInv, NoGeneration
<1>3. CASE generation' = generation
  BY <1>1, <1>3 DEF HistoryInv, HistoryBatches, Base, MergesGoOn
<1> QED BY <1>2, <1>3

\* A character that is found is new: nobody was merged with him before.
LEMMA HistoryFindsCharacter ==
  ASSUME IdentityInv, HistoryInv, NEW name \in Names, FindCharacter(name)
  PROVE  HistoryInv'
<1> DEFINE n == [name |-> name, at |-> generation.at]
           new == generation.next
           recs == [i \in DOMAIN generation.recs \cup {new} |->
                     IF i = new THEN [names |-> {n}, first |-> generation.at] ELSE generation.recs[i]]
           next == NextUnused(new + 1, UsedIds(eventsDoc))
<1>1. /\ generation \in Generations /\ Batching /\ HistoryBatches /\ HistoryDoc
  BY DEF IdentityInv, GenInv, HistoryInv, FindCharacter, Finding
<1>2. /\ generation' = [generation EXCEPT !.recs = recs, !.next = next, !.found = @ \cup {n}]
      /\ UNCHANGED <<eventsDoc, called>>
  BY DEF FindCharacter, KeepsDocs
<1>3. /\ findings < MaxFindings /\ findings \in Nat /\ MaxFindings \in Nat
  BY IdsAreCounted DEF IdentityInv, DocInv, FindCharacter, Finding
<1>4. /\ generation.at \in 1..Episodes /\ generation.from \in Nat /\ generation.at \in Nat
      /\ generation.from <= generation.at
      /\ generation.merges \in SUBSET Merges /\ generation.recs \in Records
      /\ new \in 1..(MaxFindings + 1) /\ new <= findings + 1
      /\ eventsDoc.next \in Nat /\ eventsDoc.next <= new
      /\ \A i \in DOMAIN generation.recs : i < new /\ i \in Nat
  <2>1. DOMAIN generation.recs \in SUBSET Nat
    BY <1>1, RecordsAre, IdsAreCounted DEF Generations
  <2> QED BY <1>1, <2>1, IdsAreCounted DEF Generations, Batching, IdentityInv, DocInv
<1>5. new \notin DOMAIN generation.recs
  BY <1>4
<1>6. next = new + 1
  <2>1. \A i \in UsedIds(eventsDoc) : i \in Nat /\ i < eventsDoc.next
    <3>1. eventsDoc.recs \in Records /\ eventsDoc.retired \in RetiredIds
      BY DEF IdentityInv, DocInv
    <3> QED BY <3>1, RecordsAre, RetiredAre, IdsAreCounted DEF IdentityInv, DocInv, UsedIds
  <2>2. \A i \in UsedIds(eventsDoc) : i < new + 1
    BY <1>4, <2>1
  <2>3. new + 1 \in 1..(Cardinality(CharacterIds) + 1)
    BY <1>3, <1>4, IdsAreCounted DEF Last
  <2> QED BY <2>2, <2>3, NextIsFree
<1>7. /\ DOMAIN recs = DOMAIN generation.recs \cup {new}
      /\ recs[new].names = {n} /\ recs[new].first = generation.at
      /\ \A i \in DOMAIN generation.recs : recs[i] = generation.recs[i]
      /\ n.at = generation.at
  BY <1>5
<1> HIDE DEF n, recs, next
<1>8. /\ generation'.recs = recs /\ generation'.next = new + 1 /\ generation'.stage = generation.stage
      /\ generation'.from = generation.from /\ generation'.at = generation.at
      /\ generation'.redo = generation.redo /\ generation'.merges = generation.merges
      /\ eventsDoc' = eventsDoc
  BY <1>1, <1>2, <1>6 DEF Generations
<1>9. Base' = Base
  BY <1>8 DEF Base
<1> HIDE DEF new
<1>10. Rooted(recs)
  BY <1>1, <1>7 DEF HistoryBatches, Rooted
<1>11. MergesFit(generation.merges, recs)
  <2>1. ASSUME NEW e \in generation.merges, NEW i \in Ends(e) \cap DOMAIN recs PROVE recs[i].first <= e.at
    <3>1. i < new /\ i \in CharacterIds /\ i \in Nat
      <4>1. e \in Merges /\ \A j \in Ends(e) : j < new
        BY <1>1, <1>4 DEF HistoryBatches, MergesKnown, new
      <4> QED BY <2>1, <4>1, IdsAreCounted DEF Merges, Ends
    <3>2. i # new
      BY <1>4, <3>1
    <3>3. i \in DOMAIN generation.recs
      BY <1>7, <2>1, <3>2
    <3> QED BY <1>1, <1>7, <2>1, <3>3 DEF HistoryBatches, MergesFit
  <2> QED BY <2>1 DEF MergesFit
<1>12. MergesKnown(generation.merges, new + 1, generation.at)
  <2>1. \A e \in generation.merges : \A i \in Ends(e) : i \in Nat
    BY <1>4, IdsAreCounted DEF Merges, Ends
  <2>2. new \in Nat /\ \A e \in generation.merges : e.at <= generation.at /\ \A i \in Ends(e) : i < new
    BY <1>1, <1>4 DEF HistoryBatches, MergesKnown, new
  <2>3. \A e \in generation.merges : \A i \in Ends(e) : i < new + 1
    BY <2>1, <2>2
  <2> QED BY <2>2, <2>3 DEF MergesKnown
<1>13. GoesOn(recs, Base, generation.from, eventsDoc.next)
  <2>1. GoesOn(generation.recs, Base, generation.from, eventsDoc.next)
    BY <1>1 DEF HistoryBatches
  <2>2. \A i \in DOMAIN Base : i \in DOMAIN recs /\ recs[i] = generation.recs[i]
    BY <1>7, <2>1 DEF GoesOn
  <2>3. recs[new].first >= generation.from /\ new >= eventsDoc.next
    BY <1>4, <1>7
  <2>4. ASSUME NEW i \in DOMAIN recs \ DOMAIN Base PROVE recs[i].first >= generation.from /\ i >= eventsDoc.next
    BY <1>7, <2>1, <2>3, <2>4 DEF GoesOn
  <2> QED BY <2>1, <2>2, <2>4 DEF GoesOn
<1>14. MergesGoOn'
  <2>1. MergesGoOn
    BY <1>1 DEF HistoryBatches
  <2> QED BY <1>7, <1>8, <2>1 DEF MergesGoOn
<1>15. HistoryBatches'
  BY <1>1, <1>8, <1>9, <1>10, <1>11, <1>12, <1>13, <1>14 DEF HistoryBatches
<1> QED BY <1>1, <1>2, <1>15, HistoryStays DEF HistoryInv

\* A name that is found is from the generation's episode.
LEMMA HistoryFindsName ==
  ASSUME IdentityInv, HistoryInv, NEW i \in CharacterIds, NEW name \in Names, FindName(i, name)
  PROVE  HistoryInv'
<1> DEFINE n == [name |-> name, at |-> generation.at]
           recs == [generation.recs EXCEPT ![i].names = @ \cup {n}]
<1>1. /\ generation \in Generations /\ Batching /\ HistoryBatches /\ HistoryDoc
      /\ i \in DOMAIN generation.recs
  BY DEF IdentityInv, GenInv, HistoryInv, FindName, Finding
<1>2. /\ generation' = [generation EXCEPT !.recs[i].names = @ \cup {n}, !.found = @ \cup {n}]
      /\ UNCHANGED <<eventsDoc, called>>
  BY DEF FindName, KeepsDocs
<1>3. /\ generation.from \in Nat /\ generation.at \in Nat /\ generation.from <= generation.at
      /\ generation.recs \in Records
  BY <1>1, IdsAreCounted DEF Generations, Batching
<1>4. generation.recs \in [DOMAIN generation.recs -> Persons]
  BY <1>3, RecordsAre
<1>5. /\ DOMAIN recs = DOMAIN generation.recs
      /\ recs[i].names = generation.recs[i].names \cup {n} /\ recs[i].first = generation.recs[i].first
      /\ \A j \in DOMAIN generation.recs : j # i => recs[j] = generation.recs[j]
      /\ n.at = generation.at
  BY <1>1, <1>4 DEF Persons
<1>6. /\ generation'.recs = recs /\ generation'.next = generation.next /\ generation'.stage = generation.stage
      /\ generation'.from = generation.from /\ generation'.at = generation.at
      /\ generation'.redo = generation.redo /\ generation'.merges = generation.merges
      /\ eventsDoc' = eventsDoc
  BY <1>1, <1>2 DEF Generations
<1> HIDE DEF recs, n
<1>7. Base' = Base
  BY <1>6 DEF Base
<1>8. \A j \in DOMAIN recs : recs[j].first = generation.recs[j].first
                            /\ generation.recs[j].names \subseteq recs[j].names
  BY <1>5
<1>9. Rooted(recs)
  BY <1>1, <1>5, <1>8 DEF HistoryBatches, Rooted
<1>10. MergesFit(generation.merges, recs)
  BY <1>1, <1>5, <1>8 DEF HistoryBatches, MergesFit
<1>11. GoesOn(recs, Base, generation.from, eventsDoc.next)
  <2>1. GoesOn(generation.recs, Base, generation.from, eventsDoc.next)
    BY <1>1 DEF HistoryBatches
  <2>2. ~(n.at < generation.from)
    BY <1>3, <1>5
  <2>3. \A j \in DOMAIN recs : {m \in recs[j].names : m.at < generation.from}
                               = {m \in generation.recs[j].names : m.at < generation.from}
    BY <1>5, <2>2
  <2> QED BY <1>5, <1>8, <2>1, <2>3 DEF GoesOn
<1>12. MergesGoOn'
  <2>1. MergesGoOn
    BY <1>1 DEF HistoryBatches
  <2> QED BY <1>5, <1>6, <2>1 DEF MergesGoOn
<1>13. HistoryBatches'
  BY <1>1, <1>6, <1>7, <1>9, <1>10, <1>11, <1>12 DEF HistoryBatches
<1> QED BY <1>1, <1>2, <1>13, HistoryStays DEF HistoryInv

\* A merge that is found is from the generation's episode, and between its characters.
LEMMA HistoryMerges ==
  ASSUME IdentityInv, HistoryInv, Joining, KeepsDocs,
         NEW more \in SUBSET Merges, NEW proposed, 
         \A e \in more : e.at = generation.at /\ Ends(e) \subseteq DOMAIN generation.recs,
         generation' = [generation EXCEPT !.merges = Kept(@ \cup more), !.proposed = proposed]
  PROVE  HistoryInv'
<1> DEFINE merges == Kept(generation.merges \cup more)
<1>1. /\ generation \in Generations /\ Batching /\ HistoryBatches /\ HistoryDoc
      /\ UNCHANGED <<eventsDoc, called>>
  BY DEF IdentityInv, GenInv, HistoryInv, Joining, KeepsDocs
<1>2. /\ generation.from \in Nat /\ generation.at \in Nat /\ generation.from <= generation.at
      /\ generation.recs \in Records /\ generation.merges \in SUBSET Merges
      /\ Kept(generation.merges) = generation.merges
  BY <1>1, IdsAreCounted DEF Generations, Batching, HistoryBatches
<1>3. /\ generation'.merges = merges /\ generation'.recs = generation.recs
      /\ generation'.next = generation.next /\ generation'.stage = generation.stage
      /\ generation'.from = generation.from /\ generation'.at = generation.at
      /\ generation'.redo = generation.redo /\ eventsDoc' = eventsDoc
  BY <1>1 DEF Generations
<1>4. /\ merges \in SUBSET Merges /\ merges \subseteq generation.merges \cup more
      /\ Kept(merges) = merges
      /\ {e \in merges : e.at < generation.from} = {e \in generation.merges : e.at < generation.from}
  <2>1. generation.from \in Int /\ \A e \in more : e.at >= generation.from
    BY <1>2
  <2> DEFINE old == generation.merges
             from == generation.from
  <2>2. old \in SUBSET Merges /\ Kept(old) = old /\ from \in Int /\ \A e \in more : e.at >= from
    BY <1>2, <2>1
  <2> HIDE DEF old, from
  <2>3. \A e \in Merges : e.at < from => (e \in Kept(old \cup more) <=> e \in old)
    BY <2>2, KeptGrows
  <2>5. old \cup more \in SUBSET Merges
    BY <2>2
  <2>6. /\ Kept(old \cup more) \in SUBSET Merges /\ Kept(old \cup more) \subseteq old \cup more
        /\ Kept(Kept(old \cup more)) = Kept(old \cup more)
    BY <2>5, KeptWithin, KeptStays
  <2>4. {e \in Kept(old \cup more) : e.at < from} = {e \in old : e.at < from}
    BY <2>2, <2>3, <2>6
  <2> QED BY <2>4, <2>6 DEF old, from
<1> HIDE DEF merges
<1>5. Base' = Base
  BY <1>3 DEF Base
<1>6. \A i \in DOMAIN generation.recs : generation.recs[i].first <= generation.at /\ i < generation.next
  BY <1>1 DEF Batching, NotAfter
<1>7. MergesFit(merges, generation.recs)
  BY <1>1, <1>4, <1>6 DEF HistoryBatches, MergesFit
<1>8. MergesKnown(merges, generation.next, generation.at)
  <2>1. ASSUME NEW e \in merges PROVE e.at <= generation.at /\ \A i \in Ends(e) : i < generation.next
    <3>1. CASE e \in generation.merges
      BY <1>1, <3>1 DEF HistoryBatches, MergesKnown
    <3>2. CASE e \in more
      BY <1>2, <1>6, <3>2
    <3> QED BY <1>4, <3>1, <3>2
  <2> QED BY <2>1 DEF MergesKnown
<1>9. MergesGoOn'
  <2>1. MergesGoOn
    BY <1>1 DEF HistoryBatches
  <2> QED BY <1>3, <1>4, <2>1 DEF MergesGoOn
<1>10. HistoryBatches'
  BY <1>1, <1>3, <1>4, <1>5, <1>7, <1>8, <1>9 DEF HistoryBatches
<1> QED BY <1>1, <1>10, HistoryStays DEF HistoryInv

\* The two ways merges are found are such.
LEMMA HistoryProposes ==
  ASSUME IdentityInv, HistoryInv, NEW s \in CharacterIds, NEW t \in CharacterIds, ProposeMerge(s, t)
  PROVE  HistoryInv'
<1> DEFINE e == [source |-> s, target |-> t, at |-> generation.at]
<1>1. generation \in Generations /\ generation.at \in 1..Episodes
  BY IdsAreCounted DEF IdentityInv, GenInv, Generations, Batching, ProposeMerge, Joining
<1>2. /\ Joining /\ KeepsDocs /\ {s, t} \subseteq DOMAIN generation.recs
      /\ generation' = [generation EXCEPT !.merges = Kept(@ \cup {e}), !.proposed = @ \cup {e}]
  BY DEF ProposeMerge
<1>3. {e} \in SUBSET Merges /\ e.at = generation.at /\ Ends(e) = {s, t}
  BY <1>1 DEF Merges, Ends
<1> DEFINE proposed == generation.proposed \cup {e}
           more == {e}
<1>4. generation' = [generation EXCEPT !.merges = Kept(@ \cup more), !.proposed = proposed]
  BY <1>1, <1>2 DEF Generations
<1>5. more \in SUBSET Merges /\ \A d \in more : d.at = generation.at /\ Ends(d) \subseteq DOMAIN generation.recs
  BY <1>2, <1>3
<1> HIDE DEF e, proposed, more
<1> QED BY <1>2, <1>4, <1>5, HistoryMerges

\* The merges of a cluster keep the history, as they are of the generation's episode.
LEMMA HistoryClusters ==
  ASSUME IdentityInv, HistoryInv, NEW ids \in SUBSET CharacterIds, ClusterMerge(ids)
  PROVE  HistoryInv'
<1>1. /\ generation \in Generations /\ generation.at \in 1..Episodes /\ generation.at = generation.upTo
      /\ generation.recs \in Records
  BY IdsAreCounted DEF IdentityInv, GenInv, Generations, Batching, ClusterMerge, Joining
<1>2. /\ Joining /\ KeepsDocs /\ ids \subseteq DOMAIN generation.recs /\ Cardinality(ids) > 1
  BY DEF ClusterMerge
<1>3. ids # {}
  BY <1>2, FS_EmptySet
<1>4. PICK t \in IF PreferredTarget(ids) # {} THEN PreferredTarget(ids) ELSE {Representative(ids)} :
        generation' = [generation EXCEPT !.merges =
          Kept(@ \cup {[source |-> s, target |-> t, at |-> generation.upTo] : s \in ids \ {t}})]
  BY DEF ClusterMerge
<1>5. t \in ids
  <2>1. Representative(ids) \in ids
    BY <1>1, <1>2, <1>3, RepresentativeIsOne
  <2> QED BY <2>1 DEF PreferredTarget
<1> DEFINE more == {[source |-> s, target |-> t, at |-> generation.upTo] : s \in ids \ {t}}
<1>6. more \in SUBSET Merges
  BY <1>1, <1>5 DEF Merges
<1>7. \A e \in more : e.at = generation.at /\ Ends(e) \subseteq DOMAIN generation.recs
  BY <1>1, <1>2, <1>5 DEF Ends
<1> HIDE DEF more
<1> DEFINE proposed == generation.proposed
<1>8. generation' = [generation EXCEPT !.merges = Kept(@ \cup more), !.proposed = proposed]
  BY <1>1, <1>4 DEF Generations, more
<1> HIDE DEF proposed
<1> QED BY <1>2, <1>6, <1>7, <1>8, HistoryMerges

\* The next episode is a later one.
LEMMA HistoryMovesOn ==
  ASSUME IdentityInv, HistoryInv, NextEpisode
  PROVE  HistoryInv'
<1>1. /\ generation \in Generations /\ Batching /\ HistoryBatches /\ HistoryDoc
      /\ UNCHANGED <<eventsDoc, called>>
  BY DEF IdentityInv, GenInv, HistoryInv, NextEpisode, KeepsDocs
<1>2. generation.at \in Nat /\ \A e \in generation.merges : e.at \in Nat
  BY <1>1, IdsAreCounted DEF Generations, Merges
<1>3. /\ generation'.at = generation.at + 1 /\ generation'.recs = generation.recs
      /\ generation'.next = generation.next /\ generation'.stage = generation.stage
      /\ generation'.from = generation.from /\ generation'.merges = generation.merges
      /\ generation'.redo = generation.redo /\ eventsDoc' = eventsDoc
  BY <1>1 DEF NextEpisode, Generations
<1>4. Base' = Base
  BY <1>3 DEF Base
<1>5. MergesKnown(generation.merges, generation.next, generation.at + 1)
  BY <1>1, <1>2 DEF HistoryBatches, MergesKnown
<1>6. MergesGoOn'
  BY <1>1, <1>3 DEF HistoryBatches, MergesGoOn
<1>7. HistoryBatches'
  BY <1>1, <1>3, <1>4, <1>5, <1>6 DEF HistoryBatches
<1> QED BY <1>1, <1>7, HistoryStays DEF HistoryInv

-----------------------------------------------------------------------------
(* What a save writes *)

\* Merged people have the names of their records, and appear with the first of them.
LEMMA MergedAre ==
  ASSUME NEW recs \in Records, NEW into, NEW k \in DOMAIN Merged(recs, into)
  PROVE  /\ k \in DOMAIN recs /\ Survivor(recs, into, k) = k
         /\ \A n : n \in Merged(recs, into)[k].names <=>
              \E i \in DOMAIN recs : Survivor(recs, into, i) = k /\ n \in recs[i].names
         /\ \A i \in DOMAIN recs : Survivor(recs, into, i) = k => Merged(recs, into)[k].first <= recs[i].first
         /\ \E i \in DOMAIN recs : Survivor(recs, into, i) = k /\ Merged(recs, into)[k].first = recs[i].first
<1> DEFINE G == {i \in DOMAIN recs : Survivor(recs, into, i) = k}
           M == Merged(recs, into)
<1>1. k \in DOMAIN recs /\ Survivor(recs, into, k) = k
  BY MergedWithin
<1>2. M[k] = [names |-> UNION {recs[i].names : i \in G}, first |-> Min({recs[i].first : i \in G})]
  BY <1>1 DEF Merged
<1>3. G \in SUBSET DOMAIN recs /\ G # {}
  BY <1>1
<1> HIDE DEF G, M
<1>4. /\ \A i \in G : Min({recs[j].first : j \in G}) <= recs[i].first
      /\ \E i \in G : Min({recs[j].first : j \in G}) = recs[i].first
  BY <1>3, Joined
<1>5. M[k].names = UNION {recs[i].names : i \in G} /\ M[k].first = Min({recs[i].first : i \in G})
  BY <1>2
<1>6. \A n : n \in M[k].names <=> \E i \in G : n \in recs[i].names
  BY <1>5
<1>7. /\ \A i \in G : M[k].first <= recs[i].first
      /\ \E i \in G : M[k].first = recs[i].first
  BY <1>4, <1>5
<1> QED BY <1>1, <1>6, <1>7 DEF G, M

\* So have the records of ids that are given back.
LEMMA RenumberedAre ==
  ASSUME NEW recs \in Records, NEW new, NEW k \in DOMAIN RenumberedRecs(recs, new)
  PROVE  /\ \A n : n \in RenumberedRecs(recs, new)[k].names <=>
              \E i \in DOMAIN recs : As(new, i) = k /\ n \in recs[i].names
         /\ \A i \in DOMAIN recs : As(new, i) = k => RenumberedRecs(recs, new)[k].first <= recs[i].first
         /\ \E i \in DOMAIN recs : As(new, i) = k /\ RenumberedRecs(recs, new)[k].first = recs[i].first
<1> DEFINE G == {i \in DOMAIN recs : As(new, i) = k}
           M == RenumberedRecs(recs, new)
<1>1. k \in {As(new, i) : i \in DOMAIN recs}
  BY DEF RenumberedRecs
<1>2. M[k] = [names |-> UNION {recs[i].names : i \in G}, first |-> Min({recs[i].first : i \in G})]
  BY <1>1 DEF RenumberedRecs
<1>3. G \in SUBSET DOMAIN recs /\ G # {}
  BY <1>1
<1> HIDE DEF G, M
<1>4. /\ \A i \in G : Min({recs[j].first : j \in G}) <= recs[i].first
      /\ \E i \in G : Min({recs[j].first : j \in G}) = recs[i].first
  BY <1>3, Joined
<1>5. M[k].names = UNION {recs[i].names : i \in G} /\ M[k].first = Min({recs[i].first : i \in G})
  BY <1>2
<1>6. \A n : n \in M[k].names <=> \E i \in G : n \in recs[i].names
  BY <1>5
<1>7. /\ \A i \in G : M[k].first <= recs[i].first
      /\ \E i \in G : M[k].first = recs[i].first
  BY <1>4, <1>5
<1> QED BY <1>6, <1>7 DEF G, M

\* The end of a way is its beginning or the target of a merge.
LEMMA StandsAtAnEnd ==
  ASSUME NEW into, NEW i
  PROVE  Stands(into, i) = i \/ \E s \in DOMAIN into : Stands(into, i) = into[s]
<1> DEFINE C == {i} \cup {into[s] : s \in DOMAIN into}
<1>1. i \in C /\ \A j \in C : Onward(into, j) \in C
  BY DEF Onward
<1> HIDE DEF C
<1>2. Way(into, i) \in [0..Last -> C]
  BY <1>1, WayStaysIn
<1>3. Last \in 0..Last
  BY IdsAreCounted
<1>4. Stands(into, i) \in C
  BY <1>2, <1>3 DEF Stands, Last
<1> QED BY <1>4 DEF C

\* Merged people, and people under other ids, have names from where they first appear.
LEMMA MergedRooted ==
  ASSUME NEW recs \in Records, Rooted(recs), NEW into
  PROVE  Rooted(Merged(recs, into))
<1> DEFINE M == Merged(recs, into)
<1>1. ASSUME NEW k \in DOMAIN M PROVE \E n \in M[k].names : n.at = M[k].first
  <2>1. PICK i \in DOMAIN recs : Survivor(recs, into, i) = k /\ M[k].first = recs[i].first
    BY MergedAre
  <2>2. PICK n \in recs[i].names : n.at = recs[i].first
    BY DEF Rooted
  <2>3. n \in M[k].names
    BY <2>1, MergedAre
  <2> QED BY <2>1, <2>2, <2>3
<1> QED BY <1>1 DEF Rooted

\* Under other ids everybody has a name from where he first appears.
LEMMA RenumberedRooted ==
  ASSUME NEW recs \in Records, Rooted(recs), NEW new
  PROVE  Rooted(RenumberedRecs(recs, new))
<1> DEFINE M == RenumberedRecs(recs, new)
<1>1. ASSUME NEW k \in DOMAIN M PROVE \E n \in M[k].names : n.at = M[k].first
  <2>1. PICK i \in DOMAIN recs : As(new, i) = k /\ M[k].first = recs[i].first
    BY RenumberedAre
  <2>2. PICK n \in recs[i].names : n.at = recs[i].first
    BY DEF Rooted
  <2>3. n \in M[k].names
    BY <2>1, RenumberedAre
  <2> QED BY <2>1, <2>2, <2>3
<1> QED BY <1>1 DEF Rooted

\* What names of existing records, and records of merged people, add to others.
LEMMA LiveAre ==
  ASSUME NEW raw \in Records, NEW existing \in Records, NEW told
  PROVE  LET live == Preserved(WithNames(raw, existing), told, existing) IN
         /\ \A i : i \in DOMAIN live <=> i \in DOMAIN raw \/ (i \in Sources(told) /\ i \in DOMAIN existing)
         /\ \A i \in DOMAIN raw :
              /\ live[i].first = raw[i].first
              /\ live[i].names = raw[i].names \cup (IF i \in DOMAIN existing THEN existing[i].names ELSE {})
         /\ \A i \in DOMAIN live : i \notin DOMAIN raw => i \in DOMAIN existing /\ live[i] = existing[i]
<1> DEFINE live == Preserved(WithNames(raw, existing), told, existing)
           W == WithNames(raw, existing)
           S == Sources(told)
           more == S \cap (DOMAIN existing \ DOMAIN W)
<1>1. DOMAIN W = DOMAIN raw
  BY DEF WithNames
<1>2. ASSUME NEW i \in DOMAIN raw
      PROVE  /\ W[i].first = raw[i].first
             /\ W[i].names = raw[i].names \cup (IF i \in DOMAIN existing THEN existing[i].names ELSE {})
  <2>1. CASE i \in DOMAIN existing
    <3>1. W[i] = [names |-> raw[i].names \cup existing[i].names, first |-> raw[i].first]
      BY <2>1 DEF WithNames
    <3> QED BY <2>1, <3>1
  <2>2. CASE i \notin DOMAIN existing
    <3>1. W[i] = raw[i]
      BY <2>2 DEF WithNames
    <3> QED BY <2>2, <3>1
  <2> QED BY <2>1, <2>2
<1>3. live = [i \in DOMAIN W \cup more |-> IF i \in DOMAIN W THEN W[i] ELSE existing[i]]
  BY DEF Preserved, Sources
<1> HIDE DEF W, S, live
<1>4. /\ DOMAIN live = DOMAIN raw \cup (S \cap DOMAIN existing)
      /\ \A i \in DOMAIN raw : live[i] = W[i]
      /\ \A i \in DOMAIN live : i \notin DOMAIN raw => i \in DOMAIN existing /\ live[i] = existing[i]
  BY <1>1, <1>3
<1> QED BY <1>2, <1>4 DEF S, live

\* An id is given back to one person, who shares a name with whom it stood for,
\* and only while nobody else has it.
LEMMA GivenBackAre ==
  ASSUME NEW raw \in Records, NEW merges, NEW doc, doc.recs \in Records, NEW upTo
  PROVE  LET people == Merged(raw, IntoAt(merges, upTo))
             registry == Merged(doc.recs, IntoAt(doc.merges, upTo))
             back == Renumbered(raw, merges, doc, upTo) IN
         /\ DOMAIN back \subseteq DOMAIN people
         /\ \A p \in DOMAIN back :
              /\ back[p] \in DOMAIN registry /\ back[p] \notin DOMAIN people
              /\ KeysOf(people[p]) \cap KeysOf(registry[back[p]]) # {}
         /\ \A p, q \in DOMAIN back : back[p] = back[q] => p = q
<1> DEFINE people == Merged(raw, IntoAt(merges, upTo))
           registry == Merged(doc.recs, IntoAt(doc.merges, upTo))
           back == Renumbered(raw, merges, doc, upTo)
           known == {i \in DOMAIN registry : registry[i].first <= upTo}
           exact(k) == Cardinality({i \in DOMAIN registry : k \in KeysOf(registry[i])}) = 1
           owners(r) == {i \in known : \E k \in KeysOf(r) \cap KeysOf(registry[i]) : exact(k)}
           target(p) == IF Cardinality(owners(people[p])) = 1
                        THEN CHOOSE i \in owners(people[p]) : TRUE ELSE Nobody
           claims(t) == {p \in DOMAIN people : target(p) = t /\ p # t}
           D == {q \in DOMAIN people : /\ target(q) \notin {Nobody, q}
                                       /\ GetsBack(target(q), DOMAIN people, claims(target(q)))}
<1>1. back = [p \in D |-> target(p)]
  BY DEF Renumbered
<1> HIDE DEF back
<1>2. IsFiniteSet(DOMAIN people)
  <2>1. DOMAIN people \subseteq DOMAIN raw
    BY DEF Merged
  <2> HIDE DEF people
  <2>2. DOMAIN people \subseteq CharacterIds
    BY <2>1, RecordsAre
  <2> QED BY <2>2, IdsAreCounted, FS_Subset
<1>3. ASSUME NEW q \in DOMAIN people, target(q) # Nobody
      PROVE  target(q) \in DOMAIN registry /\ KeysOf(people[q]) \cap KeysOf(registry[target(q)]) # {}
  <2> DEFINE O == owners(people[q])
  <2>1. Cardinality(O) = 1 /\ target(q) = CHOOSE i \in O : TRUE
    BY <1>3
  <2>2. target(q) \in O
    <3> HIDE DEF O, target
    <3> QED BY <2>1, OneOfThem
  <2>3. \A i \in O : i \in DOMAIN registry /\ KeysOf(people[q]) \cap KeysOf(registry[i]) # {}
    <3> HIDE DEF exact
    <3> QED OBVIOUS
  <2> HIDE DEF O, target
  <2> QED BY <2>2, <2>3
<1>4. ASSUME NEW t, Cardinality(claims(t)) = 1, NEW p \in claims(t), NEW q \in claims(t) PROVE p = q
  <2> DEFINE C == claims(t)
  <2>1. IsFiniteSet(C)
    <3>1. C \subseteq DOMAIN people
      BY DEF C
    <3> HIDE DEF C
    <3> QED BY <1>2, <3>1, FS_Subset
  <2>2. \E e : C = {e}
    <3>1. Cardinality(C) = 1
      BY <1>4
    <3> HIDE DEF C
    <3> QED BY <2>1, <3>1, FS_Singleton
  <2>3. p \in C /\ q \in C
    OBVIOUS
  <2> HIDE DEF C
  <2> QED BY <2>2, <2>3
<1> HIDE DEF target
<1>5. \A q \in D : /\ q \in DOMAIN people /\ target(q) # Nobody /\ target(q) \notin DOMAIN people
                   /\ Cardinality(claims(target(q))) = 1 /\ q \in claims(target(q))
  BY DEF GetsBack
<1>6. DOMAIN back = D /\ \A p \in D : back[p] = target(p)
  BY <1>1
<1> HIDE DEF D, claims, people, registry
<1>7. \A p, q \in D : target(p) = target(q) => p = q
  BY <1>4, <1>5
<1> QED BY <1>3, <1>5, <1>6, <1>7 DEF back, people, registry

\* The ids that were replaced, also in this save; what is left of the records
\* when it begins; and the merges from before the generation.
Replaced(new) ==
  LET retired == Retired(eventsDoc, DOMAIN RenumberedRecs(generation.recs, new), new)
  IN [i \in {j \in DOMAIN retired : retired[j] # Nobody} |-> retired[i]]
Existing(new) == Merged(Base, Replaced(new))
Early == {e \in eventsDoc.merges : e.at < generation.from}

\* A generation that can be saved.
Saves == DocInv /\ GenInv /\ HistoryInv /\ generation.stage = "batches" /\ generation.at = generation.upTo

\* What of it the proofs below use.
LEMMA SavesWell ==
  ASSUME Saves
  PROVE  /\ HistoryDoc /\ HistoryBatches
         /\ eventsDoc.recs \in Records /\ generation.recs \in Records /\ Base \in Records
         /\ DOMAIN eventsDoc.recs \in SUBSET CharacterIds /\ DOMAIN generation.recs \in SUBSET CharacterIds
         /\ eventsDoc.merges \in SUBSET Merges /\ generation.merges \in SUBSET Merges
         /\ generation.from \in 1..Episodes /\ generation.upTo \in 1..Episodes
         /\ generation.from <= generation.upTo
         /\ eventsDoc.frontier \in Nat /\ generation.from <= eventsDoc.frontier + 1
         /\ generation.next \in Nat /\ eventsDoc.next \in Nat /\ eventsDoc.next <= generation.next
         /\ \A i \in DOMAIN eventsDoc.recs : i \in Nat /\ i < eventsDoc.next
         /\ \A i \in DOMAIN generation.recs : i \in Nat /\ i < generation.next
<1>1. HistoryDoc /\ HistoryBatches
  BY DEF Saves, HistoryInv
<1>2. /\ generation \in Generations /\ Batching
  BY DEF Saves, GenInv
<1>3. /\ eventsDoc.recs \in Records /\ generation.recs \in Records
      /\ eventsDoc.merges \in SUBSET Merges /\ generation.merges \in SUBSET Merges
      /\ generation.from \in 1..Episodes /\ generation.upTo \in 1..Episodes
      /\ generation.from <= generation.upTo
      /\ eventsDoc.frontier \in Nat
      /\ generation.next \in Nat /\ eventsDoc.next \in Nat /\ eventsDoc.next <= generation.next
  BY <1>2, IdsAreCounted DEF Saves, DocInv, Generations, Batching
<1>4. DOMAIN eventsDoc.recs \in SUBSET CharacterIds /\ DOMAIN generation.recs \in SUBSET CharacterIds
  BY <1>3, RecordsAre
<1>5. Base \in Records
  BY BaseTells DEF Saves
<1>6. /\ \A i \in DOMAIN eventsDoc.recs : i \in Nat /\ i < eventsDoc.next
      /\ \A i \in DOMAIN generation.recs : i \in Nat /\ i < generation.next
  BY <1>2, <1>4, IdsAreCounted DEF Saves, DocInv, UsedIds, Batching
<1> QED BY <1>1, <1>3, <1>4, <1>5, <1>6 DEF HistoryBatches

\* What a generation goes on from, as the document has it.
LEMMA BaseIs ==
  ASSUME Saves
  PROVE  /\ Rooted(Base)
         /\ \A i \in DOMAIN eventsDoc.recs : eventsDoc.recs[i].first < generation.from => i \in DOMAIN Base
         /\ \A i \in DOMAIN Base :
              /\ i \in DOMAIN eventsDoc.recs /\ Base[i].first = eventsDoc.recs[i].first
              /\ Base[i].first < generation.from
              /\ Base[i].names = {n \in eventsDoc.recs[i].names : n.at < generation.from}
              /\ Base[i].names = {n \in Base[i].names : n.at < generation.from}
              /\ i \in DOMAIN generation.recs /\ generation.recs[i].first = Base[i].first
              /\ Base[i].names = {n \in generation.recs[i].names : n.at < generation.from}
         /\ \A i \in DOMAIN generation.recs : i \notin DOMAIN Base =>
              generation.recs[i].first >= generation.from /\ i >= eventsDoc.next
<1>1. /\ HistoryBatches /\ HistoryDoc /\ DocInv
      /\ generation.from \in 1..Episodes /\ generation.from <= eventsDoc.frontier + 1
  BY SavesWell DEF Saves
<1>2. Base = IF generation.from <= eventsDoc.frontier THEN Cut(eventsDoc.recs, generation.from) ELSE eventsDoc.recs
  BY <1>1 DEF Base, HistoryBatches
<1>3. GoesOn(generation.recs, Base, generation.from, eventsDoc.next)
  BY <1>1 DEF HistoryBatches
<1> DEFINE base == Base
           from == generation.from
<1>4. base = IF from <= eventsDoc.frontier THEN Cut(eventsDoc.recs, from) ELSE eventsDoc.recs
  BY <1>2
<1>5. from \in 1..Episodes /\ from <= eventsDoc.frontier + 1
  BY <1>1
<1> HIDE DEF base, from
<1>6. /\ Rooted(base)
      /\ \A i \in DOMAIN eventsDoc.recs : eventsDoc.recs[i].first < from => i \in DOMAIN base
      /\ \A i \in DOMAIN base :
           /\ i \in DOMAIN eventsDoc.recs /\ base[i].first = eventsDoc.recs[i].first
           /\ base[i].first < from
           /\ base[i].names = {n \in eventsDoc.recs[i].names : n.at < from}
           /\ base[i].names = {n \in base[i].names : n.at < from}
  BY <1>1, <1>4, <1>5, BaseIsEarlier
<1> USE DEF base, from
<1>7. \A i \in DOMAIN Base : /\ i \in DOMAIN generation.recs /\ generation.recs[i].first = Base[i].first
                             /\ Base[i].names = {n \in generation.recs[i].names : n.at < generation.from}
  BY <1>3 DEF GoesOn
<1>8. \A i \in DOMAIN generation.recs : i \notin DOMAIN Base =>
        generation.recs[i].first >= generation.from /\ i >= eventsDoc.next
  BY <1>3 DEF GoesOn
<1> QED BY <1>6, <1>7, <1>8

\* The ends of a merge from before the generation are all there, or none of them is.
LEMMA EarlyEnds ==
  ASSUME Saves, NEW e \in eventsDoc.merges, NEW i \in Ends(e), e.at < generation.from
  PROVE  /\ i \in DOMAIN eventsDoc.recs => i \in DOMAIN Base /\ Base[i].first <= e.at
         /\ i \in DOMAIN generation.recs => i \in DOMAIN Base
<1>1. /\ HistoryDoc /\ HistoryBatches /\ e.at \in Nat /\ generation.from \in Nat /\ eventsDoc.recs \in Records
      /\ generation.recs \in Records
  BY SavesWell, IdsAreCounted DEF Merges
<1>2. ASSUME i \in DOMAIN eventsDoc.recs PROVE i \in DOMAIN Base /\ Base[i].first <= e.at
  <2>1. eventsDoc.recs[i].first <= e.at
    BY <1>1, <1>2 DEF HistoryDoc, MergesFit
  <2>2. eventsDoc.recs[i].first \in Nat
    BY <1>1, <1>2, RecordsAre, PersonsAre
  <2>3. eventsDoc.recs[i].first < generation.from
    BY <1>1, <2>1, <2>2
  <2> QED BY <1>2, <2>1, <2>3, BaseIs
<1>3. ASSUME i \in DOMAIN generation.recs PROVE i \in DOMAIN Base
  <2>1. e \in generation.merges
    BY <1>1 DEF HistoryBatches, MergesGoOn
  <2>2. generation.recs[i].first <= e.at
    BY <1>1, <1>3, <2>1 DEF HistoryBatches, MergesFit
  <2>3. generation.recs[i].first \in Nat
    BY <1>1, <1>3, RecordsAre, PersonsAre
  <2>4. ~(generation.recs[i].first >= generation.from)
    BY <1>1, <2>2, <2>3
  <2> QED BY <1>3, <2>4, BaseIs
<1> QED BY <1>2, <1>3

\* Ids that are given back, as a save finds them.
LEMMA SaveGivesBack ==
  ASSUME Saves
  PROVE  LET new == GivenBack
             people == Merged(generation.recs, IntoAt(generation.merges, generation.upTo)) IN
         /\ DOMAIN new \subseteq DOMAIN people /\ DOMAIN people \subseteq DOMAIN generation.recs
         /\ \A p \in DOMAIN new : new[p] \in DOMAIN eventsDoc.recs /\ new[p] \notin DOMAIN people
         /\ \A p, q \in DOMAIN new : new[p] = new[q] => p = q
<1> DEFINE new == GivenBack
           people == Merged(generation.recs, IntoAt(generation.merges, generation.upTo))
           registry == Merged(eventsDoc.recs, IntoAt(eventsDoc.merges, generation.upTo))
           back == Renumbered(generation.recs, generation.merges, eventsDoc, generation.upTo)
<1>1. eventsDoc.recs \in Records /\ generation.recs \in Records
  BY SavesWell
<1>2. /\ DOMAIN back \subseteq DOMAIN people
      /\ \A p \in DOMAIN back : back[p] \in DOMAIN registry /\ back[p] \notin DOMAIN people
      /\ \A p, q \in DOMAIN back : back[p] = back[q] => p = q
  BY <1>1, GivenBackAre
<1>3. DOMAIN people \subseteq DOMAIN generation.recs /\ DOMAIN registry \subseteq DOMAIN eventsDoc.recs
  BY DEF Merged
<1>4. new = back \/ new = [i \in {} |-> 0]
  BY DEF GivenBack
<1> HIDE DEF new, back, people, registry
<1>5. CASE new = back
  <2>1. \A p \in DOMAIN new : new[p] \in DOMAIN eventsDoc.recs /\ new[p] \notin DOMAIN people
    BY <1>2, <1>3, <1>5
  <2>2. DOMAIN new \subseteq DOMAIN people /\ \A p, q \in DOMAIN new : new[p] = new[q] => p = q
    BY <1>2, <1>5
  <2> QED BY <1>3, <2>1, <2>2 DEF new, people
<1>6. CASE new = [i \in {} |-> 0]
  <2>1. DOMAIN new = {}
    BY <1>6
  <2> QED BY <1>3, <2>1 DEF new, people
<1> QED BY <1>4, <1>5, <1>6

\* The merges a save tells, as the invariant has it.
LEMMA SaveTells ==
  ASSUME Saves, NEW new
  PROVE  /\ NewEvents(new).frontier = generation.upTo
         /\ NewEvents(new).merges = Kept(RenumberedMerges(generation.merges, new) \cup Early)
         /\ NewEvents(new).recs = Preserved(WithNames(RenumberedRecs(generation.recs, new), Existing(new)),
                                            NewEvents(new).merges, Existing(new))
<1> DEFINE before == IF generation.redo THEN CutMerges(eventsDoc.merges, generation.from) ELSE eventsDoc.merges
<1>1. before = Early
  <2>1. /\ eventsDoc.merges \in SUBSET Merges /\ Kept(eventsDoc.merges) = eventsDoc.merges
        /\ generation.from \in Int /\ (generation.redo <=> generation.from <= eventsDoc.frontier)
        /\ generation.from <= eventsDoc.frontier + 1 /\ eventsDoc.frontier \in Nat
        /\ MergesKnown(eventsDoc.merges, eventsDoc.next, eventsDoc.frontier)
    BY SavesWell DEF HistoryDoc, HistoryBatches
  <2>2. CASE generation.redo
    BY <2>1, <2>2, CutMergesAre DEF Early
  <2>3. CASE ~generation.redo
    <3>1. \A e \in eventsDoc.merges : e.at \in Nat /\ e.at <= eventsDoc.frontier
      BY <2>1, IdsAreCounted DEF MergesKnown, Merges
    <3>2. \A e \in eventsDoc.merges : e.at < generation.from
      BY <2>1, <2>3, <3>1
    <3> QED BY <2>3, <3>2 DEF Early
  <2> QED BY <2>2, <2>3
<1> DEFINE merges == RenumberedMerges(generation.merges, new)
<1>2. /\ NewEvents(new).frontier = generation.upTo
      /\ NewEvents(new).merges = Kept(merges \cup before)
      /\ NewEvents(new).recs = Preserved(WithNames(RenumberedRecs(generation.recs, new), Existing(new)),
                                         Kept(merges \cup before), Existing(new))
  BY DEF NewEvents, WithNames, Existing, Replaced, Base
<1> HIDE DEF before, merges
<1> QED BY <1>1, <1>2 DEF merges

\* Records that are kept are those of the beginning.
LEMMA ExistingAre ==
  ASSUME Saves, NEW new
  PROVE  /\ Existing(new) \in Records /\ Rooted(Existing(new))
         /\ \A i \in DOMAIN Existing(new) :
              i \in DOMAIN Base /\ Base[i].names \subseteq Existing(new)[i].names
              /\ Existing(new)[i].first <= Base[i].first
<1> DEFINE gone == Replaced(new)
           E == Merged(Base, gone)
<1>1. Base \in Records /\ Rooted(Base)
  BY SavesWell, BaseIs
<1> HIDE DEF gone
<1>2. E \in Records
  BY <1>1, MergedWithin
<1>3. Rooted(E)
  BY <1>1, MergedRooted
<1>4. ASSUME NEW i \in DOMAIN E
      PROVE  i \in DOMAIN Base /\ Base[i].names \subseteq E[i].names /\ E[i].first <= Base[i].first
  <2>1. i \in DOMAIN Base /\ Survivor(Base, gone, i) = i
    BY <1>1, MergedAre
  <2>2. \A n : n \in E[i].names <=> \E j \in DOMAIN Base : Survivor(Base, gone, j) = i /\ n \in Base[j].names
    BY <1>1, MergedAre
  <2>3. E[i].first <= Base[i].first
    BY <1>1, <2>1, MergedAre
  <2> QED BY <2>1, <2>2, <2>3
<1> QED BY <1>2, <1>3, <1>4 DEF Existing, gone

\* A merge that is told is one of the generation, with the ids that are given
\* back, or one of its merges from before it.
LEMMA ToldAre ==
  ASSUME Saves, NEW new, \A i \in DOMAIN new : new[i] \in CharacterIds
  PROVE  /\ NewEvents(new).merges \in SUBSET Merges
         /\ Kept(NewEvents(new).merges) = NewEvents(new).merges
         /\ \A e \in NewEvents(new).merges : \E d \in generation.merges :
              /\ d.at = e.at
              /\ \/ e.source = As(new, d.source) /\ e.target = As(new, d.target)
                 \/ e = d /\ d \in Early
<1> DEFINE R == {[source |-> As(new, e.source), target |-> As(new, e.target), at |-> e.at] :
                 e \in generation.merges}
<1>1. /\ generation.merges \in SUBSET Merges /\ eventsDoc.merges \in SUBSET Merges
      /\ MergesGoOn
  BY SavesWell DEF HistoryBatches
<1>2. R \in SUBSET Merges
  BY <1>1 DEF As, Merges
<1>3. \A e \in R : \E d \in generation.merges :
        d.at = e.at /\ e.source = As(new, d.source) /\ e.target = As(new, d.target)
  OBVIOUS
<1>4. RenumberedMerges(generation.merges, new) = Kept(R)
  BY DEF RenumberedMerges
<1> HIDE DEF R
<1>5. Kept(R) \subseteq R /\ Kept(R) \in SUBSET Merges
  BY <1>2, KeptWithin
<1>6. Early \in SUBSET Merges /\ Early \subseteq generation.merges
  <2>1. \A e \in Early : e \in {d \in generation.merges : d.at < generation.from}
    BY <1>1 DEF Early, MergesGoOn
  <2> QED BY <1>1, <2>1 DEF Early
<1> DEFINE T == Kept(R) \cup Early
<1>7. T \in SUBSET Merges
  BY <1>5, <1>6
<1>8. \A e \in T : e \in R \/ e \in Early
  BY <1>5
<1> HIDE DEF T
<1>9. Kept(T) \subseteq T /\ Kept(T) \in SUBSET Merges /\ Kept(Kept(T)) = Kept(T)
  BY <1>7, KeptWithin, KeptStays
<1>10. NewEvents(new).merges = Kept(T)
  BY <1>4, SaveTells DEF T
<1>11. ASSUME NEW e \in Kept(T)
       PROVE  \E d \in generation.merges :
              /\ d.at = e.at
              /\ \/ e.source = As(new, d.source) /\ e.target = As(new, d.target)
                 \/ e = d /\ d \in Early
  <2>1. e \in R \/ e \in Early
    BY <1>8, <1>9
  <2>2. CASE e \in R
    BY <1>3, <2>2
  <2>3. CASE e \in Early
    BY <1>6, <2>3
  <2> QED BY <2>1, <2>2, <2>3
<1> QED BY <1>9, <1>10, <1>11

\* No id that is given back is an end of a merge of the generation.
LEMMA GivenBackIsNoEnd ==
  ASSUME Saves, NEW p \in DOMAIN GivenBack, NEW e \in generation.merges, GivenBack[p] \in Ends(e),
         GivenBack[p] \notin DOMAIN generation.recs
  PROVE  FALSE
<1>1. GivenBack[p] \in DOMAIN eventsDoc.recs
  BY SaveGivesBack
<1>2. /\ e.at \in Nat /\ generation.from \in Nat /\ MergesGoOn
  BY SavesWell, IdsAreCounted DEF HistoryBatches, Merges
<1>3. e.at < generation.from
  BY <1>2 DEF MergesGoOn
<1>4. e \in eventsDoc.merges
  BY <1>2, <1>3 DEF MergesGoOn
<1>5. GivenBack[p] \in DOMAIN Base
  BY <1>1, <1>3, <1>4, EarlyEnds
<1> QED BY <1>5, BaseIs

\* In what is saved nobody is merged before he appears.
LEMMA SavedFits ==
  ASSUME Saves
  PROVE  MergesFit(NewEvents(GivenBack).merges, NewEvents(GivenBack).recs)
<1> DEFINE new == GivenBack
           doc == NewEvents(new)
           raw == RenumberedRecs(generation.recs, new)
           existing == Existing(new)
<1>1. /\ generation.recs \in Records /\ eventsDoc.recs \in Records
      /\ DOMAIN eventsDoc.recs \in SUBSET CharacterIds
      /\ generation.merges \in SUBSET Merges /\ MergesGoOn
      /\ MergesFit(generation.merges, generation.recs)
      /\ generation.from \in Nat
  BY SavesWell, IdsAreCounted DEF HistoryBatches
<1>2. /\ \A p \in DOMAIN new : /\ new[p] \in CharacterIds /\ new[p] \in DOMAIN eventsDoc.recs
                               /\ new[p] \notin DOMAIN new
      /\ DOMAIN new \subseteq DOMAIN generation.recs
  BY <1>1, SaveGivesBack
<1>3. raw \in Records /\ DOMAIN raw = {As(new, i) : i \in DOMAIN generation.recs}
  BY <1>1, <1>2, RenumberedTells
<1>4. /\ existing \in Records
      /\ \A i \in DOMAIN existing : i \in DOMAIN Base /\ existing[i].first <= Base[i].first
  BY ExistingAre
<1>5. doc.recs = Preserved(WithNames(raw, existing), doc.merges, existing)
  BY SaveTells
<1> DEFINE told == doc.merges
           live == doc.recs
<1>6. \A e \in told : \E d \in generation.merges :
        /\ d.at = e.at
        /\ \/ e.source = As(new, d.source) /\ e.target = As(new, d.target)
           \/ e = d /\ d \in Early
  BY <1>2, ToldAre
<1>7. \A i \in DOMAIN generation.recs : As(new, i) \in DOMAIN raw /\ raw[As(new, i)].first <= generation.recs[i].first
  BY <1>1, <1>3, RenumberedAre
<1> HIDE DEF raw, existing, told
<1>8. /\ \A i \in DOMAIN raw : live[i].first = raw[i].first
      /\ \A i \in DOMAIN live : i \notin DOMAIN raw => i \in DOMAIN existing /\ live[i] = existing[i]
  <2> DEFINE L == Preserved(WithNames(raw, existing), told, existing)
  <2>1. /\ \A i \in DOMAIN raw : L[i].first = raw[i].first
        /\ \A i \in DOMAIN L : i \notin DOMAIN raw => i \in DOMAIN existing /\ L[i] = existing[i]
    BY <1>3, <1>4, LiveAre
  <2>2. live = L
    BY <1>5 DEF told
  <2> HIDE DEF L, live
  <2> QED BY <2>1, <2>2
<1> HIDE DEF doc
<1> HIDE DEF new
\* What is true of each end of each merge of the generation, with its new id.
<1>9. ASSUME NEW d \in generation.merges, NEW j \in Ends(d), NEW i, i = As(new, j), i \in DOMAIN live
      PROVE  live[i].first <= d.at
  <2>1. d.at \in Nat
    BY <1>1, IdsAreCounted DEF Merges
  <2>2. CASE j \in DOMAIN generation.recs
    <3>1. i \in DOMAIN raw /\ live[i].first = raw[i].first /\ raw[i].first <= generation.recs[j].first
      BY <1>7, <1>8, <1>9, <2>2
    <3>2. generation.recs[j].first <= d.at
      BY <1>1, <2>2 DEF MergesFit
    <3>3. raw[i].first \in Nat /\ generation.recs[j].first \in Nat
      BY <1>1, <1>3, <2>2, <3>1, RecordsAre, PersonsAre
    <3> QED BY <2>1, <3>1, <3>2, <3>3
  <2>3. CASE j \notin DOMAIN generation.recs
    <3>1. i = j
      BY <1>2, <1>9, <2>3 DEF As
    <3>2. i \notin DOMAIN raw
      <4>1. SUFFICES ASSUME NEW k \in DOMAIN generation.recs, i = As(new, k) PROVE FALSE
        BY <1>3
      <4>2. k \in DOMAIN new /\ i = new[k]
        BY <2>3, <3>1, <4>1 DEF As
      <4> QED BY <2>3, <3>1, <4>2, GivenBackIsNoEnd DEF new
    <3>3. i \in DOMAIN existing /\ live[i] = existing[i]
      BY <1>8, <1>9, <3>2
    <3>4. d.at < generation.from
      BY <1>1, <2>1, <2>3 DEF MergesGoOn
    <3>5. d \in eventsDoc.merges
      BY <1>1, <3>4 DEF MergesGoOn
    <3>6. i \in DOMAIN Base /\ existing[i].first <= Base[i].first
      BY <1>4, <3>3
    <3>7. i \in DOMAIN generation.recs
      BY <3>6, BaseIs
    <3> QED BY <2>3, <3>1, <3>7
  <2> QED BY <2>2, <2>3
<1>10. ASSUME NEW d \in Early, NEW i \in Ends(d), i \in DOMAIN live
       PROVE  live[i].first <= d.at
  <2>1. d \in eventsDoc.merges /\ d.at < generation.from
    BY DEF Early
  <2>2. d \in generation.merges /\ d.at \in Nat
    BY <1>1, <2>1, IdsAreCounted DEF MergesGoOn, Merges
  <2>3. CASE i \in DOMAIN new
    <3>1. i \in DOMAIN generation.recs /\ i \in DOMAIN Base
      BY <1>2, <2>1, <2>3, EarlyEnds
    <3>2. i \notin DOMAIN raw
      <4>1. SUFFICES ASSUME NEW k \in DOMAIN generation.recs, i = As(new, k) PROVE FALSE
        BY <1>3
      <4>2. k \in DOMAIN new /\ i = new[k]
        BY <2>3, <4>1, <1>2 DEF As
      <4> QED BY <1>2, <2>3, <4>2
    <3>3. i \in DOMAIN existing /\ live[i] = existing[i] /\ existing[i].first <= Base[i].first
      BY <1>4, <1>8, <1>10, <3>2
    <3>4. Base[i].first <= d.at
      BY <2>1, <3>1, BaseIs, EarlyEnds
    <3>5. existing[i].first \in Nat /\ Base[i].first \in Nat
      BY <1>4, <3>1, <3>3, SavesWell, RecordsAre, PersonsAre
    <3> QED BY <2>2, <3>3, <3>4, <3>5
  <2>4. CASE i \notin DOMAIN new
    BY <1>9, <1>10, <2>2, <2>4 DEF As
  <2> QED BY <2>3, <2>4
<1>11. ASSUME NEW e \in told, NEW i \in Ends(e) \cap DOMAIN live PROVE live[i].first <= e.at
  <2>1. PICK d \in generation.merges :
          /\ d.at = e.at
          /\ \/ e.source = As(new, d.source) /\ e.target = As(new, d.target)
             \/ e = d /\ d \in Early
    BY <1>6
  <2>2. CASE e.source = As(new, d.source) /\ e.target = As(new, d.target)
    <3>1. \E j \in Ends(d) : i = As(new, j)
      BY <1>11, <2>2 DEF Ends
    <3> QED BY <1>9, <1>11, <2>1, <3>1
  <2>3. CASE e = d /\ d \in Early
    BY <1>10, <1>11, <2>1, <2>3
  <2> QED BY <2>1, <2>2, <2>3
<1>12. MergesFit(told, live)
  BY <1>11 DEF MergesFit
<1> QED BY <1>12 DEF doc, new, told

\* In what is saved everybody has a name from where he first appears.
LEMMA SavedRooted ==
  ASSUME Saves, NEW new, \A i \in DOMAIN new : new[i] \in CharacterIds
  PROVE  Rooted(NewEvents(new).recs)
<1> DEFINE live == NewEvents(new).recs
           raw == RenumberedRecs(generation.recs, new)
           existing == Existing(new)
<1>1. raw \in Records /\ Rooted(raw)
  BY SavesWell, RenumberedTells, RenumberedRooted DEF HistoryBatches
<1>2. existing \in Records /\ Rooted(existing)
  BY ExistingAre
<1>3. live = Preserved(WithNames(raw, existing), NewEvents(new).merges, existing)
  BY SaveTells
<1> HIDE DEF live, raw, existing
<1>4. /\ \A i \in DOMAIN raw : live[i].first = raw[i].first /\ raw[i].names \subseteq live[i].names
      /\ \A i \in DOMAIN live : i \notin DOMAIN raw => i \in DOMAIN existing /\ live[i] = existing[i]
  <2> DEFINE told == NewEvents(new).merges
             L == Preserved(WithNames(raw, existing), told, existing)
  <2> HIDE DEF told
  <2>1. /\ \A i \in DOMAIN raw : L[i].first = raw[i].first /\ raw[i].names \subseteq L[i].names
        /\ \A i \in DOMAIN L : i \notin DOMAIN raw => i \in DOMAIN existing /\ L[i] = existing[i]
    BY <1>1, <1>2, LiveAre
  <2>2. live = L
    BY <1>3 DEF told
  <2> HIDE DEF L
  <2> QED BY <2>1, <2>2
<1>5. ASSUME NEW i \in DOMAIN live PROVE \E n \in live[i].names : n.at = live[i].first
  <2>1. CASE i \in DOMAIN raw
    BY <1>1, <1>4, <2>1 DEF Rooted
  <2>2. CASE i \notin DOMAIN raw
    BY <1>2, <1>4, <2>2 DEF Rooted
  <2> QED BY <2>1, <2>2
<1> QED BY <1>5 DEF Rooted, live

\* No merge that is saved is from after its end, or of an id that is yet to be given.
LEMMA SavedKnown ==
  ASSUME Saves
  PROVE  MergesKnown(NewEvents(GivenBack).merges, generation.next, generation.upTo)
<1> DEFINE new == GivenBack
           told == NewEvents(new).merges
<1>1. /\ MergesKnown(generation.merges, generation.next, generation.upTo)
      /\ DOMAIN eventsDoc.recs \in SUBSET CharacterIds
      /\ generation.next \in Nat /\ eventsDoc.next \in Nat /\ eventsDoc.next <= generation.next
      /\ \A i \in DOMAIN eventsDoc.recs : i \in Nat /\ i < eventsDoc.next
      /\ generation.merges \in SUBSET Merges /\ MergesGoOn
  BY SavesWell DEF HistoryBatches, Saves
<1>2. \A p \in DOMAIN new : new[p] \in CharacterIds /\ new[p] < generation.next
  BY <1>1, SaveGivesBack
<1>3. \A e \in told : \E d \in generation.merges :
        /\ d.at = e.at
        /\ \/ e.source = As(new, d.source) /\ e.target = As(new, d.target)
           \/ e = d /\ d \in Early
  BY <1>2, ToldAre
<1> HIDE DEF new, told
<1>4. ASSUME NEW e \in told PROVE e.at <= generation.upTo /\ \A i \in Ends(e) : i < generation.next
  <2>1. PICK d \in generation.merges :
          /\ d.at = e.at
          /\ \/ e.source = As(new, d.source) /\ e.target = As(new, d.target)
             \/ e = d /\ d \in Early
    BY <1>3
  <2>2. d.at <= generation.upTo /\ d.source < generation.next /\ d.target < generation.next
    BY <1>1 DEF MergesKnown, Ends
  <2>3. As(new, d.source) < generation.next /\ As(new, d.target) < generation.next
    BY <1>2, <2>2 DEF As
  <2> QED BY <2>1, <2>2, <2>3 DEF Ends
<1> QED BY <1>4 DEF MergesKnown, told, new

\* Whom the ids of a document stand for are among its records.
LEMMA StandInsAre ==
  ASSUME NEW doc, doc.recs \in Records, NEW c \in StandIns(doc)
  PROVE  c.id \in DOMAIN doc.recs /\ c.keys \in SUBSET Names
<1>1. PICK b \in 0..doc.frontier :
        c \in {[id |-> i, keys |-> KeysOf(Merged(doc.recs, IntoAt(doc.merges, b))[i])] :
                i \in DOMAIN Merged(doc.recs, IntoAt(doc.merges, b))}
  BY DEF StandIns
<1> DEFINE into == IntoAt(doc.merges, b)
           all == Merged(doc.recs, into)
<1>2. PICK i \in DOMAIN all : c = [id |-> i, keys |-> KeysOf(all[i])]
  BY <1>1
<1> HIDE DEF into
<1>3. all \in Records /\ i \in DOMAIN doc.recs
  BY MergedWithin, MergedAre
<1> HIDE DEF all
<1>4. all[i].names \in SUBSET Namings
  BY <1>2, <1>3, RecordsAre, PersonsAre
<1>5. KeysOf(all[i]) \in SUBSET Names
  BY <1>4 DEF KeysOf, Namings
<1> QED BY <1>2, <1>3, <1>5

\* What is saved is a history, of ids that stood for whom it shows.
LEMMA HistorySaves ==
  ASSUME IdentityInv, HistoryInv, SaveEvents
  PROVE  HistoryInv'
<1>1. Saves
  BY DEF Saves, IdentityInv, SaveEvents
<1> DEFINE new == GivenBack
           doc == NewEvents(new)
           now == StandIns(doc)
<1>2. /\ eventsDoc' = doc /\ generation'.stage = "profile"
      /\ called' = [i \in CharacterIds |-> called[i] \cup UNION {c.keys : c \in {d \in StandIns(eventsDoc') : d.id = i}}]
  BY DEF SaveEvents, IdentityInv, GenInv, Generations
<1>3. called' = [i \in CharacterIds |-> called[i] \cup UNION {c.keys : c \in {d \in now : d.id = i}}]
  <2> HIDE DEF doc
  <2> QED BY <1>2
<1>4. /\ \A p \in DOMAIN new : new[p] \in CharacterIds /\ new[p] \in DOMAIN eventsDoc.recs
      /\ DOMAIN new \subseteq DOMAIN generation.recs
  <2>1. DOMAIN eventsDoc.recs \in SUBSET CharacterIds
    BY <1>1, SavesWell
  <2> QED BY <1>1, <2>1, SaveGivesBack
<1>5. /\ doc.recs \in Records /\ doc.frontier = generation.upTo /\ doc.next = generation.next
      /\ \A i \in UsedIds(doc) : i < doc.next
  BY <1>1, <1>4, NewEventsTell DEF Saves
<1>6. /\ Rooted(doc.recs) /\ MergesFit(doc.merges, doc.recs)
      /\ MergesKnown(doc.merges, generation.next, generation.upTo)
      /\ Kept(doc.merges) = doc.merges
  BY <1>1, <1>4, SavedRooted, SavedFits, SavedKnown, ToldAre
<1>7. /\ called \in [CharacterIds -> SUBSET Names]
      /\ \A i \in CharacterIds : called[i] # {} => i < eventsDoc.next
      /\ eventsDoc.next \in Nat /\ generation.next \in Nat /\ eventsDoc.next <= generation.next
  BY <1>1, SavesWell DEF HistoryDoc
<1> HIDE DEF doc, new
<1>8. \A c \in now : c.id \in DOMAIN doc.recs /\ c.keys \in SUBSET Names
  BY <1>5, StandInsAre
<1>9. DOMAIN doc.recs \in SUBSET CharacterIds /\ \A i \in DOMAIN doc.recs : i < generation.next
  BY <1>5, RecordsAre DEF UsedIds
<1> HIDE DEF now
<1>10. called' \in [CharacterIds -> SUBSET Names]
  BY <1>3, <1>7, <1>8
<1>11. ASSUME NEW i \in CharacterIds, called'[i] # {} PROVE i < generation.next
  <2>1. called[i] # {} \/ \E c \in now : c.id = i
    BY <1>3, <1>11
  <2>2. CASE called[i] # {}
    BY <1>7, <2>2, IdsAreCounted
  <2>3. CASE \E c \in now : c.id = i
    BY <1>8, <1>9, <2>3
  <2> QED BY <2>1, <2>2, <2>3
<1>12. \A c \in now : c.keys \subseteq called'[c.id]
  BY <1>3, <1>8, <1>9
<1>13. HistoryDoc'
  BY <1>2, <1>5, <1>6, <1>10, <1>11, <1>12 DEF HistoryDoc, now
<1> QED BY <1>2, <1>13 DEF HistoryInv

\* Every action keeps the history.
LEMMA HistoryIsKept ==
  ASSUME IdentityInv, HistoryInv, [CharacterNext]_identity
  PROVE  HistoryInv'
<1>1. CASE UNCHANGED identity
  BY <1>1, HistoryIdles DEF identity
<1>2. ASSUME NEW from \in 1..Episodes, NEW upTo \in 1..Episodes, BeginGeneration(from, upTo) PROVE HistoryInv'
  BY <1>2, HistoryBegins
<1>3. ASSUME NEW name \in Names, FindCharacter(name) PROVE HistoryInv'
  BY <1>3, HistoryFindsCharacter
<1>4. ASSUME NEW i \in CharacterIds, NEW name \in Names, FindName(i, name) PROVE HistoryInv'
  BY <1>4, HistoryFindsName
<1>5. ASSUME NEW s \in CharacterIds, NEW t \in CharacterIds, ProposeMerge(s, t) PROVE HistoryInv'
  BY <1>5, HistoryProposes
<1>6. ASSUME NEW ids \in SUBSET CharacterIds, ClusterMerge(ids) PROVE HistoryInv'
  BY <1>6, HistoryClusters
<1>7. CASE NextEpisode
  BY <1>7, HistoryMovesOn
<1>8. CASE Abandon
  BY <1>8, HistoryIdles DEF Abandon, KeepsDocs
<1>9. CASE SaveEvents
  BY <1>9, HistorySaves
<1>10. CASE SaveProfile \/ CrashBetween
  BY <1>10, HistoryIdles DEF SaveProfile, CrashBetween
<1>11. CASE LoseProfile
  BY <1>11, HistoryIdles DEF LoseProfile
<1>12. ASSUME NEW b \in 1..Episodes, Read(b) PROVE HistoryInv'
  BY <1>12, HistoryIdles DEF Read
<1> QED BY <1>1, <1>2, <1>3, <1>4, <1>5, <1>6, <1>7, <1>8, <1>9, <1>10, <1>11, <1>12 DEF CharacterNext

\* The second invariant, with the first: the document is a history, and a generation
\* under way goes on from it.
THEOREM HistoryInductive == CharacterSpec => [](IdentityInv /\ HistoryInv)
<1>1. CharacterInit => IdentityInv /\ HistoryInv
  BY IdentityStarts, HistoryStarts
<1>2. IdentityInv /\ HistoryInv /\ [CharacterNext]_identity => IdentityInv' /\ HistoryInv'
  BY IdentityIsKept, HistoryIsKept
<1> QED BY <1>1, <1>2, PTL DEF CharacterSpec

-----------------------------------------------------------------------------
(* What a save that gives no id back shows *)

\* Where everybody stands for himself, merging changes nothing.
LEMMA MergedAlone ==
  ASSUME NEW recs \in Records, NEW into, \A i \in DOMAIN recs : Survivor(recs, into, i) = i
  PROVE  Merged(recs, into) = recs
<1> DEFINE M == Merged(recs, into)
<1>1. DOMAIN M = DOMAIN recs /\ M \in Records
  BY MergedWithin
<1>2. ASSUME NEW k \in DOMAIN recs PROVE M[k] = recs[k]
  <2>1. k \in DOMAIN M
    BY <1>1
  <2>2. \A n : n \in M[k].names <=> \E i \in DOMAIN recs : Survivor(recs, into, i) = k /\ n \in recs[i].names
    BY <2>1, MergedAre
  <2>3. \E i \in DOMAIN recs : Survivor(recs, into, i) = k /\ M[k].first = recs[i].first
    BY <2>1, MergedAre
  <2>4. M[k].first = recs[k].first
    BY <2>3
  <2>5. M[k].names = recs[k].names
    BY <2>2
  <2>6. M[k] \in Persons /\ recs[k] \in Persons
    BY <1>1, RecordsAre
  <2> HIDE DEF M
  <2> QED BY <2>4, <2>5, <2>6 DEF Persons
<1>3. M = [k \in DOMAIN M |-> M[k]] /\ recs = [k \in DOMAIN recs |-> recs[k]]
  BY <1>1, RecordsAre
<1> HIDE DEF M
<1>4. M = recs
  BY <1>1, <1>2, <1>3
<1> QED BY <1>4 DEF M

\* Existing records that have no name of their own, and are there, add nothing.
LEMMA LiveIsRaw ==
  ASSUME NEW raw \in Records, NEW existing \in Records, NEW told,
         \A i \in DOMAIN raw : i \in DOMAIN existing => existing[i].names \subseteq raw[i].names,
         \A i \in DOMAIN existing : i \in Sources(told) => i \in DOMAIN raw
  PROVE  Preserved(WithNames(raw, existing), told, existing) = raw
<1> DEFINE W == WithNames(raw, existing)
<1>1. raw = [i \in DOMAIN raw |-> raw[i]]
  BY RecordsAre
<1>2. ASSUME NEW i \in DOMAIN raw PROVE W[i] = raw[i]
  <2>1. CASE i \in DOMAIN existing
    <3>1. W[i] = [names |-> raw[i].names \cup existing[i].names, first |-> raw[i].first]
      BY <2>1 DEF WithNames
    <3>2. raw[i].names \cup existing[i].names = raw[i].names
      BY <2>1
    <3>3. raw[i] \in Persons
      BY RecordsAre
    <3> QED BY <3>1, <3>2, <3>3 DEF Persons
  <2>2. CASE i \notin DOMAIN existing
    BY <2>2 DEF WithNames
  <2> QED BY <2>1, <2>2
<1>3. W = [i \in DOMAIN raw |-> W[i]]
  BY DEF WithNames
<1> HIDE DEF W
<1>4. W = raw
  BY <1>1, <1>2, <1>3
<1> DEFINE more == {e.source : e \in told} \cap (DOMAIN existing \ DOMAIN raw)
<1>5. more = {}
  BY DEF Sources
<1>6. Preserved(raw, told, existing) = [i \in DOMAIN raw \cup more |-> IF i \in DOMAIN raw THEN raw[i] ELSE existing[i]]
  BY DEF Preserved
<1> HIDE DEF more
<1>7. Preserved(raw, told, existing) = raw
  BY <1>1, <1>5, <1>6
<1> QED BY <1>4, <1>7 DEF W

\* Where no id is given back, renumbering changes nothing.
LEMMA NothingRenumbered ==
  ASSUME NEW recs \in Records, NEW merges \in SUBSET Merges, NEW new, DOMAIN new = {}
  PROVE  RenumberedRecs(recs, new) = recs /\ RenumberedMerges(merges, new) = Kept(merges)
<1>1. \A i : As(new, i) = i
  BY DEF As
<1> DEFINE R == RenumberedRecs(recs, new)
<1>2. R \in Records /\ DOMAIN R = DOMAIN recs
  <2>1. R \in Records /\ DOMAIN R = {As(new, i) : i \in DOMAIN recs}
    BY RenumberedTells
  <2> QED BY <1>1, <2>1
<1>3. ASSUME NEW k \in DOMAIN recs PROVE R[k] = recs[k]
  <2>1. k \in DOMAIN R
    BY <1>2
  <2>2. /\ \A n : n \in R[k].names <=> \E i \in DOMAIN recs : As(new, i) = k /\ n \in recs[i].names
        /\ \E i \in DOMAIN recs : As(new, i) = k /\ R[k].first = recs[i].first
    BY <2>1, RenumberedAre
  <2>3. R[k].names = recs[k].names /\ R[k].first = recs[k].first
    BY <1>1, <2>2
  <2>4. R[k] \in Persons /\ recs[k] \in Persons
    BY <1>2, RecordsAre
  <2> HIDE DEF R
  <2> QED BY <2>3, <2>4 DEF Persons
<1>4. R = [k \in DOMAIN R |-> R[k]] /\ recs = [k \in DOMAIN recs |-> recs[k]]
  BY <1>2, RecordsAre
<1> HIDE DEF R
<1>5. R = recs
  BY <1>2, <1>3, <1>4
<1> DEFINE T == {[source |-> As(new, e.source), target |-> As(new, e.target), at |-> e.at] : e \in merges}
<1>6. T = merges
  <2>1. \A e \in merges : [source |-> As(new, e.source), target |-> As(new, e.target), at |-> e.at] = e
    BY <1>1 DEF Merges
  <2> QED BY <2>1
<1>7. RenumberedMerges(merges, new) = Kept(T)
  BY DEF RenumberedMerges
<1> QED BY <1>5, <1>6, <1>7 DEF R

\* A record that nobody replaced, or whose new id nobody has, is as it was.
LEMMA ExistingIsBase ==
  ASSUME Saves, ~Haunted
  PROVE  LET new == GivenBack IN
         (\A p \in DOMAIN new : new[p] \notin DOMAIN Base) => Existing(new) = Base
<1> DEFINE new == GivenBack
           gone == Replaced(new)
           raw == RenumberedRecs(generation.recs, new)
           retired == Retired(eventsDoc, DOMAIN raw, new)
<1> SUFFICES ASSUME \A p \in DOMAIN new : new[p] \notin DOMAIN Base PROVE Existing(new) = Base
  OBVIOUS
<1>1. /\ \A p \in DOMAIN new : /\ new[p] \in DOMAIN eventsDoc.recs /\ new[p] \in Nat /\ new[p] # Nobody
                               /\ new[p] \notin DOMAIN new
      /\ DOMAIN eventsDoc.recs \in SUBSET CharacterIds /\ Base \in Records
  <2>1. DOMAIN eventsDoc.recs \in SUBSET CharacterIds /\ Base \in Records
    BY SavesWell
  <2>2. \A p \in DOMAIN new : new[p] \in DOMAIN eventsDoc.recs /\ new[p] \notin DOMAIN new
    BY SaveGivesBack
  <2>3. \A i \in CharacterIds : i \in Nat /\ i # Nobody
    BY IdsAreCounted DEF Nobody
  <2> QED BY <2>1, <2>2, <2>3
<1>2. /\ gone = [i \in {j \in DOMAIN retired : retired[j] # Nobody} |-> retired[i]]
      /\ \A i \in DOMAIN retired : retired[i] = IF i \in DOMAIN new THEN new[i]
           ELSE IF i \in DOMAIN eventsDoc.retired THEN eventsDoc.retired[i] ELSE Nobody
      /\ DOMAIN new \subseteq DOMAIN retired
  BY DEF Replaced, Retired
<1> HIDE DEF gone, retired, new
<1>3. \A i \in DOMAIN new : i \in DOMAIN gone /\ gone[i] = new[i]
  BY <1>1, <1>2
<1>4. \A i \in DOMAIN eventsDoc.recs : i \notin DOMAIN new => i \notin DOMAIN gone
  BY <1>2 DEF Haunted
<1>5. ASSUME NEW i \in DOMAIN Base PROVE Survivor(Base, gone, i) = i
  <2>1. i \in DOMAIN eventsDoc.recs
    BY BaseIs
  <2>2. CASE i \notin DOMAIN new
    BY <1>4, <2>1, <2>2, StandsStays DEF Survivor
  <2>3. CASE i \in DOMAIN new
    <3> DEFINE C == {i, new[i]}
    <3>1. new[i] \notin DOMAIN gone
      BY <1>1, <1>4, <2>3
    <3>2. i \in C /\ \A j \in C : Onward(gone, j) \in C
      BY <1>3, <2>3, <3>1 DEF Onward
    <3> HIDE DEF C
    <3>3. Way(gone, i) \in [0..Last -> C]
      BY <3>2, WayStaysIn
    <3>4. Stands(gone, i) \in C
      BY <3>3, IdsAreCounted DEF Stands, Last
    <3>5. new[i] \notin DOMAIN Base
      BY <2>3 DEF new
    <3> QED BY <3>4, <3>5 DEF C, Survivor
  <2> QED BY <2>2, <2>3
<1>6. Merged(Base, gone) = Base
  BY <1>1, <1>5, MergedAlone
<1> QED BY <1>6 DEF Existing, gone, new

\* A save that gives no id back tells the merges of the generation.
LEMMA PlainTold ==
  ASSUME Saves, DOMAIN GivenBack = {}
  PROVE  NewEvents(GivenBack).merges = generation.merges
<1> DEFINE new == GivenBack
<1>1. /\ generation.merges \in SUBSET Merges /\ generation.recs \in Records
      /\ Kept(generation.merges) = generation.merges /\ MergesGoOn
  BY SavesWell DEF HistoryBatches
<1>2. RenumberedMerges(generation.merges, new) = Kept(generation.merges)
  BY <1>1, NothingRenumbered
<1>3. generation.merges \cup Early = generation.merges
  <2>1. \A e \in Early : e \in {d \in generation.merges : d.at < generation.from}
    BY <1>1 DEF Early, MergesGoOn
  <2> QED BY <2>1
<1> QED BY <1>1, <1>2, <1>3, SaveTells

\* It writes what the generation has, if nobody was replaced before.
LEMMA PlainSave ==
  ASSUME Saves, DOMAIN GivenBack = {}, ~Haunted
  PROVE  NewEvents(GivenBack).recs = generation.recs
<1> DEFINE new == GivenBack
           told == NewEvents(new).merges
<1>1. generation.recs \in Records /\ Base \in Records /\ generation.merges \in SUBSET Merges
  BY SavesWell
<1>2. RenumberedRecs(generation.recs, new) = generation.recs
  BY <1>1, NothingRenumbered
<1>3. Existing(new) = Base
  BY ExistingIsBase
<1>4. \A i \in DOMAIN Base : i \in DOMAIN generation.recs /\ Base[i].names \subseteq generation.recs[i].names
  BY BaseIs
<1>5. NewEvents(new).recs = Preserved(WithNames(generation.recs, Base), told, Base)
  BY <1>2, <1>3, SaveTells
<1> HIDE DEF told
<1>6. Preserved(WithNames(generation.recs, Base), told, Base) = generation.recs
  BY <1>1, <1>4, LiveIsRaw
<1> QED BY <1>5, <1>6

IsEnd(into, i) == i \in DOMAIN into \/ \E s \in DOMAIN into : into[s] = i

\* Two histories go on from the same records, and differ only after boundary b;
\* the merges a reader at b knows are among those records.
SameUpTo(old, now, both, into, b) ==
  /\ \A i \in both : /\ i \in DOMAIN old /\ i \in DOMAIN now /\ old[i].first = now[i].first
                     /\ \A n : n.at <= b => (n \in old[i].names <=> n \in now[i].names)
  /\ \A i \in DOMAIN old : i \notin both => ~(old[i].first <= b) /\ ~IsEnd(into, i)
  /\ \A i \in DOMAIN now : i \notin both => ~(now[i].first <= b) /\ ~IsEnd(into, i)

\* Whoever of them is there at b stands for the same records in both.
LEMMA SurvivorsAgree ==
  ASSUME NEW old \in Records, NEW now \in Records, NEW both, NEW into, NEW b \in Nat,
         SameUpTo(old, now, both, into, b)
  PROVE  /\ \A i \in both : Survivor(old, into, i) = Survivor(now, into, i) /\ Survivor(old, into, i) \in both
         /\ \A i \in DOMAIN old : i \notin both => Survivor(old, into, i) = i
         /\ \A i \in DOMAIN now : i \notin both => Survivor(now, into, i) = i
<1>1. \A i : Stands(into, i) = i \/ IsEnd(into, Stands(into, i))
  BY StandsAtAnEnd DEF IsEnd
<1>2. \A i : ~IsEnd(into, i) => Stands(into, i) = i
  BY StandsStays DEF IsEnd
<1>3. /\ \A i \in both : i \in DOMAIN old /\ i \in DOMAIN now
      /\ \A i \in DOMAIN old : IsEnd(into, i) => i \in both
      /\ \A i \in DOMAIN now : IsEnd(into, i) => i \in both
      /\ \A i \in DOMAIN old : i \notin both => ~IsEnd(into, i)
      /\ \A i \in DOMAIN now : i \notin both => ~IsEnd(into, i)
  BY DEF SameUpTo
<1>4. \A i \in both : Survivor(old, into, i) = Survivor(now, into, i) /\ Survivor(old, into, i) \in both
  BY <1>1, <1>3 DEF Survivor
<1> QED BY <1>2, <1>3, <1>4 DEF Survivor

\* So whoever is shown in one at b is shown in the other.
LEMMA ShownAlike ==
  ASSUME NEW old \in Records, NEW now \in Records, NEW both, NEW into, NEW b \in Nat,
         SameUpTo(old, now, both, into, b),
         NEW k \in DOMAIN Merged(old, into), Merged(old, into)[k].first <= b
  PROVE  /\ k \in DOMAIN Merged(now, into) /\ Merged(now, into)[k].first = Merged(old, into)[k].first
         /\ \A n : n.at <= b => (n \in Merged(old, into)[k].names <=> n \in Merged(now, into)[k].names)
<1> DEFINE O == Merged(old, into)
           N == Merged(now, into)
<1>1. /\ k \in DOMAIN old /\ Survivor(old, into, k) = k
      /\ \A n : n \in O[k].names <=> \E i \in DOMAIN old : Survivor(old, into, i) = k /\ n \in old[i].names
      /\ \A i \in DOMAIN old : Survivor(old, into, i) = k => O[k].first <= old[i].first
  BY MergedAre
<1>2. PICK i \in DOMAIN old : Survivor(old, into, i) = k /\ O[k].first = old[i].first
  BY MergedAre
<1>3. /\ \A j \in both : Survivor(old, into, j) = Survivor(now, into, j) /\ Survivor(old, into, j) \in both
      /\ \A j \in DOMAIN old : j \notin both => Survivor(old, into, j) = j
      /\ \A j \in DOMAIN now : j \notin both => Survivor(now, into, j) = j
  BY SurvivorsAgree
<1>4. /\ \A j \in both : /\ j \in DOMAIN old /\ j \in DOMAIN now /\ old[j].first = now[j].first
                         /\ \A n : n.at <= b => (n \in old[j].names <=> n \in now[j].names)
      /\ \A j \in DOMAIN old : j \notin both => ~(old[j].first <= b)
  BY DEF SameUpTo
<1>5. i \in both /\ k \in both
  BY <1>2, <1>3, <1>4
<1>6. k \in DOMAIN N
  <2>1. k \in DOMAIN now /\ Survivor(now, into, k) = k
    BY <1>1, <1>3, <1>4, <1>5
  <2> QED BY <2>1, MergedWithin
<1>7. /\ \A n : n \in N[k].names <=> \E j \in DOMAIN now : Survivor(now, into, j) = k /\ n \in now[j].names
      /\ \A j \in DOMAIN now : Survivor(now, into, j) = k => N[k].first <= now[j].first
  BY <1>6, MergedAre
<1>8. PICK j \in DOMAIN now : Survivor(now, into, j) = k /\ N[k].first = now[j].first
  BY <1>6, MergedAre
<1>9. O[k].first \in Nat /\ N[k].first \in Nat
  <2>1. O \in Records /\ N \in Records
    BY MergedWithin
  <2> HIDE DEF O, N
  <2>2. k \in DOMAIN O
    BY DEF O
  <2> QED BY <1>6, <2>1, <2>2, RecordsAre, PersonsAre
<1> HIDE DEF O, N
<1>10. j \in both
  BY <1>3, <1>5, <1>8
<1>11. N[k].first <= O[k].first /\ O[k].first <= N[k].first
  <2>1. N[k].first <= now[i].first /\ now[i].first = old[i].first
    BY <1>2, <1>3, <1>4, <1>5, <1>7
  <2>2. O[k].first <= old[j].first /\ now[j].first = old[j].first
    BY <1>1, <1>3, <1>4, <1>8, <1>10
  <2> QED BY <1>2, <1>8, <2>1, <2>2
<1>12. ASSUME NEW n, n.at <= b PROVE n \in O[k].names <=> n \in N[k].names
  <2>1. ASSUME n \in O[k].names PROVE n \in N[k].names
    <3>1. PICK m \in DOMAIN old : Survivor(old, into, m) = k /\ n \in old[m].names
      BY <1>1, <2>1
    <3>2. m \in both
      BY <1>3, <1>5, <3>1
    <3> QED BY <1>3, <1>4, <1>7, <1>12, <3>1, <3>2
  <2>2. ASSUME n \in N[k].names PROVE n \in O[k].names
    <3>1. PICK m \in DOMAIN now : Survivor(now, into, m) = k /\ n \in now[m].names
      BY <1>7, <2>2
    <3>2. m \in both
      BY <1>3, <1>5, <3>1
    <3> QED BY <1>1, <1>3, <1>4, <1>12, <3>1, <3>2
  <2> QED BY <2>1, <2>2
<1> QED BY <1>6, <1>9, <1>11, <1>12 DEF O, N

\* Two such documents show a reader at b the same.
LEMMA SameShown ==
  ASSUME NEW old, NEW now, old.recs \in Records, now.recs \in Records,
         NEW both, NEW b \in Nat, old.frontier \in Nat, now.frontier \in Nat,
         b <= old.frontier, b <= now.frontier,
         IntoAt(old.merges, b) = IntoAt(now.merges, b),
         SameUpTo(old.recs, now.recs, both, IntoAt(old.merges, b), b)
  PROVE  ShownAt(now, b) = ShownAt(old, b)
<1> DEFINE into == IntoAt(old.merges, b)
           O == Merged(old.recs, into)
           N == Merged(now.recs, into)
<1>1. Earlier(b, old.frontier) = b /\ Earlier(b, now.frontier) = b
  BY DEF Earlier
<1>2. /\ ShownAt(old, b) = {[id |-> i, names |-> {n \in O[i].names : n.at <= b}] : i \in {j \in DOMAIN O : O[j].first <= b}}
      /\ ShownAt(now, b) = {[id |-> i, names |-> {n \in N[i].names : n.at <= b}] : i \in {j \in DOMAIN N : N[j].first <= b}}
  BY <1>1 DEF ShownAt
<1> DEFINE x == old.recs
           y == now.recs
<1>3. x \in Records /\ y \in Records /\ SameUpTo(x, y, both, into, b) /\ SameUpTo(y, x, both, into, b)
  BY DEF SameUpTo
<1> HIDE DEF x, y, into
<1>4. ASSUME NEW k \in DOMAIN Merged(x, into), Merged(x, into)[k].first <= b
      PROVE  /\ k \in DOMAIN Merged(y, into) /\ Merged(y, into)[k].first = Merged(x, into)[k].first
             /\ \A n : n.at <= b => (n \in Merged(x, into)[k].names <=> n \in Merged(y, into)[k].names)
  BY <1>3, <1>4, ShownAlike
<1>5. ASSUME NEW k \in DOMAIN Merged(y, into), Merged(y, into)[k].first <= b
      PROVE  k \in DOMAIN Merged(x, into) /\ Merged(x, into)[k].first = Merged(y, into)[k].first
  BY <1>3, <1>5, ShownAlike
<1> USE DEF x, y
<1> HIDE DEF O, N
<1>6. ASSUME NEW k \in DOMAIN O, O[k].first <= b
      PROVE  /\ k \in DOMAIN N /\ N[k].first <= b
             /\ {n \in O[k].names : n.at <= b} = {n \in N[k].names : n.at <= b}
  <2>1. /\ k \in DOMAIN N /\ N[k].first = O[k].first
        /\ \A n : n.at <= b => (n \in O[k].names <=> n \in N[k].names)
    BY <1>4, <1>6 DEF O, N
  <2> QED BY <1>6, <2>1
<1>7. ASSUME NEW k \in DOMAIN N, N[k].first <= b PROVE k \in DOMAIN O /\ O[k].first <= b
  BY <1>5, <1>7 DEF O, N
<1> HIDE DEF x, y
<1>8. {j \in DOMAIN O : O[j].first <= b} = {j \in DOMAIN N : N[j].first <= b}
  BY <1>6, <1>7
<1> DEFINE D == {j \in DOMAIN O : O[j].first <= b}
<1>9. \A i \in D : {n \in O[i].names : n.at <= b} = {n \in N[i].names : n.at <= b}
  BY <1>6
<1>10. /\ ShownAt(old, b) = {[id |-> i, names |-> {n \in O[i].names : n.at <= b}] : i \in D}
       /\ ShownAt(now, b) = {[id |-> i, names |-> {n \in N[i].names : n.at <= b}] : i \in D}
  BY <1>2, <1>8
<1> HIDE DEF D
<1> QED BY <1>9, <1>10

\* Only the ends of merges are ends.
LEMMA EndsAre ==
  ASSUME NEW told \in SUBSET Merges, NEW i, IsEnd(Into(told), i)
  PROVE  \E e \in told : i \in Ends(e)
<1> DEFINE into == Into(told)
<1>1. /\ into \in [Sources(told) -> CharacterIds]
      /\ \A s \in Sources(told) : \E e \in told : e.source = s /\ into[s] = e.target
  BY IntoIsLastWord DEF LastWord
<1> HIDE DEF into
<1>2. DOMAIN into = Sources(told)
  BY <1>1
<1>3. IsEnd(into, i)
  BY DEF into
<1>4. CASE i \in DOMAIN into
  BY <1>1, <1>2, <1>4 DEF Ends
<1>5. CASE \E s \in DOMAIN into : into[s] = i
  BY <1>1, <1>2, <1>5 DEF Ends
<1> QED BY <1>3, <1>4, <1>5 DEF IsEnd

\* A save that gives no id back shows a reader before its first episode what he saw.
LEMMA SaveKeepsEarlier ==
  ASSUME Saves, DOMAIN GivenBack = {}, ~Haunted, NEW b \in 1..(generation.from - 1)
  PROVE  ShownAt(NewEvents(GivenBack), b) = ShownAt(eventsDoc, b)
<1> DEFINE old == eventsDoc
           now == NewEvents(GivenBack)
           both == DOMAIN Base
           early == {e \in old.merges : e.at <= b}
<1>1. /\ old.recs \in Records /\ old.merges \in SUBSET Merges /\ generation.recs \in Records
      /\ generation.merges \in SUBSET Merges /\ Base \in Records
      /\ old.frontier \in Nat /\ generation.from \in Nat /\ generation.upTo \in Nat
      /\ generation.from <= generation.upTo /\ generation.from <= old.frontier + 1
      /\ MergesGoOn /\ Kept(generation.merges) = generation.merges /\ Kept(old.merges) = old.merges
  BY SavesWell, IdsAreCounted DEF HistoryBatches, HistoryDoc
<1>2. /\ now.recs = generation.recs /\ now.merges = generation.merges /\ now.frontier = generation.upTo
  BY PlainSave, PlainTold, SaveTells
<1>3. b \in Nat /\ b < generation.from /\ b <= old.frontier /\ b <= now.frontier
  BY <1>1, <1>2
<1>4. {e \in generation.merges : e.at <= b} = early
  <2>1. \A e \in Merges : e.at <= b => e.at < generation.from
    BY <1>1, <1>3, IdsAreCounted DEF Merges
  <2>2. \A e \in Merges : e.at <= b => (e \in generation.merges <=> e \in old.merges)
    BY <2>1, <1>1 DEF MergesGoOn
  <2> QED BY <1>1, <2>2
<1>5. IntoAt(old.merges, b) = Into(early) /\ IntoAt(now.merges, b) = Into(early)
  BY <1>1, <1>2, <1>4 DEF IntoAt
<1>6. ASSUME NEW i, IsEnd(Into(early), i)
      PROVE  (i \in DOMAIN old.recs => i \in both) /\ (i \in DOMAIN generation.recs => i \in both)
  <2>1. early \in SUBSET Merges
    BY <1>1
  <2>2. PICK e \in early : i \in Ends(e)
    BY <1>6, <2>1, EndsAre
  <2>3. e \in eventsDoc.merges /\ e.at < generation.from
    BY <1>1, <1>3, <2>2, IdsAreCounted DEF Merges
  <2> QED BY <2>2, <2>3, EarlyEnds
<1>7. ASSUME NEW i \in both
      PROVE  /\ i \in DOMAIN old.recs /\ i \in DOMAIN generation.recs
             /\ old.recs[i].first = generation.recs[i].first
             /\ \A n : n.at <= b => (n \in old.recs[i].names <=> n \in generation.recs[i].names)
  <2>1. /\ i \in DOMAIN old.recs /\ Base[i].first = old.recs[i].first
        /\ Base[i].names = {n \in old.recs[i].names : n.at < generation.from}
        /\ i \in DOMAIN generation.recs /\ generation.recs[i].first = Base[i].first
        /\ Base[i].names = {n \in generation.recs[i].names : n.at < generation.from}
    BY BaseIs
  <2>2. old.recs[i].names \in SUBSET Namings /\ generation.recs[i].names \in SUBSET Namings
    BY <1>1, <2>1, RecordsAre, PersonsAre
  <2>3. \A n \in Namings : n.at <= b => n.at < generation.from
    BY <1>1, <1>3, IdsAreCounted DEF Namings
  <2>4. \A n \in Namings : n.at < generation.from => (n \in old.recs[i].names <=> n \in generation.recs[i].names)
    BY <2>1
  <2> QED BY <2>1, <2>2, <2>3, <2>4
<1>8. ASSUME NEW i \in DOMAIN old.recs, i \notin both PROVE ~(old.recs[i].first <= b)
  <2>1. ~(old.recs[i].first < generation.from)
    BY <1>8, BaseIs
  <2>2. old.recs[i].first \in Nat
    BY <1>1, RecordsAre, PersonsAre
  <2> QED BY <1>1, <1>3, <2>1, <2>2
<1>9. ASSUME NEW i \in DOMAIN generation.recs, i \notin both PROVE ~(generation.recs[i].first <= b)
  <2>1. generation.recs[i].first >= generation.from
    BY <1>9, BaseIs
  <2>2. generation.recs[i].first \in Nat
    BY <1>1, RecordsAre, PersonsAre
  <2> QED BY <1>1, <1>3, <2>1, <2>2
<1> HIDE DEF early, both
<1>10. SameUpTo(old.recs, generation.recs, both, Into(early), b)
  BY <1>6, <1>7, <1>8, <1>9 DEF SameUpTo
<1> HIDE DEF now
<1>11. SameUpTo(old.recs, now.recs, both, IntoAt(old.merges, b), b) /\ IntoAt(old.merges, b) = IntoAt(now.merges, b)
  BY <1>2, <1>5, <1>10
<1>12. ShownAt(now, b) = ShownAt(old, b)
  BY <1>1, <1>2, <1>3, <1>11, SameShown
<1> QED BY <1>12 DEF now

\* The events change in a save alone.
LEMMA OnlySavesWrite ==
  ASSUME IdentityInv, HistoryInv, [CharacterNext]_identity, eventsDoc' # eventsDoc
  PROVE  Saves /\ eventsDoc' = NewEvents(GivenBack)
<1>1. SaveEvents
  BY DEF CharacterNext, identity, BeginGeneration, FindCharacter, FindName, ProposeMerge, ClusterMerge,
         NextEpisode, Abandon, KeepsDocs, SaveProfile, CrashBetween, LoseProfile, Read
<1> QED BY <1>1 DEF SaveEvents, Saves, IdentityInv

\* What later episodes reveal changes nothing for readers who are not there yet,
\* unless ids are given back.
THEOREM LaterStaysLater == CharacterSpec => EarlierStaysHidden
<1> DEFINE Step == eventsDoc' # eventsDoc /\ ~Renumbering /\ ~Haunted =>
             \A b \in 1..(generation.from - 1) : ShownAt(eventsDoc', b) = ShownAt(eventsDoc, b)
<1>1. IdentityInv /\ HistoryInv /\ [CharacterNext]_identity => Step
  <2> SUFFICES ASSUME IdentityInv, HistoryInv, [CharacterNext]_identity, eventsDoc' # eventsDoc,
                      ~Renumbering, ~Haunted, NEW b \in 1..(generation.from - 1)
               PROVE  ShownAt(eventsDoc', b) = ShownAt(eventsDoc, b)
    OBVIOUS
  <2>1. Saves /\ eventsDoc' = NewEvents(GivenBack)
    BY OnlySavesWrite
  <2>2. ShownAt(NewEvents(GivenBack), b) = ShownAt(eventsDoc, b)
    BY <2>1, SaveKeepsEarlier DEF Renumbering
  <2> QED BY <2>1, <2>2
<1>2. IdentityInv /\ HistoryInv /\ [CharacterNext]_identity => [Step]_identity
  BY <1>1
<1> QED BY <1>2, HistoryInductive, PTL DEF CharacterSpec, EarlierStaysHidden

-----------------------------------------------------------------------------
(* What a save that gives ids back shows *)

\* Nobody is merged twice.
Plain(merges) == \A d, e \in merges : d.source = e.source => d = e

\* Then every merge is its source's last word.
LEMMA PlainInto ==
  ASSUME NEW merges \in SUBSET Merges, Plain(merges)
  PROVE  /\ DOMAIN Into(merges) = Sources(merges)
         /\ \A e \in merges : e.source \in Sources(merges) /\ Into(merges)[e.source] = e.target
         /\ \A s \in Sources(merges) : \E e \in merges : e.source = s /\ Into(merges)[s] = e.target
<1>1. \A e \in merges : LastWord(merges, e)
  BY DEF Plain, LastWord
<1>2. /\ Into(merges) \in [Sources(merges) -> CharacterIds]
      /\ \A e \in merges : Into(merges)[e.source] = e.target
  BY <1>1, IntoIsLastWord
<1>3. \A e \in merges : e.source \in Sources(merges)
  BY DEF Sources
<1>4. \A s \in Sources(merges) : \E e \in merges : e.source = s
  BY DEF Sources
<1> QED BY <1>2, <1>3, <1>4

\* Where a way comes to an end it rests.
LEMMA WayRests ==
  ASSUME NEW into, NEW i, NEW n \in 0..Last, Way(into, i)[n] \notin DOMAIN into
  PROVE  Way(into, i)[Last] = Way(into, i)[n]
<1> DEFINE w == Way(into, i)
           Bad == {m \in n..Last : w[m] # w[n]}
<1>1. /\ \A m \in 1..Last : w[m] = Onward(into, w[m - 1])
      /\ Last \in Nat
  BY WayWalks, IdsAreCounted
<1>2. w[n] \notin DOMAIN into
  OBVIOUS
<1> HIDE DEF w
<1>3. Bad = {}
  <2>1. SUFFICES ASSUME Bad # {} PROVE FALSE
    OBVIOUS
  <2>2. Bad \in SUBSET Nat
    BY <1>1
  <2>3. PICK m \in Bad : \A k \in Bad : m <= k
    <3> HIDE DEF Bad
    <3> QED BY <2>1, <2>2, LeastNatural
  <2>4. m \in n..Last /\ w[m] # w[n] /\ m # n
    BY <2>3
  <2>5. m \in 1..Last /\ m - 1 \in n..Last /\ ~(m <= m - 1)
    BY <1>1, <2>4
  <2>6. w[m - 1] = w[n]
    BY <2>3, <2>5
  <2> QED BY <1>1, <1>2, <2>4, <2>5, <2>6 DEF Onward
<1>4. Last \in n..Last
  BY <1>1
<1> QED BY <1>3, <1>4 DEF w

\* Merges without circles that merge nobody twice are all told.
LEMMA PlainIsKept ==
  ASSUME NEW merges \in SUBSET Merges, Plain(merges), Acyclic(Into(merges))
  PROVE  Kept(merges) = merges
<1>1. ASSUME NEW e \in merges PROVE Acceptable({d \in merges : Before(d, e)}, e)
  <2> DEFINE earlier == {d \in merges : Before(d, e)}
             J == Into(earlier)
             w == Way(J, e.target)
             T == Range(w)
  <2>1. SUFFICES ASSUME e.source \in T PROVE FALSE
    BY DEF Acceptable
  <2>2. earlier \in SUBSET Merges /\ Plain(earlier)
    BY DEF Plain
  <2>3. e \in Merges /\ e.source \in CharacterIds /\ e.target \in CharacterIds
    BY DEF Merges
  <2>4. /\ DOMAIN J = Sources(earlier)
        /\ \A s \in Sources(earlier) : \E d \in earlier : d.source = s /\ J[s] = d.target
    BY <2>2, PlainInto
  <2>5. /\ \A d \in merges : d.source \in DOMAIN Into(merges) /\ Into(merges)[d.source] = d.target
    BY PlainInto
  <2>6. e.source \notin DOMAIN J
    <3>1. \A d \in earlier : d.source # e.source
      BY <2>3, BeforeOrders DEF Plain
    <3> QED BY <2>4, <3>1
  <2>7. \A s \in DOMAIN J : s \in DOMAIN Into(merges) /\ Into(merges)[s] = J[s]
    BY <2>4, <2>5
  <2>8. /\ w[0] = e.target /\ DOMAIN w = 0..Last /\ Last \in Nat
        /\ \A n \in 1..Last : w[n] = Onward(J, w[n - 1])
    BY WayWalks, IdsAreCounted
  <2>9. w[Last] = e.source
    <3>1. PICK n \in 0..Last : e.source = w[n]
      BY <2>1, <2>8 DEF Range
    <3> QED BY <2>6, <3>1, WayRests
  <2>10. \A j \in CharacterIds : Onward(J, j) \in CharacterIds
    BY <2>2, IntoIsLastWord DEF Onward
  <2>11. w \in [0..Last -> CharacterIds]
    <3> HIDE DEF J
    <3> QED BY <2>3, <2>10, WayStaysIn
  <2>a. \A n \in 0..Last : w[n] \notin DOMAIN J => w[Last] = w[n]
    BY WayRests
  <2> HIDE DEF w, J, earlier
  <2>12. \A n \in 0..Last : w[n] \in T
    BY <2>8 DEF Range
  <2>13. ASSUME NEW j \in T PROVE j \in DOMAIN Into(merges) /\ Into(merges)[j] \in T
    <3>1. PICK n \in 0..Last : j = w[n]
      BY <2>8, <2>13 DEF Range
    <3>2. CASE j \notin DOMAIN J
      <4>1. j = e.source
        BY <2>9, <2>a, <3>1, <3>2
      <4>2. 0 \in 0..Last
        BY <2>8
      <4> QED BY <2>5, <2>8, <2>12, <4>1, <4>2
    <3>3. CASE j \in DOMAIN J
      <4>1. n # Last
        BY <2>6, <2>9, <3>1, <3>3
      <4>2. n + 1 \in 1..Last /\ n + 1 \in 0..Last /\ (n + 1) - 1 = n
        BY <2>8, <3>1, <4>1
      <4>3. w[n + 1] = J[j]
        BY <2>8, <3>1, <3>3, <4>2 DEF Onward
      <4> QED BY <2>7, <2>12, <3>3, <4>2, <4>3
    <3> QED BY <3>2, <3>3
  <2>14. T \in SUBSET CharacterIds /\ T # {}
    BY <2>1, <2>11 DEF Range
  <2> HIDE DEF T
  <2> QED BY <2>13, <2>14 DEF Acyclic, Circle
<1>2. Told(merges, merges)
  BY <1>1 DEF Told
<1> QED BY <1>2, KeptIsTold, ToldOnlyOneWay

\* Merges under the ids that are given back.
Renamed(merges, new) ==
  {[source |-> As(new, e.source), target |-> As(new, e.target), at |-> e.at] : e \in merges}

\* Giving ids back takes no two of them for one.
Apart(ids, new) == \A i, j \in ids : As(new, i) = As(new, j) => i = j

\* Then a way along the renamed merges is the way along the merges, renamed.
LEMMA RenamedInto ==
  ASSUME NEW merges \in SUBSET Merges, Plain(merges), NEW new, \A i \in DOMAIN new : new[i] \in CharacterIds,
         NEW ids \in SUBSET CharacterIds, \A e \in merges : Ends(e) \subseteq ids, Apart(ids, new)
  PROVE  /\ Renamed(merges, new) \in SUBSET Merges /\ Plain(Renamed(merges, new))
         /\ \A i \in ids : Onward(Into(merges), i) \in ids
         /\ \A i \in ids : Onward(Into(Renamed(merges, new)), As(new, i)) = As(new, Onward(Into(merges), i))
         /\ \A i \in ids : As(new, i) \in DOMAIN Into(Renamed(merges, new)) <=> i \in DOMAIN Into(merges)
<1> DEFINE R == Renamed(merges, new)
           I == Into(merges)
           K == Into(R)
<1>1. R \in SUBSET Merges
  BY DEF Renamed, As, Merges
<1>2. /\ \A r \in R : \E e \in merges : r.source = As(new, e.source) /\ r.target = As(new, e.target) /\ r.at = e.at
      /\ \A e \in merges : \E r \in R : r.source = As(new, e.source) /\ r.target = As(new, e.target) /\ r.at = e.at
  <2>1. \A r \in R : \E e \in merges : r.source = As(new, e.source) /\ r.target = As(new, e.target) /\ r.at = e.at
    BY DEF Renamed
  <2>2. ASSUME NEW e \in merges
        PROVE  \E r \in R : r.source = As(new, e.source) /\ r.target = As(new, e.target) /\ r.at = e.at
    <3> DEFINE r == [source |-> As(new, e.source), target |-> As(new, e.target), at |-> e.at]
    <3>1. r \in R
      BY DEF Renamed
    <3>2. r.source = As(new, e.source) /\ r.target = As(new, e.target) /\ r.at = e.at
      OBVIOUS
    <3> QED BY <3>1, <3>2
  <2> QED BY <2>1, <2>2
<1> HIDE DEF R
<1>3. \A e \in merges : e.source \in ids /\ e.target \in ids
  BY DEF Ends
<1>4. ASSUME NEW d \in R, NEW e \in R, d.source = e.source PROVE d = e
  <2>1. PICK c \in merges : d.source = As(new, c.source) /\ d.target = As(new, c.target) /\ d.at = c.at
    BY <1>2
  <2>2. PICK b \in merges : e.source = As(new, b.source) /\ e.target = As(new, b.target) /\ e.at = b.at
    BY <1>2
  <2>3. c.source = b.source
    BY <1>3, <1>4, <2>1, <2>2 DEF Apart
  <2>4. c = b
    BY <2>3 DEF Plain
  <2>5. d \in Merges /\ e \in Merges
    BY <1>1
  <2> QED BY <2>1, <2>2, <2>4, <2>5 DEF Merges
<1>5. Plain(R)
  BY <1>4 DEF Plain
<1>6. /\ DOMAIN I = Sources(merges)
      /\ \A s \in Sources(merges) : \E e \in merges : e.source = s /\ I[s] = e.target
      /\ \A e \in merges : e.source \in Sources(merges) /\ I[e.source] = e.target
  BY PlainInto
<1>7. /\ DOMAIN K = Sources(R)
      /\ \A s \in Sources(R) : \E e \in R : e.source = s /\ K[s] = e.target
      /\ \A e \in R : e.source \in Sources(R) /\ K[e.source] = e.target
  BY <1>1, <1>5, PlainInto
<1> HIDE DEF I, K
<1>8. \A i \in ids : Onward(I, i) \in ids
  BY <1>3, <1>6 DEF Onward
<1>9. ASSUME NEW i \in ids PROVE As(new, i) \in DOMAIN K <=> i \in DOMAIN I
  <2>1. ASSUME i \in DOMAIN I PROVE As(new, i) \in DOMAIN K
    <3>1. PICK e \in merges : e.source = i
      BY <1>6, <2>1
    <3>2. PICK r \in R : r.source = As(new, e.source)
      BY <1>2
    <3> QED BY <1>7, <3>1, <3>2
  <2>2. ASSUME As(new, i) \in DOMAIN K PROVE i \in DOMAIN I
    <3>1. PICK r \in R : r.source = As(new, i)
      BY <1>7, <2>2
    <3>2. PICK e \in merges : r.source = As(new, e.source)
      BY <1>2
    <3>3. e.source = i
      BY <1>3, <3>1, <3>2 DEF Apart
    <3> QED BY <1>6, <3>3
  <2> QED BY <2>1, <2>2
<1>10. ASSUME NEW i \in ids PROVE Onward(K, As(new, i)) = As(new, Onward(I, i))
  <2>1. CASE i \in DOMAIN I
    <3>1. PICK e \in merges : e.source = i /\ I[i] = e.target
      BY <1>6, <2>1
    <3>2. PICK r \in R : r.source = As(new, e.source) /\ r.target = As(new, e.target)
      BY <1>2
    <3>3. As(new, i) \in DOMAIN K /\ K[As(new, i)] = As(new, e.target)
      BY <1>7, <3>1, <3>2
    <3> QED BY <2>1, <3>1, <3>3 DEF Onward
  <2>2. CASE i \notin DOMAIN I
    BY <1>9, <2>2 DEF Onward
  <2> QED BY <2>1, <2>2
<1> QED BY <1>1, <1>5, <1>8, <1>9, <1>10 DEF R, I, K

\* Nor do they close a circle, if the merges do not.
LEMMA RenamedAcyclic ==
  ASSUME NEW merges \in SUBSET Merges, Plain(merges), NEW new, \A i \in DOMAIN new : new[i] \in CharacterIds,
         NEW ids \in SUBSET CharacterIds, \A e \in merges : Ends(e) \subseteq ids, Apart(ids, new),
         Acyclic(Into(merges))
  PROVE  Acyclic(Into(Renamed(merges, new)))
<1> DEFINE I == Into(merges)
           K == Into(Renamed(merges, new))
<1>1. /\ Renamed(merges, new) \in SUBSET Merges /\ Plain(Renamed(merges, new))
      /\ \A i \in ids : Onward(I, i) \in ids
      /\ \A i \in ids : Onward(K, As(new, i)) = As(new, Onward(I, i))
      /\ \A i \in ids : As(new, i) \in DOMAIN K <=> i \in DOMAIN I
  BY RenamedInto
<1>2. \A k \in DOMAIN K : \E i \in ids : k = As(new, i)
  <2>1. DOMAIN K = Sources(Renamed(merges, new))
    BY <1>1, PlainInto
  <2>2. \A r \in Renamed(merges, new) : \E e \in merges : r.source = As(new, e.source)
    BY DEF Renamed
  <2>3. \A e \in merges : e.source \in ids
    BY DEF Ends
  <2> QED BY <2>1, <2>2, <2>3 DEF Sources
<1> HIDE DEF I, K
<1>3. ASSUME NEW S \in SUBSET CharacterIds, Circle(K, S) PROVE FALSE
  <2> DEFINE P == {i \in ids : As(new, i) \in S}
  <2>1. S # {} /\ \A s \in S : s \in DOMAIN K /\ K[s] \in S
    BY <1>3 DEF Circle
  <2>2. P # {} /\ P \in SUBSET CharacterIds
    BY <1>2, <2>1
  <2>3. ASSUME NEW i \in P PROVE i \in DOMAIN I /\ I[i] \in P
    <3>1. i \in ids /\ As(new, i) \in S /\ As(new, i) \in DOMAIN K /\ K[As(new, i)] \in S
      BY <2>1
    <3>2. i \in DOMAIN I
      BY <1>1, <3>1
    <3>3. Onward(I, i) = I[i] /\ Onward(K, As(new, i)) = K[As(new, i)]
      BY <3>1, <3>2 DEF Onward
    <3>4. I[i] \in ids /\ As(new, I[i]) = K[As(new, i)]
      BY <1>1, <3>1, <3>3
    <3> QED BY <3>1, <3>2, <3>4
  <2>4. Circle(I, P)
    <3> HIDE DEF P
    <3> QED BY <2>2, <2>3 DEF Circle
  <2> HIDE DEF P
  <2> QED BY <2>2, <2>4 DEF Acyclic, I
<1> QED BY <1>3 DEF Acyclic, K

\* Whoever stands for an id stands for it under the new ids.
LEMMA RenamedStands ==
  ASSUME NEW into, NEW renamed, NEW new, NEW ids,
         \A i \in ids : Onward(into, i) \in ids /\ Onward(renamed, As(new, i)) = As(new, Onward(into, i)),
         NEW i \in ids
  PROVE  Stands(into, i) \in ids /\ Stands(renamed, As(new, i)) = As(new, Stands(into, i))
<1> DEFINE v == Way(into, i)
           w == Way(renamed, As(new, i))
           Bad == {n \in 0..Last : ~(v[n] \in ids /\ w[n] = As(new, v[n]))}
<1>1. /\ v[0] = i /\ \A n \in 1..Last : v[n] = Onward(into, v[n - 1])
      /\ w[0] = As(new, i) /\ \A n \in 1..Last : w[n] = Onward(renamed, w[n - 1])
      /\ Last \in Nat
  BY WayWalks, IdsAreCounted
<1> HIDE DEF v, w
<1>2. Bad = {}
  <2>1. SUFFICES ASSUME Bad # {} PROVE FALSE
    OBVIOUS
  <2>2. Bad \in SUBSET Nat
    BY <1>1
  <2>3. PICK m \in Bad : \A k \in Bad : m <= k
    <3> HIDE DEF Bad
    <3> QED BY <2>1, <2>2, LeastNatural
  <2>4. m # 0
    BY <1>1, <2>3
  <2>5. m \in 1..Last /\ m - 1 \in 0..Last /\ ~(m <= m - 1)
    BY <1>1, <2>3, <2>4
  <2>6. v[m - 1] \in ids /\ w[m - 1] = As(new, v[m - 1])
    BY <2>3, <2>5
  <2>7. v[m] \in ids /\ w[m] = As(new, v[m])
    BY <1>1, <2>5, <2>6
  <2> QED BY <2>3, <2>7
<1>3. Last \in 0..Last
  BY <1>1
<1>4. v[Last] \in ids /\ w[Last] = As(new, v[Last])
  BY <1>2, <1>3
<1> QED BY <1>4 DEF v, w, Stands, Last

\* The ids a generation speaks of.
Spoken == {i \in CharacterIds : i \in DOMAIN generation.recs \/ \E e \in generation.merges : i \in Ends(e)}

\* Unless somebody is revived, ids that are given back are new to the generation.
LEMMA GivenApart ==
  ASSUME Saves, ~Entangled
  PROVE  /\ \A p \in DOMAIN GivenBack : GivenBack[p] \in CharacterIds /\ GivenBack[p] \notin Spoken
         /\ Apart(Spoken, GivenBack)
         /\ DOMAIN GivenBack # {} => ~LeavesBehind /\ ~MergedTwice
<1> DEFINE new == GivenBack
           people == Merged(generation.recs, IntoAt(generation.merges, generation.upTo))
<1>1. /\ \A p \in DOMAIN new : new[p] \in DOMAIN eventsDoc.recs /\ new[p] \notin DOMAIN people
      /\ \A p, q \in DOMAIN new : new[p] = new[q] => p = q
      /\ DOMAIN eventsDoc.recs \in SUBSET CharacterIds
  BY SavesWell, SaveGivesBack
<1>2. DOMAIN new # {} => generation.redo
  BY DEF GivenBack
<1>3. DOMAIN new # {} => ~Revives /\ ~LeavesBehind /\ ~MergedTwice
  BY <1>2 DEF Entangled, Renumbering
<1>4. ASSUME NEW p \in DOMAIN new PROVE new[p] \notin DOMAIN generation.recs
  <2>1. new[p] \in Range(new)
    BY DEF Range
  <2> QED BY <1>1, <1>3, <2>1 DEF Revives
<1>5. ASSUME NEW p \in DOMAIN new PROVE new[p] \notin Spoken
  BY <1>4, GivenBackIsNoEnd DEF Spoken
<1> HIDE DEF new
<1>6. Apart(Spoken, new)
  BY <1>1, <1>5 DEF Apart, As
<1> QED BY <1>1, <1>3, <1>5, <1>6 DEF new

\* Then a save tells the merges of the generation, under the ids given back.
LEMMA RenamedTold ==
  ASSUME Saves, ~Entangled, DOMAIN GivenBack # {}
  PROVE  NewEvents(GivenBack).merges = Renamed(generation.merges, GivenBack) /\ Plain(generation.merges)
<1> DEFINE new == GivenBack
           M == generation.merges
           R == Renamed(M, new)
<1>1. /\ M \in SUBSET Merges /\ Kept(M) = M /\ MergesGoOn
      /\ eventsDoc.merges \in SUBSET Merges /\ Kept(eventsDoc.merges) = eventsDoc.merges
      /\ generation.from \in Int
      /\ DOMAIN generation.recs \in SUBSET CharacterIds
  BY SavesWell DEF HistoryBatches, HistoryDoc
<1>2. /\ \A p \in DOMAIN new : new[p] \in CharacterIds
      /\ Apart(Spoken, new) /\ ~LeavesBehind /\ ~MergedTwice
  BY GivenApart
<1>3. Plain(M)
  BY <1>2 DEF MergedTwice, Plain
<1>4. Spoken \in SUBSET CharacterIds /\ \A e \in M : Ends(e) \subseteq Spoken
  BY <1>1 DEF Spoken, Merges, Ends
<1>5. Acyclic(Into(M))
  BY <1>1, KeptIsAcyclic
<1> HIDE DEF new, M
<1>6. R \in SUBSET Merges /\ Plain(R)
  BY <1>1, <1>2, <1>3, <1>4, RenamedInto
<1>7. Acyclic(Into(R))
  BY <1>1, <1>2, <1>3, <1>4, <1>5, RenamedAcyclic
<1>8. Kept(R) = R
  BY <1>6, <1>7, PlainIsKept
<1>9. ASSUME NEW e \in Early PROVE e \in R
  <2>1. e \in M /\ e \in Merges
    BY <1>1, <1>9 DEF Early, MergesGoOn, M
  <2>2. CutMerges(eventsDoc.merges, generation.from) = Early
    BY <1>1, CutMergesAre DEF Early
  <2>3. e.source \notin DOMAIN new /\ e.target \notin DOMAIN new
    BY <1>2, <1>9, <2>2 DEF LeavesBehind, new
  <2>4. [source |-> As(new, e.source), target |-> As(new, e.target), at |-> e.at] = e
    BY <2>1, <2>3 DEF As, Merges
  <2> QED BY <2>1, <2>4 DEF Renamed
<1>10. RenumberedMerges(M, new) = Kept(R)
  BY DEF RenumberedMerges, Renamed
<1> HIDE DEF R
<1>11. R \cup Early = R
  BY <1>9
<1>12. NewEvents(new).merges = Kept(RenumberedMerges(M, new) \cup Early)
  BY SaveTells DEF M
<1>13. NewEvents(new).merges = R
  BY <1>8, <1>10, <1>11, <1>12
<1> QED BY <1>3, <1>13 DEF R, M, new

\* Each step along the merges is the same step under the ids given back.
LEMMA SaveRenames ==
  ASSUME Saves, ~Entangled
  PROVE  \A i \in Spoken :
           /\ Onward(Into(generation.merges), i) \in Spoken
           /\ Onward(Into(NewEvents(GivenBack).merges), As(GivenBack, i))
              = As(GivenBack, Onward(Into(generation.merges), i))
<1> DEFINE new == GivenBack
           M == generation.merges
           told == NewEvents(new).merges
<1>1. M \in SUBSET Merges /\ DOMAIN generation.recs \in SUBSET CharacterIds
  BY SavesWell
<1>2. Spoken \in SUBSET CharacterIds /\ \A e \in M : Ends(e) \subseteq Spoken
  BY <1>1 DEF Spoken, Merges, Ends
<1>3. CASE DOMAIN new = {}
  <2>1. told = M
    BY <1>3, PlainTold
  <2>2. \A i : As(new, i) = i
    BY <1>3 DEF As
  <2>3. \A i \in Spoken : Onward(Into(M), i) \in Spoken
    <3>1. \A e \in M : e.target \in Spoken
      BY <1>2 DEF Ends
    <3>2. /\ Into(M) \in [Sources(M) -> CharacterIds]
          /\ \A s \in Sources(M) : \E e \in M : Into(M)[s] = e.target
      BY <1>1, IntoIsLastWord DEF LastWord
    <3> HIDE DEF M
    <3> QED BY <3>1, <3>2 DEF Onward
  <2> HIDE DEF told, M, new
  <2> QED BY <2>1, <2>2, <2>3 DEF told, M, new
<1>4. CASE DOMAIN new # {}
  <2>1. told = Renamed(M, new) /\ Plain(M)
    BY <1>4, RenamedTold
  <2>2. (\A p \in DOMAIN new : new[p] \in CharacterIds) /\ Apart(Spoken, new)
    BY GivenApart
  <2> HIDE DEF told, M, new
  <2>3. /\ \A i \in Spoken : Onward(Into(M), i) \in Spoken
        /\ \A i \in Spoken : Onward(Into(Renamed(M, new)), As(new, i)) = As(new, Onward(Into(M), i))
    BY <1>1, <1>2, <2>1, <2>2, RenamedInto
  <2> QED BY <2>1, <2>3 DEF told, M, new
<1> QED BY <1>3, <1>4

\* The records that are saved are those of the generation, under the ids given
\* back: each has the names it had.
LEMMA SavedRecords ==
  ASSUME Saves, ~Entangled
  PROVE  /\ NewEvents(GivenBack).recs \in Records
         /\ \A k : k \in DOMAIN NewEvents(GivenBack).recs <=> \E i \in DOMAIN generation.recs : k = As(GivenBack, i)
         /\ \A i \in DOMAIN generation.recs :
              generation.recs[i].names \subseteq NewEvents(GivenBack).recs[As(GivenBack, i)].names
         /\ ~Haunted => \A i \in DOMAIN generation.recs :
              NewEvents(GivenBack).recs[As(GivenBack, i)].names \subseteq generation.recs[i].names
<1> DEFINE new == GivenBack
           told == NewEvents(new).merges
           raw == RenumberedRecs(generation.recs, new)
           existing == Existing(new)
           live == NewEvents(new).recs
<1>1. /\ generation.recs \in Records /\ DOMAIN generation.recs \in SUBSET CharacterIds /\ Base \in Records
      /\ DOMAIN generation.recs \subseteq Spoken
  BY SavesWell DEF Spoken
<1>2. /\ \A p \in DOMAIN new : /\ new[p] \in CharacterIds /\ new[p] \notin DOMAIN generation.recs
                               /\ new[p] \in DOMAIN eventsDoc.recs
      /\ Apart(Spoken, new) /\ DOMAIN new \subseteq DOMAIN generation.recs
  BY <1>1, GivenApart, SaveGivesBack
<1>3. raw \in Records /\ DOMAIN raw = {As(new, i) : i \in DOMAIN generation.recs}
  BY <1>1, <1>2, RenumberedTells
<1>4. /\ existing \in Records
      /\ \A i \in DOMAIN existing : i \in DOMAIN Base
      /\ \A i \in DOMAIN Base : i \in DOMAIN generation.recs /\ Base[i].names \subseteq generation.recs[i].names
  BY ExistingAre, BaseIs
<1>5. live = Preserved(WithNames(raw, existing), told, existing)
  BY SaveTells
<1>6. live \in Records
  <2>1. NewEvents(new) \in [frontier: 0..Episodes, recs: Records, retired: RetiredIds,
                            merges: SUBSET Merges, next: 1..(MaxFindings + 1)]
    BY <1>2, NewEventsTell DEF Saves
  <2> QED BY <2>1
<1>7. \A i \in DOMAIN generation.recs : As(new, i) \in DOMAIN raw /\ raw[As(new, i)].names = generation.recs[i].names
  <2> SUFFICES ASSUME NEW i \in DOMAIN generation.recs
               PROVE  As(new, i) \in DOMAIN raw /\ raw[As(new, i)].names = generation.recs[i].names
    OBVIOUS
  <2>1. As(new, i) \in DOMAIN raw
    BY <1>3
  <2>2. \A n : n \in raw[As(new, i)].names <=> \E j \in DOMAIN generation.recs : As(new, j) = As(new, i) /\ n \in generation.recs[j].names
    BY <1>1, <2>1, RenumberedAre
  <2>3. \A j \in DOMAIN generation.recs : As(new, j) = As(new, i) => j = i
    BY <1>1, <1>2 DEF Apart
  <2> HIDE DEF raw, new
  <2> QED BY <2>1, <2>2, <2>3
\* Who was there before and is there still has kept his id.
<1>8. \A k \in DOMAIN Base : k \in DOMAIN raw => As(new, k) = k
  <2> SUFFICES ASSUME NEW k \in DOMAIN Base, NEW i \in DOMAIN generation.recs, k = As(new, i) PROVE As(new, k) = k
    BY <1>3
  <2>1. i \notin DOMAIN new
    BY <1>2, <1>4 DEF As
  <2> QED BY <2>1 DEF As
\* Nobody is kept only because he was merged away.
<1>9. \A k \in DOMAIN Base : k \in Sources(told) => k \in DOMAIN raw
  <2> SUFFICES ASSUME NEW k \in DOMAIN Base, k \in Sources(told) PROVE k \in DOMAIN raw
    OBVIOUS
  <2>1. k \in DOMAIN generation.recs
    BY <1>4
  <2>2. CASE k \notin DOMAIN new
    BY <1>3, <2>1, <2>2 DEF As
  <2>3. CASE k \in DOMAIN new
    <3>1. told = Renamed(generation.merges, new)
      BY <2>3, RenamedTold
    <3>2. PICK e \in generation.merges : k = As(new, e.source)
      BY <3>1 DEF Renamed, Sources
    <3>3. e.source \notin DOMAIN new
      BY <1>2, <2>1, <3>2 DEF As
    <3> QED BY <2>3, <3>2, <3>3 DEF As
  <2> QED BY <2>2, <2>3
<1> HIDE DEF live, raw, told, existing, new
<1>10. /\ \A k : k \in DOMAIN live <=> k \in DOMAIN raw \/ (k \in Sources(told) /\ k \in DOMAIN existing)
       /\ \A k \in DOMAIN raw : raw[k].names \subseteq live[k].names
  <2> DEFINE L == Preserved(WithNames(raw, existing), told, existing)
  <2>1. /\ \A k : k \in DOMAIN L <=> k \in DOMAIN raw \/ (k \in Sources(told) /\ k \in DOMAIN existing)
        /\ \A k \in DOMAIN raw : raw[k].names \subseteq L[k].names
    BY <1>3, <1>4, LiveAre
  <2> HIDE DEF L
  <2>2. live = L
    BY <1>5 DEF L
  <2> QED BY <2>1, <2>2
<1>11. \A k : k \in DOMAIN live <=> \E i \in DOMAIN generation.recs : k = As(new, i)
  BY <1>3, <1>4, <1>9, <1>10
<1>12. \A i \in DOMAIN generation.recs : generation.recs[i].names \subseteq live[As(new, i)].names
  BY <1>7, <1>10
<1>13. ASSUME ~Haunted, NEW i \in DOMAIN generation.recs PROVE live[As(new, i)].names \subseteq generation.recs[i].names
  <2>1. existing = Base
    <3>1. \A p \in DOMAIN new : new[p] \notin DOMAIN Base
      BY <1>2, <1>4
    <3> QED BY <1>13, <3>1, ExistingIsBase DEF existing, new
  <2>2. \A k \in DOMAIN raw : k \in DOMAIN Base => Base[k].names \subseteq raw[k].names
    BY <1>4, <1>7, <1>8
  <2>3. live = raw
    BY <1>1, <1>3, <1>5, <1>9, <2>1, <2>2, LiveIsRaw
  <2> QED BY <1>7, <2>3
<1> QED BY <1>6, <1>11, <1>12, <1>13 DEF live, new

\* At the end every merge that is told is known.
LEMMA IntoAtTheEnd ==
  ASSUME NEW merges \in SUBSET Merges, Kept(merges) = merges, NEW b, \A e \in merges : e.at <= b
  PROVE  IntoAt(merges, b) = Into(merges)
<1>1. {e \in Kept(merges) : e.at <= b} = merges
  OBVIOUS
<1> QED BY <1>1 DEF IntoAt

\* What is known in a save, of what it tells and of what was told before.
LEMMA SaveKnows ==
  ASSUME Saves
  PROVE  /\ IntoAt(generation.merges, generation.upTo) = Into(generation.merges)
         /\ IntoAt(NewEvents(GivenBack).merges, generation.upTo) = Into(NewEvents(GivenBack).merges)
         /\ \E b \in 0..eventsDoc.frontier : IntoAt(eventsDoc.merges, generation.upTo) = IntoAt(eventsDoc.merges, b)
<1>1. /\ generation.merges \in SUBSET Merges /\ Kept(generation.merges) = generation.merges
      /\ \A e \in generation.merges : e.at <= generation.upTo
      /\ eventsDoc.merges \in SUBSET Merges /\ Kept(eventsDoc.merges) = eventsDoc.merges
      /\ \A e \in eventsDoc.merges : e.at <= eventsDoc.frontier
      /\ eventsDoc.frontier \in Nat /\ generation.upTo \in Nat
      /\ DOMAIN eventsDoc.recs \in SUBSET CharacterIds
  BY SavesWell, IdsAreCounted DEF HistoryBatches, HistoryDoc, MergesKnown, Saves
<1> DEFINE told == NewEvents(GivenBack).merges
<1>2. /\ told \in SUBSET Merges /\ Kept(told) = told /\ \A e \in told : e.at <= generation.upTo
  <2>1. \A p \in DOMAIN GivenBack : GivenBack[p] \in CharacterIds
    BY <1>1, SaveGivesBack
  <2>2. told \in SUBSET Merges /\ Kept(told) = told
    BY <2>1, ToldAre
  <2>3. MergesKnown(told, generation.next, generation.upTo)
    BY SavedKnown
  <2> QED BY <2>2, <2>3 DEF MergesKnown
<1> HIDE DEF told
<1>3. IntoAt(generation.merges, generation.upTo) = Into(generation.merges)
  BY <1>1, IntoAtTheEnd
<1>4. IntoAt(told, generation.upTo) = Into(told)
  BY <1>2, IntoAtTheEnd
<1> DEFINE b == Earlier(generation.upTo, eventsDoc.frontier)
<1>5. b \in 0..eventsDoc.frontier
  BY <1>1 DEF Earlier
<1>6. {e \in eventsDoc.merges : e.at <= b} = {e \in eventsDoc.merges : e.at <= generation.upTo}
  <2>1. \A e \in eventsDoc.merges : e.at \in Nat
    BY <1>1, IdsAreCounted DEF Merges
  <2>2. \A e \in eventsDoc.merges : e.at <= b <=> e.at <= generation.upTo
    BY <1>1, <2>1 DEF Earlier
  <2> HIDE DEF b
  <2> QED BY <2>2
<1> HIDE DEF b
<1>7. IntoAt(eventsDoc.merges, generation.upTo) = IntoAt(eventsDoc.merges, b)
  BY <1>1, <1>6 DEF IntoAt
<1> QED BY <1>3, <1>4, <1>5, <1>7 DEF told

\* Whoever survives a merge survives it under the ids given back.
LEMMA SurvivorsCarried ==
  ASSUME Saves, ~Entangled, NEW i \in DOMAIN generation.recs
  PROVE  /\ Survivor(generation.recs, Into(generation.merges), i) \in DOMAIN generation.recs
         /\ Survivor(NewEvents(GivenBack).recs, Into(NewEvents(GivenBack).merges), As(GivenBack, i))
            = As(GivenBack, Survivor(generation.recs, Into(generation.merges), i))
<1> DEFINE new == GivenBack
           into == Into(generation.merges)
           renamed == Into(NewEvents(new).merges)
           live == NewEvents(new).recs
           s == Stands(into, i)
<1>1. \A j \in Spoken : Onward(into, j) \in Spoken /\ Onward(renamed, As(new, j)) = As(new, Onward(into, j))
  BY SaveRenames
<1>2. DOMAIN generation.recs \subseteq Spoken /\ Apart(Spoken, new)
  BY SavesWell, GivenApart DEF Spoken
<1>3. \A k : k \in DOMAIN live <=> \E j \in DOMAIN generation.recs : k = As(new, j)
  BY SavedRecords
<1> HIDE DEF new, into, renamed, live
<1>4. s \in Spoken /\ Stands(renamed, As(new, i)) = As(new, s)
  BY <1>1, <1>2, RenamedStands
<1>5. As(new, s) \in DOMAIN live <=> s \in DOMAIN generation.recs
  BY <1>2, <1>3, <1>4 DEF Apart
<1>6. /\ Survivor(generation.recs, into, i) \in DOMAIN generation.recs
      /\ Survivor(live, renamed, As(new, i)) = As(new, Survivor(generation.recs, into, i))
  BY <1>4, <1>5 DEF Survivor
<1> QED BY <1>6 DEF new, into, renamed, live

\* Who is a person of the generation is one in what is saved, under the id given
\* back, with those names, and there is nobody else.
LEMMA PeopleCarried ==
  ASSUME Saves, ~Entangled
  PROVE  LET people == Merged(generation.recs, IntoAt(generation.merges, generation.upTo))
             saved == Merged(NewEvents(GivenBack).recs, IntoAt(NewEvents(GivenBack).merges, generation.upTo)) IN
         /\ \A k : k \in DOMAIN saved <=> \E p \in DOMAIN people : k = As(GivenBack, p)
         /\ \A p \in DOMAIN people : people[p].names \subseteq saved[As(GivenBack, p)].names
         /\ ~Haunted => \A p \in DOMAIN people : saved[As(GivenBack, p)].names \subseteq people[p].names
<1> DEFINE new == GivenBack
           into == Into(generation.merges)
           renamed == Into(NewEvents(new).merges)
           recs == generation.recs
           live == NewEvents(new).recs
           people == Merged(recs, into)
           saved == Merged(live, renamed)
<1>1. /\ IntoAt(generation.merges, generation.upTo) = into
      /\ IntoAt(NewEvents(new).merges, generation.upTo) = renamed
  BY SaveKnows
<1>2. /\ live \in Records /\ recs \in Records
      /\ \A k : k \in DOMAIN live <=> \E i \in DOMAIN recs : k = As(new, i)
      /\ \A i \in DOMAIN recs : recs[i].names \subseteq live[As(new, i)].names
      /\ ~Haunted => \A i \in DOMAIN recs : live[As(new, i)].names \subseteq recs[i].names
  BY SavesWell, SavedRecords
<1>3. \A i \in DOMAIN recs : /\ Survivor(recs, into, i) \in DOMAIN recs
                             /\ Survivor(live, renamed, As(new, i)) = As(new, Survivor(recs, into, i))
  BY SurvivorsCarried
<1>4. \A i, j \in DOMAIN recs : As(new, i) = As(new, j) => i = j
  BY SavesWell, GivenApart DEF Spoken, Apart
<1> HIDE DEF new, into, renamed, recs, live
<1>5. /\ DOMAIN people = {i \in DOMAIN recs : Survivor(recs, into, i) = i}
      /\ DOMAIN saved = {k \in DOMAIN live : Survivor(live, renamed, k) = k}
  BY <1>2, MergedWithin
<1>6. /\ \A p \in DOMAIN people : \A n : n \in people[p].names <=>
           \E i \in DOMAIN recs : Survivor(recs, into, i) = p /\ n \in recs[i].names
      /\ \A k \in DOMAIN saved : \A n : n \in saved[k].names <=>
           \E i \in DOMAIN live : Survivor(live, renamed, i) = k /\ n \in live[i].names
  BY <1>2, MergedAre
<1> HIDE DEF people, saved
<1>7. \A i \in DOMAIN recs : Survivor(recs, into, i) = i <=> Survivor(live, renamed, As(new, i)) = As(new, i)
  BY <1>3, <1>4
<1>8. \A k : k \in DOMAIN saved <=> \E p \in DOMAIN people : k = As(new, p)
  BY <1>2, <1>5, <1>7
<1>9. ASSUME NEW p \in DOMAIN people, NEW n \in people[p].names PROVE n \in saved[As(new, p)].names
  <2>1. PICK i \in DOMAIN recs : Survivor(recs, into, i) = p /\ n \in recs[i].names
    BY <1>6, <1>9
  <2>2. As(new, i) \in DOMAIN live /\ Survivor(live, renamed, As(new, i)) = As(new, p) /\ n \in live[As(new, i)].names
    BY <1>2, <1>3, <2>1
  <2>3. As(new, p) \in DOMAIN saved
    BY <1>8
  <2> QED BY <1>6, <2>2, <2>3
<1>10. ASSUME ~Haunted, NEW p \in DOMAIN people, NEW n \in saved[As(new, p)].names PROVE n \in people[p].names
  <2>1. As(new, p) \in DOMAIN saved
    BY <1>8
  <2>2. PICK k \in DOMAIN live : Survivor(live, renamed, k) = As(new, p) /\ n \in live[k].names
    BY <1>6, <1>10, <2>1
  <2>3. PICK i \in DOMAIN recs : k = As(new, i)
    BY <1>2
  <2>4. p \in DOMAIN recs
    BY <1>5
  <2>5. Survivor(recs, into, i) = p
    BY <1>3, <1>4, <2>2, <2>3, <2>4
  <2>6. n \in recs[i].names
    BY <1>2, <1>10, <2>2, <2>3
  <2> QED BY <1>6, <2>5, <2>6
<1>11. /\ \A p \in DOMAIN people : people[p].names \subseteq saved[As(new, p)].names
       /\ ~Haunted => \A p \in DOMAIN people : saved[As(new, p)].names \subseteq people[p].names
  BY <1>9, <1>10
<1> QED BY <1>1, <1>8, <1>11 DEF people, saved, recs, live, new

\* At its frontier a save shows everybody, with all names.
LEMMA SavedShown ==
  ASSUME Saves
  PROVE  LET saved == Merged(NewEvents(GivenBack).recs, IntoAt(NewEvents(GivenBack).merges, generation.upTo)) IN
         /\ \A k \in DOMAIN saved : \E c \in ShownAt(NewEvents(GivenBack), generation.upTo) :
              c.id = k /\ c.names = saved[k].names
         /\ \A c \in ShownAt(NewEvents(GivenBack), generation.upTo) : c.id \in DOMAIN saved /\ c.names = saved[c.id].names
<1> DEFINE doc == NewEvents(GivenBack)
           b == generation.upTo
           into == IntoAt(doc.merges, b)
           saved == Merged(doc.recs, into)
<1>1. b \in Nat /\ \A p \in DOMAIN GivenBack : GivenBack[p] \in DOMAIN eventsDoc.recs
  BY SavesWell, SaveGivesBack, IdsAreCounted
<1>2. doc.recs \in Records /\ doc.frontier = b /\ NotAfter(doc.recs, b)
  BY <1>1, SaveGivesBack, NewEventsTell DEF Saves
<1>3. Earlier(b, doc.frontier) = b
  BY <1>2 DEF Earlier
<1>4. ShownAt(doc, b) = {[id |-> i, names |-> {n \in saved[i].names : n.at <= b}] : i \in {j \in DOMAIN saved : saved[j].first <= b}}
  BY <1>3 DEF ShownAt
<1> HIDE DEF doc, into
<1>5. NotAfter(saved, b)
  BY <1>1, <1>2, MergedWithin
<1> HIDE DEF saved
<1>6. /\ {j \in DOMAIN saved : saved[j].first <= b} = DOMAIN saved
      /\ \A i \in DOMAIN saved : {n \in saved[i].names : n.at <= b} = saved[i].names
  BY <1>5 DEF NotAfter
<1>7. ShownAt(doc, b) = {[id |-> i, names |-> saved[i].names] : i \in DOMAIN saved}
  BY <1>4, <1>6
<1>8. ASSUME NEW k \in DOMAIN saved PROVE \E c \in ShownAt(doc, b) : c.id = k /\ c.names = saved[k].names
  <2> DEFINE c == [id |-> k, names |-> saved[k].names]
  <2>1. c \in ShownAt(doc, b) /\ c.id = k /\ c.names = saved[k].names
    BY <1>7
  <2> QED BY <2>1
<1>9. \A c \in ShownAt(doc, b) : c.id \in DOMAIN saved /\ c.names = saved[c.id].names
  BY <1>7
<1> QED BY <1>8, <1>9 DEF saved, into, doc

\* Who the generation found to be a person is shown at the frontier, and nobody else.
LEMMA SaveKeepsPeople ==
  ASSUME Saves, ~Entangled, ~Haunted
  PROVE  LET people == Merged(generation.recs, IntoAt(generation.merges, generation.upTo)) IN
         {c.names : c \in ShownAt(NewEvents(GivenBack), generation.upTo)} = {people[p].names : p \in DOMAIN people}
<1> DEFINE new == GivenBack
           doc == NewEvents(new)
           people == Merged(generation.recs, IntoAt(generation.merges, generation.upTo))
           saved == Merged(doc.recs, IntoAt(doc.merges, generation.upTo))
           shown == ShownAt(doc, generation.upTo)
<1>1. /\ \A k : k \in DOMAIN saved <=> \E p \in DOMAIN people : k = As(new, p)
      /\ \A p \in DOMAIN people : people[p].names \subseteq saved[As(new, p)].names
      /\ \A p \in DOMAIN people : saved[As(new, p)].names \subseteq people[p].names
  BY PeopleCarried
<1>2. /\ \A k \in DOMAIN saved : \E c \in shown : c.id = k /\ c.names = saved[k].names
      /\ \A c \in shown : c.id \in DOMAIN saved /\ c.names = saved[c.id].names
  BY SavedShown
<1> HIDE DEF shown, saved, people, new
<1>3. \A p \in DOMAIN people : people[p].names = saved[As(new, p)].names /\ As(new, p) \in DOMAIN saved
  BY <1>1
<1>4. ASSUME NEW c \in shown PROVE \E p \in DOMAIN people : c.names = people[p].names
  BY <1>1, <1>2, <1>3
<1>5. ASSUME NEW p \in DOMAIN people PROVE \E c \in shown : c.names = people[p].names
  BY <1>2, <1>3
<1>6. {c.names : c \in shown} = {people[p].names : p \in DOMAIN people}
  BY <1>4, <1>5
<1> QED BY <1>6 DEF shown, people, new

\* A person who was there has a name by which he was called.
LEMMA BaseWasCalled ==
  ASSUME Saves, NEW k \in DOMAIN Base
  PROVE  \E n \in Base[k].names : n.name \in called[k]
<1> DEFINE recs == eventsDoc.recs
           into == IntoAt(eventsDoc.merges, 0)
           all == Merged(recs, into)
<1>1. /\ recs \in Records /\ eventsDoc.merges \in SUBSET Merges /\ eventsDoc.frontier \in Nat
      /\ Kept(eventsDoc.merges) = eventsDoc.merges
      /\ \A c \in StandIns(eventsDoc) : c.keys \subseteq called[c.id]
  BY SavesWell DEF HistoryDoc
<1>2. k \in DOMAIN recs /\ Base[k].names \subseteq recs[k].names
  BY BaseIs
<1>3. \A i : i \notin DOMAIN into
  <2>1. \A e \in eventsDoc.merges : ~(e.at <= 0)
    BY <1>1, IdsAreCounted DEF Merges
  <2>2. into = Into({})
    BY <1>1, <2>1 DEF IntoAt
  <2> QED BY <2>2 DEF Into
<1> HIDE DEF into
<1>4. Survivor(recs, into, k) = k
  BY <1>3, StandsStays DEF Survivor
<1>5. k \in DOMAIN all /\ recs[k].names \subseteq all[k].names
  BY <1>1, <1>2, <1>4, MergedWithin
<1> DEFINE c == [id |-> k, keys |-> KeysOf(all[k])]
<1>6. c \in StandIns(eventsDoc)
  <2>1. 0 \in 0..eventsDoc.frontier
    BY <1>1
  <2>2. c \in {[id |-> i, keys |-> KeysOf(all[i])] : i \in DOMAIN all}
    BY <1>5
  <2> QED BY <2>1, <2>2 DEF StandIns, into
<1>7. KeysOf(all[k]) \subseteq called[k]
  BY <1>1, <1>6
<1>8. PICK n \in Base[k].names : n.at = Base[k].first
  BY BaseIs DEF Rooted
<1>9. n \in all[k].names
  BY <1>2, <1>5, <1>8
<1>10. n.name \in KeysOf(all[k])
  BY <1>9 DEF KeysOf
<1> QED BY <1>7, <1>8, <1>10

\* Somebody who gets an id back has a name it stood for.
LEMMA GivenBackWasCalled ==
  ASSUME Saves, NEW p \in DOMAIN GivenBack
  PROVE  LET people == Merged(generation.recs, IntoAt(generation.merges, generation.upTo)) IN
         KeysOf(people[p]) \cap called[GivenBack[p]] # {}
<1> DEFINE people == Merged(generation.recs, IntoAt(generation.merges, generation.upTo))
           registry == Merged(eventsDoc.recs, IntoAt(eventsDoc.merges, generation.upTo))
           back == Renumbered(generation.recs, generation.merges, eventsDoc, generation.upTo)
           k == GivenBack[p]
<1>1. /\ eventsDoc.recs \in Records /\ generation.recs \in Records
      /\ \A c \in StandIns(eventsDoc) : c.keys \subseteq called[c.id]
  BY SavesWell DEF HistoryDoc
<1>2. GivenBack = back
  BY DEF GivenBack
<1>3. \A q \in DOMAIN back : back[q] \in DOMAIN registry /\ KeysOf(people[q]) \cap KeysOf(registry[back[q]]) # {}
  BY <1>1, GivenBackAre
<1>4. k \in DOMAIN registry /\ KeysOf(people[p]) \cap KeysOf(registry[k]) # {}
  <2> HIDE DEF back, people, registry
  <2> QED BY <1>2, <1>3
<1>5. PICK b \in 0..eventsDoc.frontier : IntoAt(eventsDoc.merges, generation.upTo) = IntoAt(eventsDoc.merges, b)
  BY SaveKnows
<1> DEFINE all == Merged(eventsDoc.recs, IntoAt(eventsDoc.merges, b))
           c == [id |-> k, keys |-> KeysOf(all[k])]
<1>6. registry = all
  BY <1>5
<1>7. c \in StandIns(eventsDoc)
  <2> HIDE DEF k
  <2>1. k \in DOMAIN all
    BY <1>4, <1>6
  <2>2. c \in {[id |-> i, keys |-> KeysOf(all[i])] : i \in DOMAIN all}
    BY <2>1
  <2> QED BY <2>2 DEF StandIns
<1>8. KeysOf(registry[k]) \subseteq called[k]
  <2> HIDE DEF k
  <2> QED BY <1>1, <1>6, <1>7
<1> HIDE DEF registry, people, k
<1>9. KeysOf(people[p]) \cap called[k] # {}
  BY <1>4, <1>8
<1> QED BY <1>9 DEF people, k

\* Whoever is shown under an id that stood for somebody has a name of his.
LEMMA SaveKeepsIds ==
  ASSUME Saves, ~Entangled, NEW c \in ShownAt(NewEvents(GivenBack), generation.upTo), called[c.id] # {}
  PROVE  KeysOf(c) \cap called[c.id] # {}
<1> DEFINE new == GivenBack
           doc == NewEvents(new)
           into == IntoAt(generation.merges, generation.upTo)
           people == Merged(generation.recs, into)
           saved == Merged(doc.recs, IntoAt(doc.merges, generation.upTo))
<1>1. /\ \A k : k \in DOMAIN saved <=> \E p \in DOMAIN people : k = As(new, p)
      /\ \A p \in DOMAIN people : people[p].names \subseteq saved[As(new, p)].names
  BY PeopleCarried
<1>2. c.id \in DOMAIN saved /\ c.names = saved[c.id].names
  BY SavedShown
<1>3. PICK p \in DOMAIN people : c.id = As(new, p)
  BY <1>1, <1>2
<1>4. people[p].names \subseteq c.names
  BY <1>1, <1>2, <1>3
<1>5. CASE p \in DOMAIN new
  <2>1. KeysOf(people[p]) \cap called[new[p]] # {}
    BY <1>5, GivenBackWasCalled
  <2>2. c.id = new[p]
    BY <1>3, <1>5 DEF As
  <2> HIDE DEF people, new
  <2>3. KeysOf(people[p]) \subseteq KeysOf(c)
    BY <1>4 DEF KeysOf
  <2> QED BY <2>1, <2>2, <2>3
<1>6. CASE p \notin DOMAIN new
  <2>1. c.id = p
    BY <1>3, <1>6 DEF As
  <2>2. generation.recs \in Records /\ DOMAIN generation.recs \in SUBSET CharacterIds
    BY SavesWell
  <2> HIDE DEF into, new
  <2>3. p \in DOMAIN generation.recs /\ Survivor(generation.recs, into, p) = p /\ p \in CharacterIds
    BY <2>2, MergedAre
  <2>4. generation.recs[p].names \subseteq people[p].names
    BY <2>2, <2>3, MergedWithin
  <2>5. p \in DOMAIN Base
    <3>1. SUFFICES ASSUME p \notin DOMAIN Base PROVE FALSE
      OBVIOUS
    <3>2. p >= eventsDoc.next /\ p < eventsDoc.next
      <4>1. p >= eventsDoc.next
        BY <2>3, <3>1, BaseIs
      <4>2. p < eventsDoc.next
        BY <2>1, <2>3, SavesWell DEF HistoryDoc
      <4> QED BY <4>1, <4>2
    <3>3. p \in Nat /\ eventsDoc.next \in Nat
      BY <2>3, SavesWell, IdsAreCounted
    <3> QED BY <3>2, <3>3
  <2>6. PICK n \in Base[p].names : n.name \in called[p]
    BY <2>5, BaseWasCalled
  <2>7. n \in generation.recs[p].names
    BY <2>5, <2>6, BaseIs
  <2> HIDE DEF people
  <2>8. n.name \in KeysOf(c)
    BY <1>4, <2>4, <2>7 DEF KeysOf
  <2> QED BY <2>1, <2>6, <2>8
<1> QED BY <1>5, <1>6

\* Giving ids back joins and splits nobody else: the people of a generation are the
\* people shown when it is saved.
THEOREM NobodyIsSplitOrJoined == CharacterSpec => PeopleStayWhole
<1> DEFINE people == Merged(generation.recs, IntoAt(generation.merges, generation.upTo))
           Step == eventsDoc' # eventsDoc /\ ~Entangled /\ ~Haunted =>
             {c.names : c \in ShownAt(eventsDoc', generation.upTo)} = {people[p].names : p \in DOMAIN people}
<1>1. IdentityInv /\ HistoryInv /\ [CharacterNext]_identity => Step
  BY OnlySavesWrite, SaveKeepsPeople
<1>2. IdentityInv /\ HistoryInv /\ [CharacterNext]_identity => [Step]_identity
  BY <1>1
<1> QED BY <1>2, HistoryInductive, PTL DEF CharacterSpec, PeopleStayWhole

\* An id never comes to stand for somebody else, also when it is given back.
THEOREM IdsKeepTheirPersons == CharacterSpec => IdKeepsItsPerson
<1> DEFINE Step == eventsDoc' # eventsDoc /\ ~Entangled =>
             \A c \in ShownAt(eventsDoc', eventsDoc'.frontier) :
               called[c.id] # {} => KeysOf(c) \cap called[c.id] # {}
<1>1. IdentityInv /\ HistoryInv /\ [CharacterNext]_identity => Step
  <2> SUFFICES ASSUME IdentityInv, HistoryInv, [CharacterNext]_identity, eventsDoc' # eventsDoc, ~Entangled,
                      NEW c \in ShownAt(eventsDoc', eventsDoc'.frontier), called[c.id] # {}
               PROVE  KeysOf(c) \cap called[c.id] # {}
    OBVIOUS
  <2>1. Saves /\ eventsDoc' = NewEvents(GivenBack)
    BY OnlySavesWrite
  <2>2. eventsDoc'.frontier = generation.upTo
    BY <2>1, SaveTells
  <2>3. c \in ShownAt(NewEvents(GivenBack), generation.upTo)
    BY <2>1, <2>2
  <2> QED BY <2>1, <2>3, SaveKeepsIds
<1>2. IdentityInv /\ HistoryInv /\ [CharacterNext]_identity => [Step]_identity
  BY <1>1
<1> QED BY <1>2, HistoryInductive, PTL DEF CharacterSpec, IdKeepsItsPerson

=============================================================================
