--------------------------- MODULE CacheSpecProofs --------------------------
(* For any oids and values, and any sequence of method calls: the interval   *)
(* list of an ObjectCache is always searchable by bisect, and never reaches  *)
(* past a known end.                                                         *)
EXTENDS CacheSpec, ObjectCacheProofs, FiniteSetTheorems

\* Inductive: WithinEnd needs Disjoint (setend pops from the end of the list),
\* and nextfromset needs that no oid with a value is empty.
IInv == /\ Sound(cache)
        /\ DOMAIN cache.oids \subseteq Objects

LEMMA ObjectsAreOids == OIDS \subseteq Oid /\ Objects \subseteq OIDS
BY OIDSAssumption DEF Objects

LEMMA InitSound == Init => IInv
<1> SUFFICES ASSUME Init PROVE IInv
  OBVIOUS
<1>1. cache = [oids |-> << >>, nexts |-> << >>, last |-> NoOid]
  BY DEF Init, EmptyCache
<1>2. << >> \in [{} -> Value] /\ << >> \in Seq(Entry) /\ DOMAIN << >> = {}
  OBVIOUS
<1>3. IsCache(cache)
  BY <1>1, <1>2, Made
<1>4. Disjoint(cache.nexts) /\ WithinEnd(cache)
  BY <1>1 DEF Disjoint, WithinEnd, Truthy
<1> QED BY <1>1, <1>3, <1>4 DEF IInv, Sound

\* A listing of the oids with a value, in order, as nextfromset makes it.
LEMMA ListingIsSorted ==
    ASSUME IInv, NEW ks \in Listings(DOMAIN cache.oids),
           IsSortingOf(ks, DOMAIN cache.oids)
    PROVE  /\ ks \in Seq(Oid)
           /\ \A x, y \in 1 .. Len(ks) : x < y => ks[x] \prec ks[y]
           /\ \A x \in 1 .. Len(ks) : ks[x] # << >>
<1> DEFINE S == DOMAIN cache.oids
<1>1. S \subseteq Objects /\ S \subseteq OIDS /\ S \subseteq Oid
  BY ObjectsAreOids DEF IInv
<1>2. IsFiniteSet(S)
  BY <1>1, OIDSAssumption, FS_Subset
<1>3. Cardinality(S) \in Nat
  BY <1>2, FS_CardinalityType
<1> HIDE DEF S
<1>4. ks \in [1 .. Cardinality(S) -> S]
  BY DEF Listings, S
<1>5. ks \in Seq(S) /\ Len(ks) = Cardinality(S) /\ DOMAIN ks = 1 .. Len(ks)
  BY <1>3, <1>4
<1>6. ks \in Seq(Oid) /\ \A x \in 1 .. Len(ks) : ks[x] \in S
  BY <1>1, <1>4, <1>5
<1>7. \A x \in 1 .. Len(ks) : ks[x] # << >>
  BY <1>1, <1>6 DEF Objects
<1> QED BY <1>5, <1>6, <1>7 DEF IsSortingOf

LEMMA NextSound == IInv /\ [Next]_cache => IInv'
<1> SUFFICES ASSUME IInv, [Next]_cache PROVE IInv'
  OBVIOUS
<1>0. Sound(cache) /\ DOMAIN cache.oids \subseteq Objects
  BY DEF IInv
<1>1. ASSUME NEW o \in Objects, NEW v \in Value, DoSet(o, v) PROVE IInv'
  <2>1. cache' = Set(cache, o, v) /\ o \in Oid
    BY <1>1, ObjectsAreOids DEF DoSet
  <2> QED BY <2>1, <1>0, SetSound DEF IInv
<1>2. ASSUME NEW o \in OIDS, NEW n \in OIDS, DoSetNext(o, n) PROVE IInv'
  <2>1. cache' = SetNext(cache, o, n) /\ o \prec n /\ o \in Oid /\ n \in Oid
    BY <1>2, ObjectsAreOids DEF DoSetNext
  <2> QED BY <2>1, <1>0, SetNextSound DEF IInv
<1>3. ASSUME NEW o \in OIDS, NEW n \in OIDS, NEW v \in Value, DoSetNextValue(o, n, v)
      PROVE  IInv'
  <2> DEFINE d == SetNext(cache, o, n)
  <2>1. cache' = Set(d, n, v) /\ o \prec n /\ o \in Oid /\ n \in Oid
    BY <1>3, ObjectsAreOids DEF DoSetNextValue, SetNextValue
  <2>2. Sound(d) /\ d.oids = cache.oids
    BY <2>1, <1>0, SetNextSound
  <2> HIDE DEF d
  <2>3. Sound(cache') /\ DOMAIN cache'.oids = DOMAIN cache.oids \cup {n}
    BY <2>1, <2>2, SetSound
  <2>4. n \in Objects
    <3>1. n # << >>
      BY <2>1 DEF \prec
    <3> QED BY <3>1 DEF Objects
  <2> QED BY <2>3, <2>4, <1>0 DEF IInv
<1>4. ASSUME NEW o \in OIDS, DoSetEnd(o) PROVE IInv'
  <2>1. cache' = SetEnd(cache, o) /\ o \in Oid
    BY <1>4, ObjectsAreOids DEF DoSetEnd
  <2> QED BY <2>1, <1>0, SetEndSound DEF IInv, Sound
<1>5. ASSUME NEW o \in OIDS, DoInvalidate(o) PROVE IInv'
  <2>1. cache' = Invalidate(cache, o) /\ o \in Oid
    BY <1>5, ObjectsAreOids DEF DoInvalidate
  <2> QED BY <2>1, <1>0, InvalidateSound DEF IInv
<1>6. ASSUME NEW ks \in Listings(DOMAIN cache.oids), DoNextFromSet(ks) PROVE IInv'
  <2>1. cache' = NextFromSet(cache, ks)
    BY <1>6 DEF DoNextFromSet
  <2>2. /\ ks \in Seq(Oid)
        /\ \A x, y \in 1 .. Len(ks) : x < y => ks[x] \prec ks[y]
        /\ \A x \in 1 .. Len(ks) : ks[x] # << >>
    BY <1>6, ListingIsSorted DEF DoNextFromSet
  <2> QED BY <2>1, <2>2, <1>0, NextFromSetSound DEF IInv
<1>7. CASE UNCHANGED cache
  BY <1>7 DEF IInv
<1> QED BY <1>1, <1>2, <1>3, <1>4, <1>5, <1>6, <1>7 DEF Next

LEMMA Invariance == Spec => []IInv
BY InitSound, NextSound, PTL DEF Spec

(* The cache keeps its shape: a partial map from oids to values, a list of   *)
(* entries and an end, and never a value for the empty oid (cache.py:45-56). *)
THEOREM CacheType == Spec => []TypeOK
<1>1. IInv => TypeOK
  BY DEF IInv, TypeOK, Sound
<1> QED BY <1>1, Invariance, PTL

(* After any calls the entries are non-empty, sorted, disjoint intervals, so *)
(* the bisections of get, getnext, setnext and invalidate look at the only   *)
(* entry that can hold their oid (cache.py:44-49).                           *)
THEOREM CacheDisjoint == Spec => []NextsDisjoint
<1>1. IInv => NextsDisjoint
  BY DEF IInv, NextsDisjoint, Sound
<1> QED BY <1>1, Invariance, PTL

(* After any calls no entry leads past a known end: the cache never answers  *)
(* endOfMibView for an oid before one it reports (cache.py:160-161, 208-212).*)
THEOREM CacheWithinEnd == Spec => []NextsWithinEnd
<1>1. IInv => NextsWithinEnd
  BY DEF IInv, NextsWithinEnd, Sound
<1> QED BY <1>1, Invariance, PTL

(* get never denies an oid that getnext reports (cache.py:60-73, 75-92).     *)
THEOREM CacheConsistent == Spec => []ReportedObjectsExist
<1>1. IInv => ReportedObjectsExist
  <2> SUFFICES ASSUME IInv, NEW o \in OIDS, NEW p \in OIDS,
                      GetNext(cache, p).oid = o, NextPointer(cache, p) > 0
               PROVE  Get(cache, o) # NoSuchObject
    BY DEF ReportedObjectsExist
  <2> DEFINE i == NextPointer(cache, p)
  <2>1. Sound(cache) /\ IsCache(cache) /\ p \in Oid
    BY ObjectsAreOids DEF IInv, Sound
  <2>2. i \in 1 .. Len(cache.nexts)
    <3>1. Len(cache.nexts) \in Nat
      BY <2>1 DEF IsCache
    <3>2. i \in -1 .. Len(cache.nexts) /\ i > 0
      BY <2>1, NextPointerFinds
    <3> HIDE DEF i
    <3> QED BY <3>1, <3>2
  <2>3. o = cache.nexts[i].noid
    <3>1. i # -1 /\ i # 0
      BY <2>2
    <3>2. GetNext(cache, p) = IF i = -1 THEN [oid |-> p, val |-> EndOfMibView]
             ELSE IF i = 0 THEN [oid |-> p, val |-> NotCached]
             ELSE [oid |-> cache.nexts[i].noid, val |-> Get(cache, cache.nexts[i].noid)]
      BY Zenon DEF GetNext
    <3> HIDE DEF i
    <3>3. GetNext(cache, p)
             = [oid |-> cache.nexts[i].noid, val |-> Get(cache, cache.nexts[i].noid)]
      BY <3>1, <3>2, Zenon
    <3> QED BY <3>3
  <2> QED BY <2>1, <2>2, <2>3, EndsAreOutside
<1> QED BY <1>1, Invariance, PTL

(* In every reachable cache, a setnext(o, n) makes getnext answer n for every*)
(* oid from o up to n, over whatever the list held before (cache.py:127-128).*)
THEOREM CacheLearnsNext == Spec => []NextIsLearned
<1>1. IInv => NextIsLearned
  <2> SUFFICES ASSUME IInv, NEW o \in OIDS, NEW n \in OIDS, o \prec n,
                      NEW p \in OIDS, o \preceq p, p \prec n
               PROVE  GetNext(SetNext(cache, o, n), p).oid = n
    BY DEF NextIsLearned
  <2>1. Sound(cache) /\ o \in Oid /\ n \in Oid /\ p \in Oid
    BY ObjectsAreOids DEF IInv
  <2> QED BY <2>1, SetNextLearns
<1> QED BY <1>1, Invariance, PTL

(* setnext removes only the entries that contradict the new one              *)
(* (cache.py:129, 142-160).                                                  *)
THEOREM CacheKeepsUncontradicted == Spec => UncontradictedIsKept
<1> DEFINE Keeps == \A o, n \in OIDS : DoSetNext(o, n) =>
           \A e \in Range(cache.nexts) :
               \/ e.noid \preceq o
               \/ n \preceq e.oid
               \/ e.oid \preceq o /\ e.noid = n
               => e \in Range(cache'.nexts)
<1>1. IInv /\ [Next]_cache => [Keeps]_cache
  <2> SUFFICES ASSUME IInv, NEW o \in OIDS, NEW n \in OIDS, DoSetNext(o, n),
                      NEW e \in Range(cache.nexts),
                      \/ e.noid \preceq o
                      \/ n \preceq e.oid
                      \/ e.oid \preceq o /\ e.noid = n
               PROVE  e \in Range(cache'.nexts)
    OBVIOUS
  <2> DEFINE s == cache.nexts
             t == NextsWith(s, o, n)
  <2>1. cache' = SetNext(cache, o, n) /\ o \prec n /\ IsCache(cache)
        /\ Disjoint(s) /\ s \in Seq(Entry)
    BY DEF DoSetNext, IInv, Sound, IsCache
  <2>2. o \in Oid /\ n \in Oid
    BY ObjectsAreOids
  <2>3. cache'.nexts = t
    <3> DEFINE l == IF Truthy(cache.last) /\ cache.last \prec n THEN NoOid ELSE cache.last
    <3>1. cache' = [oids |-> cache.oids, nexts |-> t, last |-> l]
      BY <2>1, UpdateBoth, Zenon DEF SetNext
    <3> HIDE DEF t, l
    <3> QED BY <3>1
  <2>4. PICK y \in 1 .. Len(s) : e = s[y]
    BY <2>1 DEF Range
  <2>5. PICK x \in 1 .. Len(t) : t[x] = s[y]
    BY <2>1, <2>2, <2>4, SetNextKeeps
  <2>6. t \in Seq(Entry)
    BY <2>1, <2>2, NextsWithEntries
  <2> HIDE DEF t, s
  <2>7. t[x] \in Range(t)
    BY <2>6 DEF Range
  <2> QED BY <2>3, <2>4, <2>5, <2>7
<1> QED BY <1>1, Invariance, PTL DEF Spec, UncontradictedIsKept

(* In every reachable cache whose end is not the empty oid, a setend(o) makes*)
(* getnext answer the end of the MIB for every oid from o on, whatever end   *)
(* was known before (cache.py:193-212).                                      *)
THEOREM CacheAnswersEnd == Spec => []EndIsAnswered
<1>1. IInv => EndIsAnswered
  <2> SUFFICES ASSUME IInv, cache.last # << >>, NEW o \in Objects,
                      NEW p \in OIDS, o \preceq p
               PROVE  GetNext(SetEnd(cache, o), p).val = EndOfMibView
    BY DEF EndIsAnswered
  <2>1. IsCache(cache)
    BY DEF IInv, Sound
  <2>2. o \in Oid /\ o # << >> /\ p \in Oid
    BY ObjectsAreOids DEF Objects
  <2> QED BY <2>1, <2>2, SetEndAnswers
<1> QED BY <1>1, Invariance, PTL

(* In every reachable cache, after invalidate(o) neither query about o is    *)
(* answered from the cache, whether o had a value, lay in a gap or past the  *)
(* end (cache.py:216-236).                                                   *)
THEOREM CacheForgets == Spec => []InvalidatedIsForgotten
<1>1. IInv => InvalidatedIsForgotten
  <2> SUFFICES ASSUME IInv, NEW o \in OIDS
               PROVE  /\ Get(Invalidate(cache, o), o) = NotCached
                      /\ GetNext(Invalidate(cache, o), o).val = NotCached
    BY DEF InvalidatedIsForgotten
  <2>1. Sound(cache) /\ o \in Oid
    BY ObjectsAreOids DEF IInv
  <2> QED BY <2>1, InvalidateForgets
<1> QED BY <1>1, Invariance, PTL

-----------------------------------------------------------------------------
(* The list as a set of claims about what follows each oid.                  *)

Covers(e, p) == e.oid \preceq p /\ p \prec e.noid
Ends(l, p)   == Truthy(l) /\ l \preceq p

ClaimOf(c, p) ==
    LET i == NextPointer(c, p)
    IN  CASE i = -1 -> EndOfMib
          [] i = 0  -> NotCached
          [] OTHER  -> c.nexts[i].noid

LEMMA SoundParts ==
    ASSUME NEW c, Sound(c)
    PROVE  /\ IsCache(c) /\ Disjoint(c.nexts) /\ WithinEnd(c)
           /\ c.nexts \in Seq(Entry) /\ Len(c.nexts) \in Nat
           /\ \A x \in 1 .. Len(c.nexts) : c.nexts[x].oid \in Oid /\ c.nexts[x].noid \in Oid
           /\ c.last \in Oid \cup {NoOid}
<1>1. IsCache(c) /\ Disjoint(c.nexts) /\ WithinEnd(c)
  BY DEF Sound
<1>2. c.nexts \in Seq(Entry) /\ c.last \in Oid \cup {NoOid}
  BY <1>1 DEF IsCache
<1> QED BY <1>1, <1>2, EntryType

\* The end speaks first, then the entry that covers the oid, if there is one.
LEMMA ClaimIs ==
    ASSUME NEW c, Sound(c), NEW p \in Oid
    PROVE  \/ ClaimOf(c, p) = EndOfMib /\ Ends(c.last, p)
           \/ /\ ClaimOf(c, p) = NotCached /\ ~ Ends(c.last, p)
              /\ \A x \in 1 .. Len(c.nexts) : ~ Covers(c.nexts[x], p)
           \/ /\ ~ Ends(c.last, p)
              /\ \E x \in 1 .. Len(c.nexts) :
                    Covers(c.nexts[x], p) /\ ClaimOf(c, p) = c.nexts[x].noid
<1> DEFINE s == c.nexts
           i == NextPointer(c, p)
           b == BisectRight(s, p)
<1>1. /\ s \in Seq(Entry) /\ Disjoint(s) /\ b \in 0 .. Len(s) /\ Len(s) \in Nat
      /\ b > 0 => s[b].oid \preceq p
  BY SoundParts, BisectRightFinds
<1>2. i = IF Ends(c.last, p) THEN -1 ELSE IF b > 0 /\ p \prec s[b].noid THEN b ELSE 0
  BY DEF NextPointer, Ends
<1> HIDE DEF b, i
<1>3. ClaimOf(c, p) = IF i = -1 THEN EndOfMib ELSE IF i = 0 THEN NotCached ELSE s[i].noid
  BY DEF ClaimOf, i
<1>4. CASE Ends(c.last, p)
  BY <1>2, <1>3, <1>4
<1>5. CASE ~ Ends(c.last, p) /\ b > 0 /\ p \prec s[b].noid
  <2>1. i = b /\ b \in 1 .. Len(s) /\ i # -1 /\ i # 0
    BY <1>1, <1>2, <1>5
  <2>2. ClaimOf(c, p) = s[b].noid
    BY <1>3, <2>1
  <2> QED BY <1>1, <1>5, <2>1, <2>2 DEF Covers
<1>6. CASE ~ Ends(c.last, p) /\ ~ (b > 0 /\ p \prec s[b].noid)
  <2>1. i = 0 /\ ClaimOf(c, p) = NotCached
    BY <1>2, <1>3, <1>6
  <2>2. ASSUME NEW x \in 1 .. Len(s), Covers(s[x], p) PROVE FALSE
    <3>1. b = x
      BY <1>1, <2>2, CoverIsFound DEF Covers, b
    <3> QED BY <1>1, <1>6, <2>2, <3>1 DEF Covers
  <2> QED BY <1>6, <2>1, <2>2
<1> QED BY <1>4, <1>5, <1>6

LEMMA ClaimCovered ==
    ASSUME NEW c, Sound(c), NEW p \in Oid, NEW x \in 1 .. Len(c.nexts), Covers(c.nexts[x], p)
    PROVE  ClaimOf(c, p) = c.nexts[x].noid
<1> DEFINE s == c.nexts
<1>1. /\ s \in Seq(Entry) /\ Disjoint(s) /\ WithinEnd(c)
      /\ s[x].oid \in Oid /\ s[x].noid \in Oid /\ c.last \in Oid \cup {NoOid}
  BY SoundParts
<1>2. ~ Ends(c.last, p)
  <2> SUFFICES ASSUME Ends(c.last, p) PROVE FALSE
    OBVIOUS
  <2>1. c.last \in Oid /\ c.last \preceq p /\ s[x].noid \preceq c.last /\ p \prec s[x].noid
    BY <1>1 DEF Ends, Truthy, WithinEnd, Covers
  <2> QED BY <1>1, <2>1, PrecTransitive, PrecIrreflexive DEF \preceq
<1>3. PICK y \in 1 .. Len(s) : Covers(s[y], p) /\ ClaimOf(c, p) = s[y].noid
  BY <1>2, ClaimIs
<1>4. x = y
  <2>1. BisectRight(s, p) = x
    BY <1>1, CoverIsFound DEF Covers
  <2>2. BisectRight(s, p) = y
    BY <1>1, <1>3, CoverIsFound DEF Covers
  <2> QED BY <2>1, <2>2
<1> QED BY <1>3, <1>4

LEMMA ClaimType ==
    ASSUME NEW c, Sound(c), NEW p \in Oid, NEW m, ClaimOf(c, p) = m,
           m \notin {EndOfMib, NotCached}
    PROVE  \E x \in 1 .. Len(c.nexts) : Covers(c.nexts[x], p) /\ m = c.nexts[x].noid /\ m \in Oid
BY ClaimIs, SoundParts

\* Nothing is claimed that was not, if no entry is new and the end is not.
LEMMA OnlyForgets ==
    ASSUME NEW c, Sound(c), NEW d, Sound(d),
           \A x \in 1 .. Len(d.nexts) : \E y \in 1 .. Len(c.nexts) : d.nexts[x] = c.nexts[y],
           Truthy(d.last) => d.last = c.last,
           NEW p \in Oid
    PROVE  ClaimOf(d, p) = ClaimOf(c, p) \/ ClaimOf(d, p) = NotCached
<1>1. CASE ClaimOf(d, p) = EndOfMib /\ Ends(d.last, p)
  <2>1. Ends(c.last, p)
    BY <1>1 DEF Ends
  <2> QED BY <1>1, <2>1, ClaimIs
<1>2. CASE \E x \in 1 .. Len(d.nexts) : Covers(d.nexts[x], p) /\ ClaimOf(d, p) = d.nexts[x].noid
  <2>1. PICK x \in 1 .. Len(d.nexts) : Covers(d.nexts[x], p) /\ ClaimOf(d, p) = d.nexts[x].noid
    BY <1>2
  <2>2. PICK y \in 1 .. Len(c.nexts) : d.nexts[x] = c.nexts[y]
    OBVIOUS
  <2> QED BY <2>1, <2>2, ClaimCovered
<1> QED BY <1>1, <1>2, ClaimIs

\* What setnext, setend, invalidate and nextfromset leave.
LEMMA SetNextLeaves ==
    ASSUME NEW c, IsCache(c), NEW o, NEW n
    PROVE  /\ SetNext(c, o, n).nexts = NextsWith(c.nexts, o, n)
           /\ SetNext(c, o, n).last
                 = IF Truthy(c.last) /\ c.last \prec n THEN NoOid ELSE c.last
<1> DEFINE t == NextsWith(c.nexts, o, n)
           l == IF Truthy(c.last) /\ c.last \prec n THEN NoOid ELSE c.last
<1>1. SetNext(c, o, n) = [c EXCEPT !.nexts = t, !.last = l]
  BY DEF SetNext
<1> HIDE DEF t, l
<1>2. SetNext(c, o, n) = [oids |-> c.oids, nexts |-> t, last |-> l]
  BY <1>1, UpdateBoth, Zenon
<1>3. SetNext(c, o, n).nexts = t /\ SetNext(c, o, n).last = l
  BY <1>2
<1> QED BY <1>3 DEF t, l

LEMMA SetEndLeaves ==
    ASSUME NEW c, IsCache(c), NEW o
    PROVE  IF c.last # NoOid /\ c.last \prec o THEN SetEnd(c, o) = c
           ELSE SetEnd(c, o).nexts = NextsUpTo(c.nexts, o) /\ SetEnd(c, o).last = o
<1>1. CASE c.last # NoOid /\ c.last \prec o
  BY <1>1 DEF SetEnd
<1>2. CASE ~ (c.last # NoOid /\ c.last \prec o)
  <2> DEFINE t == NextsUpTo(c.nexts, o)
  <2>1. SetEnd(c, o) = [c EXCEPT !.nexts = t, !.last = o]
    BY <1>2 DEF SetEnd
  <2> HIDE DEF t
  <2>2. SetEnd(c, o) = [oids |-> c.oids, nexts |-> t, last |-> o]
    BY <2>1, UpdateBoth, Zenon
  <2>3. SetEnd(c, o).nexts = t /\ SetEnd(c, o).last = o
    BY <2>2
  <2> QED BY <1>2, <2>3 DEF t
<1> QED BY <1>1, <1>2

\* invalidate adds no entry and no end.
LEMMA InvalidateLeaves ==
    ASSUME NEW c, Sound(c), NEW o \in Oid
    PROVE  /\ \A x \in 1 .. Len(Invalidate(c, o).nexts) :
                 \E y \in 1 .. Len(c.nexts) : Invalidate(c, o).nexts[x] = c.nexts[y]
           /\ Invalidate(c, o).last \in {NoOid, c.last}
<1> DEFINE a == [p \in DOMAIN c.oids \ {o} |-> c.oids[p]]
           b == [c EXCEPT !.oids = a]
           i == NextPointer(c, o)
           r == RemoveAt(c.nexts, i)
<1>1. IsCache(c) /\ c.nexts \in Seq(Entry) /\ Len(c.nexts) \in Nat
  BY SoundParts
<1>2. i \in -1 .. Len(c.nexts)
  BY <1>1, NextPointerFinds
<1>3. b.nexts = c.nexts /\ b.last = c.last /\ DOMAIN b = {"oids", "nexts", "last"}
  <2>1. b = [oids |-> a, nexts |-> c.nexts, last |-> c.last]
    BY <1>1, UpdateOids
  <2> HIDE DEF a, b
  <2> QED BY <2>1
<1>4. Invalidate(c, o) = IF i = -1 THEN [b EXCEPT !.last = NoOid]
                         ELSE IF i = 0 THEN b ELSE [b EXCEPT !.nexts = r]
  <2> HIDE DEF a
  <2> QED BY <1>3, Zenon DEF Invalidate, a
<1> HIDE DEF a, b, i, r
<1>5. CASE i = -1
  <2>1. Invalidate(c, o) = [b EXCEPT !.last = NoOid]
    BY <1>4, <1>5
  <2>2. Invalidate(c, o).nexts = c.nexts /\ Invalidate(c, o).last = NoOid
    BY <2>1, <1>3
  <2> QED BY <2>2
<1>6. CASE i = 0
  BY <1>3, <1>4, <1>6
<1>7. CASE i > 0
  <2>1. Invalidate(c, o) = [b EXCEPT !.nexts = r] /\ i \in 1 .. Len(c.nexts)
    BY <1>2, <1>4, <1>7
  <2>2. Invalidate(c, o).nexts = r /\ Invalidate(c, o).last = c.last
    BY <2>1, <1>3
  <2>3. \A x \in 1 .. Len(r) : \E y \in 1 .. Len(c.nexts) : r[x] = c.nexts[y]
    BY <2>1, <1>1, RemoveAtThinned DEF r
  <2> QED BY <2>2, <2>3
<1> QED BY <1>1, <1>2, <1>5, <1>6, <1>7

\* What is claimed after setnext(o, n).
LEMMA SetNextClaims ==
    ASSUME NEW c, Sound(c), NEW o \in Oid, NEW n \in Oid, o \prec n,
           NEW d, Sound(d), d.nexts = NextsWith(c.nexts, o, n),
           d.last = IF Truthy(c.last) /\ c.last \prec n THEN NoOid ELSE c.last,
           NEW p \in Oid
    PROVE  IF o \preceq p /\ p \prec n THEN ClaimOf(d, p) = n
           ELSE /\ ClaimOf(d, p) = ClaimOf(c, p) \/ ClaimOf(d, p) = NotCached
                /\ ClaimOf(d, p) = EndOfMib => ~ (p \prec n)
                /\ ClaimOf(d, p) \notin {EndOfMib, NotCached} =>
                      /\ ~ (p \prec n /\ n \prec ClaimOf(d, p))
                      /\ ~ (o \prec ClaimOf(d, p) /\ ClaimOf(d, p) \prec n)
<1> DEFINE t == d.nexts
           s == c.nexts
<1>1. /\ t \in Seq(Entry) /\ Disjoint(t) /\ Len(t) \in Nat
      /\ \A x \in 1 .. Len(t) : t[x].oid \in Oid /\ t[x].noid \in Oid
      /\ s \in Seq(Entry) /\ c.last \in Oid \cup {NoOid} /\ NoOid \notin Oid
      /\ EndOfMib \notin Oid /\ NotCached \notin Oid
  BY SoundParts, SentinelAssumption
<1>2. \A x \in 1 .. Len(t) : \/ t[x] = [oid |-> o, noid |-> n]
                             \/ \E y \in 1 .. Len(s) : t[x] = s[y]
  BY <1>1, NextsWithEntries
<1>3. PICK z \in 1 .. Len(t) : t[z].oid \preceq o /\ t[z].noid = n
  <2>1. GetNext(SetNext(c, o, n), o).oid = n
    BY SetNextLearns DEF \preceq
  <2> DEFINE e == SetNext(c, o, n)
             i == NextPointer(e, o)
  <2>2. Sound(e) /\ IsCache(c)
    BY SetNextSound, SoundParts
  <2>3. e.nexts = t
    BY <2>2, SetNextLeaves
  <2> HIDE DEF e
  <2>4. GetNext(e, o) = IF i = -1 THEN [oid |-> o, val |-> EndOfMibView]
             ELSE IF i = 0 THEN [oid |-> o, val |-> NotCached]
             ELSE [oid |-> e.nexts[i].noid, val |-> Get(e, e.nexts[i].noid)]
    BY Zenon DEF GetNext
  <2>5. i \in -1 .. Len(t) /\ (i > 0 => t[i].oid \preceq o)
    BY <2>2, <2>3, SoundParts, NextPointerFinds
  <2> HIDE DEF i
  <2>6. o # n
    BY PrecIrreflexive
  <2>7. i # -1 /\ i # 0
    BY <2>1, <2>4, <2>6 DEF e
  <2>8. e.nexts[i].noid = n
    BY <2>1, <2>4, <2>7 DEF e
  <2>9. i \in 1 .. Len(t)
    BY <1>1, <2>5, <2>7
  <2> QED BY <2>3, <2>5, <2>8, <2>9
<1>4. CASE o \preceq p /\ p \prec n
  <2>1. t[z].oid \preceq p
    BY <1>1, <1>3, <1>4, PrecTransitive DEF \preceq
  <2> QED BY <1>3, <1>4, <2>1, ClaimCovered DEF Covers
<1>5. CASE ~ (o \preceq p /\ p \prec n)
  <2>1. CASE ClaimOf(d, p) = EndOfMib
    <3>1. Ends(d.last, p)
      BY <1>1, <2>1, ClaimIs, SoundParts, SentinelAssumption
    <3>2. d.last = c.last /\ ~ (c.last \prec n) /\ c.last \in Oid /\ c.last \preceq p
      BY <1>1, <3>1 DEF Ends, Truthy
    <3>3. ClaimOf(c, p) = EndOfMib
      BY <3>1, <3>2, ClaimIs
    <3>4. ~ (p \prec n)
      BY <3>2, PrecTransitive, PrecTotal DEF \preceq
    <3> QED BY <1>5, <2>1, <3>3, <3>4
  <2>2. CASE ClaimOf(d, p) \notin {EndOfMib, NotCached}
    <3> DEFINE m == ClaimOf(d, p)
    <3>1. PICK x \in 1 .. Len(t) : Covers(t[x], p) /\ m = t[x].noid
      BY <2>2, ClaimType
    <3>2. m \in Oid /\ t[x].oid \preceq p /\ p \prec m
      BY <1>1, <3>1 DEF Covers
    <3> HIDE DEF m
    <3>3. t[x] # [oid |-> o, noid |-> n]
      BY <1>5, <3>1 DEF Covers
    <3>4. PICK y \in 1 .. Len(s) : t[x] = s[y]
      BY <1>2, <3>3
    <3>5. ClaimOf(c, p) = m
      BY <3>1, <3>4, ClaimCovered
    <3>6. ~ (p \prec n /\ n \prec m) /\ ~ (o \prec m /\ m \prec n)
      <4>1. CASE x = z
        BY <1>3, <3>1, <4>1, PrecIrreflexive
      <4>2. CASE x < z
        <5>1. z \in x + 1 .. Len(t)
          BY <1>1, <4>2
        <5>2. m \preceq t[z].oid
          BY <1>1, <3>1, <5>1 DEF Disjoint
        <5>3. m \preceq o
          BY <1>1, <1>3, <3>2, <5>2, PrecTransitive DEF \preceq
        <5> QED BY <3>2, <5>3, PrecTransitive, PrecIrreflexive DEF \preceq
      <4>3. CASE z < x
        <5>1. x \in z + 1 .. Len(t)
          BY <1>1, <4>3
        <5>2. n \preceq t[x].oid /\ t[x].oid \in Oid
          BY <1>1, <1>3, <5>1 DEF Disjoint
        <5>3. n \preceq p
          BY <3>2, <5>2, PrecTransitive DEF \preceq
        <5> QED BY <3>2, <5>3, PrecTransitive, PrecIrreflexive DEF \preceq
      <4>4. x \in Int /\ z \in Int
        BY <1>1
      <4> QED BY <4>1, <4>2, <4>3, <4>4
    <3> QED BY <1>5, <2>2, <3>5, <3>6 DEF m
  <2>3. CASE ClaimOf(d, p) = NotCached
    <3>1. NotCached # EndOfMib
      BY SentinelAssumption
    <3> QED BY <1>5, <2>3, <3>1
  <2> QED BY <2>1, <2>2, <2>3
<1> QED BY <1>4, <1>5

\* What is claimed after setend(o) stored its end.
LEMMA SetEndClaims ==
    ASSUME NEW c, Sound(c), NEW o \in Oid, o # << >>,
           NEW d, Sound(d), d.nexts = NextsUpTo(c.nexts, o), d.last = o,
           NEW p \in Oid
    PROVE  IF o \preceq p THEN ClaimOf(d, p) = EndOfMib
           ELSE /\ ClaimOf(d, p) # EndOfMib
                /\ ClaimOf(d, p) = ClaimOf(c, p) \/ ClaimOf(d, p) = NotCached
                /\ ClaimOf(d, p) # NotCached => ClaimOf(d, p) \preceq o
<1>1. /\ Len(d.nexts) \in Nat /\ c.nexts \in Seq(Entry) /\ Disjoint(c.nexts)
      /\ NoOid \notin Oid /\ NotCached \notin Oid /\ EndOfMib \notin Oid /\ NotCached # EndOfMib
  BY SoundParts, SentinelAssumption
<1>2. Truthy(o)
  BY <1>1 DEF Truthy
<1>3. CASE o \preceq p
  <2>1. Ends(d.last, p)
    BY <1>2, <1>3 DEF Ends
  <2> QED BY <1>3, <2>1, ClaimIs
<1>4. CASE ~ (o \preceq p)
  <2>1. ~ Ends(d.last, p)
    BY <1>4 DEF Ends
  <2>2. CASE ClaimOf(d, p) = NotCached
    BY <1>1, <1>4, <2>2
  <2>3. CASE \E x \in 1 .. Len(d.nexts) : Covers(d.nexts[x], p) /\ ClaimOf(d, p) = d.nexts[x].noid
    <3>1. PICK x \in 1 .. Len(d.nexts) : Covers(d.nexts[x], p) /\ ClaimOf(d, p) = d.nexts[x].noid
      BY <2>3
    <3>2. d.nexts[x].noid \in Oid /\ d.nexts[x].noid \preceq o
      BY <1>1, SoundParts, NextsUpToWithin
    <3>3. PICK y \in 1 .. Len(c.nexts) : d.nexts[x] = c.nexts[y]
      BY <1>1, NextsUpToThinned, ThinnedEntries
    <3>4. ClaimOf(c, p) = ClaimOf(d, p)
      BY <3>1, <3>3, ClaimCovered
    <3> QED BY <1>1, <1>4, <3>1, <3>2, <3>4
  <2> QED BY <2>1, <2>2, <2>3, ClaimIs
<1> QED BY <1>3, <1>4

LEMMA PairsAre ==
    ASSUME NEW ks \in Seq(Oid)
    PROVE  /\ Len(Pairs(ks)) = Len(ks)
           /\ \A x \in 1 .. Len(ks) :
                 /\ Pairs(ks)[x].noid = ks[x]
                 /\ Pairs(ks)[x].oid = IF x = 1 THEN << >> ELSE ks[x - 1]
<1>1. Len(ks) \in Nat /\ DOMAIN ks = 1 .. Len(ks)
  OBVIOUS
<1>2. Pairs(ks) = [x \in 1 .. Len(ks) |->
                     [oid |-> IF x = 1 THEN << >> ELSE ks[x - 1], noid |-> ks[x]]]
  BY <1>1 DEF Pairs
<1> QED BY <1>1, <1>2

\* setend pops nothing off a list that ends by its end.
LEMMA NothingPopped ==
    ASSUME NEW s \in Seq(Entry), NEW o \in Oid, \A x \in 1 .. Len(s) : s[x].noid \preceq o
    PROVE  NextsUpTo(s, o) = s
<1> DEFINE m == LastUpTo(s, o)
<1>1. m \in 0 .. Len(s) /\ Len(s) \in Nat /\ \A k \in m + 1 .. Len(s) : ~ (s[k].noid \preceq o)
  BY LastUpToFinds
<1> HIDE DEF m
<1>2. m = Len(s)
  <2> SUFFICES ASSUME m # Len(s) PROVE FALSE
    OBVIOUS
  <2>1. Len(s) \in m + 1 .. Len(s) /\ Len(s) \in 1 .. Len(s)
    BY <1>1
  <2> QED BY <1>1, <2>1
<1>3. SubSeq(s, 1, Len(s)) = s
  OBVIOUS
<1> QED BY <1>2, <1>3 DEF NextsUpTo, m

\* What nextfromset leaves: the pairs, and the end unless it was the empty oid.
LEMMA NextFromSetLeaves ==
    ASSUME NEW c, Sound(c), NEW ks \in Seq(Oid),
           \A x, y \in 1 .. Len(ks) : x < y => ks[x] \prec ks[y],
           \A x \in 1 .. Len(ks) : ks[x] # << >>
    PROVE  /\ NextFromSet(c, ks).nexts = Pairs(ks)
           /\ Truthy(NextFromSet(c, ks).last) =>
                 ks # << >> /\ NextFromSet(c, ks).last = ks[Len(ks)]
<1> DEFINE end == IF ks = << >> THEN << >> ELSE ks[Len(ks)]
           l   == IF Truthy(c.last) /\ c.last \prec end THEN NoOid ELSE c.last
           b   == [c EXCEPT !.nexts = Pairs(ks), !.last = l]
           t   == Pairs(ks)
<1>1. /\ IsCache(c) /\ DOMAIN c.oids \subseteq Oid /\ c.oids \in [DOMAIN c.oids -> Value]
      /\ c.last \in Oid \cup {NoOid}
  BY SoundParts DEF IsCache
<1>2. t \in Seq(Entry) /\ Len(t) = Len(ks) /\ \A x \in 1 .. Len(ks) : t[x].noid = ks[x]
  BY PairsDisjoint, PairsAre
<1>3. Len(ks) \in Nat /\ end \in Oid
  <2>1. << >> \in Oid
    BY DEF Oid
  <2>2. ks # << >> => ks[Len(ks)] \in Oid
    OBVIOUS
  <2> QED BY <2>1, <2>2
<1>4. \A x \in 1 .. Len(t) : t[x].noid \preceq end
  <2> SUFFICES ASSUME NEW x \in 1 .. Len(ks) PROVE ks[x] \preceq end
    BY <1>2
  <2>1. ks # << >> /\ end = ks[Len(ks)] /\ Len(ks) \in 1 .. Len(ks)
    BY <1>3
  <2>2. x = Len(ks) \/ x < Len(ks)
    BY <1>3
  <2> HIDE DEF end
  <2> QED BY <2>1, <2>2 DEF \preceq
<1>5. NextFromSet(c, ks) = SetEnd(b, end)
  BY DEF NextFromSet
<1>6. b.nexts = t /\ b.last = l /\ IsCache(b)
  <2>1. l \in Oid \cup {NoOid}
    BY <1>1
  <2> HIDE DEF l, t
  <2>2. b = [oids |-> c.oids, nexts |-> t, last |-> l]
    BY <1>1, UpdateBoth, Zenon DEF t
  <2>3. IsCache([oids |-> c.oids, nexts |-> t, last |-> l])
    BY <1>1, <1>2, <2>1, Made
  <2> HIDE DEF b
  <2> QED BY <2>2, <2>3
<1>7. CASE l # NoOid /\ l \prec end
  <2>1. SetEnd(b, end) = b
    <3> HIDE DEF l, b, end, t
    <3> QED BY <1>6, <1>7, SetEndLeaves
  <2>2. ~ Truthy(l)
    <3>1. l = c.last /\ ~ (Truthy(c.last) /\ c.last \prec end)
      BY <1>7, Zenon
    <3> QED BY <1>7, <3>1
  <2> HIDE DEF l, b, end, t
  <2> QED BY <1>5, <1>6, <2>1, <2>2 DEF t
<1>8. CASE ~ (l # NoOid /\ l \prec end)
  <2>1. SetEnd(b, end).nexts = NextsUpTo(t, end) /\ SetEnd(b, end).last = end
    <3> HIDE DEF l, b, end, t
    <3> QED BY <1>6, <1>8, SetEndLeaves
  <2>2. NextsUpTo(t, end) = t
    <3> HIDE DEF end, t
    <3> QED BY <1>2, <1>3, <1>4, NothingPopped
  <2>3. Truthy(end) => ks # << >> /\ end = ks[Len(ks)]
    BY DEF Truthy
  <2> HIDE DEF l, b, end, t
  <2> QED BY <1>5, <2>1, <2>2, <2>3 DEF t
<1> QED BY <1>7, <1>8

\* What is claimed after nextfromset: the next of the keys, for every oid.
LEMMA NextFromSetClaims ==
    ASSUME NEW ks \in Seq(Oid), \A x, y \in 1 .. Len(ks) : x < y => ks[x] \prec ks[y],
           NEW d, Sound(d), d.nexts = Pairs(ks),
           Truthy(d.last) => ks # << >> /\ d.last = ks[Len(ks)],
           NEW p \in Oid
    PROVE  IF \E y \in 1 .. Len(ks) : p \prec ks[y]
           THEN \E x \in 1 .. Len(ks) :
                   /\ ClaimOf(d, p) = ks[x] /\ p \prec ks[x]
                   /\ \A y \in 1 .. Len(ks) : p \prec ks[y] => ks[x] \preceq ks[y]
           ELSE ClaimOf(d, p) = IF Truthy(d.last) THEN EndOfMib ELSE NotCached
<1> DEFINE t == Pairs(ks)
<1>1. /\ Len(t) = Len(ks) /\ Len(ks) \in Nat
      /\ \A x \in 1 .. Len(ks) : /\ t[x].noid = ks[x]
                                 /\ t[x].oid = IF x = 1 THEN << >> ELSE ks[x - 1]
  BY PairsAre
<1>2. \A x \in 1 .. Len(ks) : ks[x] \in Oid
  OBVIOUS
<1>3. CASE \E y \in 1 .. Len(ks) : p \prec ks[y]
  <2> DEFINE T == {y \in 1 .. Len(ks) : p \prec ks[y]}
  <2>1. T # {} /\ T \in SUBSET Nat
    BY <1>3
  <2>2. \E x \in T : \A y \in T : x <= y
    <3> HIDE DEF T
    <3> QED BY <2>1, LeastNat
  <2>3. PICK x \in T : \A y \in T : x <= y
    BY <2>2
  <2>4. x \in 1 .. Len(ks) /\ p \prec ks[x] /\ \A y \in 1 .. Len(ks) : p \prec ks[y] => x <= y
    BY <2>3
  <2>5. t[x].oid \preceq p
    <3>1. CASE x = 1
      <4>1. t[x].oid = << >>
        BY <1>1, <2>4, <3>1
      <4> QED BY <4>1, EmptyIsLeast DEF \preceq
    <3>2. CASE x # 1
      <4>1. x - 1 \in 1 .. Len(ks) /\ ~ (x <= x - 1) /\ t[x].oid = ks[x - 1]
        BY <1>1, <2>4, <3>2
      <4>2. ~ (p \prec ks[x - 1])
        BY <2>4, <4>1
      <4> QED BY <1>2, <4>1, <4>2, PrecTotal DEF \preceq
    <3> QED BY <3>1, <3>2
  <2>6. ClaimOf(d, p) = ks[x]
    <3>1. Covers(t[x], p) /\ x \in 1 .. Len(t)
      BY <1>1, <2>4, <2>5 DEF Covers
    <3> HIDE DEF t
    <3>2. ClaimOf(d, p) = t[x].noid
      BY <3>1, ClaimCovered DEF t
    <3> QED BY <1>1, <2>4, <3>2
  <2>7. ASSUME NEW y \in 1 .. Len(ks), p \prec ks[y] PROVE ks[x] \preceq ks[y]
    <3>1. x = y \/ x < y
      BY <1>1, <2>4, <2>7
    <3> QED BY <2>4, <3>1 DEF \preceq
  <2> QED BY <1>3, <2>4, <2>6, <2>7
<1>4. CASE ~ \E y \in 1 .. Len(ks) : p \prec ks[y]
  <2>1. \A x \in 1 .. Len(d.nexts) : ~ Covers(d.nexts[x], p)
    BY <1>1, <1>4 DEF Covers
  <2>2. CASE Truthy(d.last)
    <3>1. Len(ks) \in 1 .. Len(ks) /\ d.last = ks[Len(ks)]
      BY <1>1, <2>2
    <3>2. ~ (p \prec d.last) /\ d.last \in Oid
      BY <1>2, <1>4, <3>1
    <3>3. Ends(d.last, p)
      BY <2>2, <3>2, PrecTotal DEF Ends, \preceq
    <3> QED BY <1>4, <2>2, <3>3, ClaimIs
  <2>3. CASE ~ Truthy(d.last)
    <3>1. ~ Ends(d.last, p)
      BY <2>3 DEF Ends
    <3>2. ClaimOf(d, p) = NotCached
      BY <2>1, <3>1, ClaimIs
    <3> QED BY <1>4, <2>3, <3>2
  <2> QED BY <2>2, <2>3
<1> QED BY <1>3, <1>4

-----------------------------------------------------------------------------
(* The refinement.                                                           *)

\* Every entry leads to an oid that callers use.
Known == \A x \in 1 .. Len(cache.nexts) : cache.nexts[x].noid \in OIDS

LEMMA SamePrec ==
    /\ \A a, b : Claims!\prec(a, b) <=> a \prec b
    /\ \A a, b : Claims!\preceq(a, b) <=> a \preceq b
<1>1. \A a, b : Claims!\prec(a, b) <=> a \prec b
  BY DEF Claims!\prec, \prec
<1> QED BY <1>1 DEF Claims!\preceq, \preceq

\* The claims before and after a step.
Claimed(c) == [p \in OIDS |-> ClaimOf(c, p)]

LEMMA ClaimedIs ==
    /\ [p \in OIDS |-> NextOf(p)] = Claimed(cache)
    /\ [p \in OIDS |-> NextOf(p)]' = Claimed(cache')
BY DEF Claimed, ClaimOf, NextOf

LEMMA ClaimedType ==
    ASSUME NEW c, Sound(c), \A x \in 1 .. Len(c.nexts) : c.nexts[x].noid \in OIDS
    PROVE  Claimed(c) \in [OIDS -> OIDS \cup {NotCached, EndOfMib}]
<1> SUFFICES ASSUME NEW p \in OIDS PROVE ClaimOf(c, p) \in OIDS \cup {NotCached, EndOfMib}
  BY DEF Claimed
<1>1. p \in Oid
  BY ObjectsAreOids
<1> QED BY <1>1, ClaimIs

\* A step that adds neither an entry nor an end forgets claims at most.
LEMMA ForgetStep ==
    ASSUME NEW c, Sound(c), \A x \in 1 .. Len(c.nexts) : c.nexts[x].noid \in OIDS,
           NEW d, Sound(d),
           \A x \in 1 .. Len(d.nexts) : \E y \in 1 .. Len(c.nexts) : d.nexts[x] = c.nexts[y],
           Truthy(d.last) => d.last = c.last
    PROVE  /\ Claims!Forget(Claimed(c), Claimed(d))
           /\ \A x \in 1 .. Len(d.nexts) : d.nexts[x].noid \in OIDS
<1>1. ASSUME NEW p \in OIDS PROVE Claims!KeepOrForget(Claimed(c), Claimed(d), p)
  <2>1. ClaimOf(d, p) = ClaimOf(c, p) \/ ClaimOf(d, p) = NotCached
    BY ObjectsAreOids, OnlyForgets
  <2> QED BY <2>1 DEF Claims!KeepOrForget, Claimed
<1>2. Claims!Forget(Claimed(c), Claimed(d))
  BY <1>1 DEF Claims!Forget
<1> QED BY <1>2

\* setnext is learning.
LEMMA LearnStep ==
    ASSUME NEW c, Sound(c), \A x \in 1 .. Len(c.nexts) : c.nexts[x].noid \in OIDS,
           NEW o \in OIDS, NEW n \in OIDS, o \prec n,
           NEW d, Sound(d), d.nexts = NextsWith(c.nexts, o, n),
           d.last = IF Truthy(c.last) /\ c.last \prec n THEN NoOid ELSE c.last
    PROVE  /\ Claims!Learn(Claimed(c), Claimed(d), o, n)
           /\ \A x \in 1 .. Len(d.nexts) : d.nexts[x].noid \in OIDS
<1>1. o \in Oid /\ n \in Oid /\ c.nexts \in Seq(Entry)
  BY ObjectsAreOids, SoundParts
<1>2. ASSUME NEW x \in 1 .. Len(d.nexts) PROVE d.nexts[x].noid \in OIDS
  <2>1. CASE d.nexts[x] = [oid |-> o, noid |-> n]
    BY <2>1
  <2>2. CASE \E y \in 1 .. Len(c.nexts) : d.nexts[x] = c.nexts[y]
    BY <2>2
  <2> QED BY <1>1, <2>1, <2>2, NextsWithEntries
<1>3. ASSUME NEW p \in OIDS
      PROVE  IF o \preceq p /\ p \prec n THEN Claimed(d)[p] = n
             ELSE /\ Claims!KeepOrForget(Claimed(c), Claimed(d), p)
                  /\ Claimed(d)[p] # NotCached => ~ Claims!Contradict(p, Claimed(d)[p], o, n)
  <2> DEFINE m == ClaimOf(d, p)
  <2>0. p \in Oid /\ Claimed(d)[p] = m /\ Claimed(c)[p] = ClaimOf(c, p)
    BY ObjectsAreOids DEF Claimed
  <2>1. IF o \preceq p /\ p \prec n THEN m = n
        ELSE /\ m = ClaimOf(c, p) \/ m = NotCached
             /\ m = EndOfMib => ~ (p \prec n)
             /\ m \notin {EndOfMib, NotCached} =>
                   ~ (p \prec n /\ n \prec m) /\ ~ (o \prec m /\ m \prec n)
    BY <1>1, <2>0, SetNextClaims
  <2> HIDE DEF m
  <2>2. CASE o \preceq p /\ p \prec n
    BY <2>0, <2>1, <2>2
  <2>3. CASE ~ (o \preceq p /\ p \prec n)
    <3>1. Claims!KeepOrForget(Claimed(c), Claimed(d), p)
      BY <2>0, <2>1, <2>3 DEF Claims!KeepOrForget
    <3>2. ASSUME m # NotCached PROVE ~ Claims!Contradict(p, m, o, n)
      BY <2>1, <2>3, <3>2, SamePrec DEF Claims!Contradict
    <3> QED BY <2>0, <2>3, <3>1, <3>2
  <2> QED BY <2>2, <2>3
<1>4. Claims!Learn(Claimed(c), Claimed(d), o, n)
  BY <1>3, SamePrec DEF Claims!Learn
<1> QED BY <1>2, <1>4

\* setend is learning the end, or forgetting.
LEMMA EndStep ==
    ASSUME NEW c, Sound(c), \A x \in 1 .. Len(c.nexts) : c.nexts[x].noid \in OIDS,
           NEW o \in OIDS, NEW d, Sound(d),
           IF c.last # NoOid /\ c.last \prec o THEN d = c
           ELSE d.nexts = NextsUpTo(c.nexts, o) /\ d.last = o
    PROVE  /\ \/ Claims!Forget(Claimed(c), Claimed(d))
              \/ Claims!LearnEnd(Claimed(c), Claimed(d), o)
           /\ \A x \in 1 .. Len(d.nexts) : d.nexts[x].noid \in OIDS
<1>1. o \in Oid /\ c.nexts \in Seq(Entry)
  BY ObjectsAreOids, SoundParts
<1>2. CASE c.last # NoOid /\ c.last \prec o
  BY <1>2, ForgetStep
<1>3. CASE ~ (c.last # NoOid /\ c.last \prec o)
  <2>1. d.nexts = NextsUpTo(c.nexts, o) /\ d.last = o
    BY <1>3
  <2>2. \A x \in 1 .. Len(d.nexts) : \E y \in 1 .. Len(c.nexts) : d.nexts[x] = c.nexts[y]
    BY <1>1, <2>1, NextsUpToThinned, ThinnedEntries
  <2>3. CASE o = << >>
    <3>1. ~ Truthy(d.last)
      BY <2>1, <2>3 DEF Truthy
    <3> QED BY <2>2, <3>1, ForgetStep
  <2>4. CASE o # << >>
    <3>1. ASSUME NEW p \in OIDS
          PROVE  IF o \preceq p THEN Claimed(d)[p] = EndOfMib
                 ELSE /\ Claims!KeepOrForget(Claimed(c), Claimed(d), p)
                      /\ Claimed(d)[p] \notin {NotCached, EndOfMib} => Claimed(d)[p] \preceq o
      <4>1. p \in Oid /\ Claimed(d)[p] = ClaimOf(d, p) /\ Claimed(c)[p] = ClaimOf(c, p)
        BY ObjectsAreOids DEF Claimed
      <4> QED BY <1>1, <2>1, <2>4, <4>1, SetEndClaims DEF Claims!KeepOrForget
    <3>2. Claims!LearnEnd(Claimed(c), Claimed(d), o)
      BY <3>1, SamePrec DEF Claims!LearnEnd
    <3>3. \A x \in 1 .. Len(d.nexts) : d.nexts[x].noid \in OIDS
      BY <2>2
    <3> QED BY <3>2, <3>3
  <2> QED BY <2>3, <2>4
<1> QED BY <1>2, <1>3

\* nextfromset is being told all objects.
LEMMA RebuildStep ==
    ASSUME NEW ks \in Seq(Oid), \A x, y \in 1 .. Len(ks) : x < y => ks[x] \prec ks[y],
           \A x \in 1 .. Len(ks) : ks[x] \in OIDS,
           NEW d, Sound(d), d.nexts = Pairs(ks),
           Truthy(d.last) => ks # << >> /\ d.last = ks[Len(ks)]
    PROVE  /\ \E e \in {EndOfMib, NotCached} : Claims!Rebuild(Claimed(d), e)
           /\ \A x \in 1 .. Len(d.nexts) : d.nexts[x].noid \in OIDS
<1> DEFINE e == IF Truthy(d.last) THEN EndOfMib ELSE NotCached
           now == Claimed(d)
           told == {now[p] : p \in OIDS} \ {NotCached, EndOfMib}
           later(p) == {k \in told : p \prec k}
<1>0. EndOfMib \notin Oid /\ NotCached \notin Oid /\ \A x \in 1 .. Len(ks) : ks[x] \in Oid
  BY SentinelAssumption
<1>1. \A p \in OIDS :
         /\ now[p] = ClaimOf(d, p)
         /\ IF \E y \in 1 .. Len(ks) : p \prec ks[y]
            THEN \E x \in 1 .. Len(ks) :
                    /\ now[p] = ks[x] /\ p \prec ks[x]
                    /\ \A y \in 1 .. Len(ks) : p \prec ks[y] => ks[x] \preceq ks[y]
            ELSE now[p] = e
  <2> SUFFICES ASSUME NEW p \in OIDS
               PROVE  /\ now[p] = ClaimOf(d, p)
                      /\ IF \E y \in 1 .. Len(ks) : p \prec ks[y]
                         THEN \E x \in 1 .. Len(ks) :
                                 /\ now[p] = ks[x] /\ p \prec ks[x]
                                 /\ \A y \in 1 .. Len(ks) : p \prec ks[y] => ks[x] \preceq ks[y]
                         ELSE now[p] = e
    OBVIOUS
  <2>1. p \in Oid /\ now[p] = ClaimOf(d, p)
    BY ObjectsAreOids DEF Claimed
  <2> HIDE DEF now
  <2> QED BY <2>1, NextFromSetClaims
<1> HIDE DEF now, e
<1>2. \A k \in told : \E y \in 1 .. Len(ks) : k = ks[y]
  <2> SUFFICES ASSUME NEW k \in told PROVE \E y \in 1 .. Len(ks) : k = ks[y]
    OBVIOUS
  <2>1. PICK p \in OIDS : k = now[p]
    OBVIOUS
  <2>2. k # e
    BY DEF e
  <2> QED BY <1>1, <2>1, <2>2
<1>3. ASSUME NEW p \in OIDS
      PROVE  IF later(p) = {} THEN now[p] = e
             ELSE now[p] \in later(p) /\ \A k \in later(p) : now[p] \preceq k
  <2>1. CASE \E y \in 1 .. Len(ks) : p \prec ks[y]
    <3>1. PICK x \in 1 .. Len(ks) :
             /\ now[p] = ks[x] /\ p \prec ks[x]
             /\ \A y \in 1 .. Len(ks) : p \prec ks[y] => ks[x] \preceq ks[y]
      BY <1>1, <2>1
    <3>2. now[p] \in told
      BY <1>0, <3>1
    <3>3. now[p] \in later(p)
      BY <3>1, <3>2
    <3>4. \A k \in later(p) : now[p] \preceq k
      <4> SUFFICES ASSUME NEW k \in later(p) PROVE now[p] \preceq k
        OBVIOUS
      <4>1. PICK y \in 1 .. Len(ks) : k = ks[y]
        BY <1>2
      <4> QED BY <3>1, <4>1
    <3> HIDE DEF later
    <3> QED BY <3>3, <3>4
  <2>2. CASE ~ \E y \in 1 .. Len(ks) : p \prec ks[y]
    <3>1. now[p] = e
      BY <1>1, <2>2
    <3>2. later(p) = {}
      BY <1>2, <2>2
    <3> HIDE DEF later
    <3> QED BY <3>1, <3>2
  <2> QED BY <2>1, <2>2
<1>4. Claims!Rebuild(now, e)
  BY <1>3, SamePrec DEF Claims!Rebuild
<1>5. e \in {EndOfMib, NotCached}
  BY DEF e
<1>6. \A x \in 1 .. Len(d.nexts) : d.nexts[x].noid \in OIDS
  BY PairsAre
<1> QED BY <1>4, <1>5, <1>6 DEF now

\* set leaves entries and end alone.
LEMMA SetLeaves ==
    ASSUME NEW c, IsCache(c), NEW o, NEW v
    PROVE  Set(c, o, v).nexts = c.nexts /\ Set(c, o, v).last = c.last
<1> DEFINE a == [p \in DOMAIN c.oids \cup {o} |-> IF p = o THEN v ELSE c.oids[p]]
<1>1. Set(c, o, v) = [c EXCEPT !.oids = a]
  BY DEF Set
<1> HIDE DEF a
<1>2. Set(c, o, v) = [oids |-> a, nexts |-> c.nexts, last |-> c.last]
  BY <1>1, UpdateOids
<1> QED BY <1>2

LEMMA ClaimsInit == Init => Known /\ Claims!Init
<1> SUFFICES ASSUME Init PROVE Known /\ Claims!Init
  OBVIOUS
<1>1. cache.nexts = << >> /\ cache.last = NoOid
  BY DEF Init, EmptyCache
<1>2. Sound(cache)
  BY InitSound DEF IInv
<1>3. ASSUME NEW p \in OIDS PROVE ClaimOf(cache, p) = NotCached
  <2>1. ~ Ends(cache.last, p)
    BY <1>1 DEF Ends, Truthy
  <2>2. \A x \in 1 .. Len(cache.nexts) : FALSE
    BY <1>1
  <2> QED BY <1>2, <2>1, <2>2, ObjectsAreOids, ClaimIs
<1>4. Claimed(cache) = [p \in OIDS |-> NotCached]
  BY <1>3 DEF Claimed
<1>5. Claims!Init
  BY <1>4, ClaimedIs DEF Claims!Init
<1> QED BY <1>1, <1>5 DEF Known

\* The claims a step of the cache makes.
ClaimStep(was, now) ==
    \/ Claims!Forget(was, now)
    \/ \E o, n \in OIDS : Claims!Learn(was, now, o, n)
    \/ \E o \in OIDS : Claims!LearnEnd(was, now, o)
    \/ \E e \in {EndOfMib, NotCached} : Claims!Rebuild(now, e)

LEMMA ClaimsStep ==
    IInv /\ Known /\ [Next]_cache => Known' /\ ClaimStep(Claimed(cache), Claimed(cache'))
<1> SUFFICES ASSUME IInv, Known, [Next]_cache
             PROVE  Known' /\ ClaimStep(Claimed(cache), Claimed(cache'))
  OBVIOUS
<1>1. /\ Sound(cache) /\ Sound(cache') /\ IsCache(cache)
      /\ \A x \in 1 .. Len(cache.nexts) : cache.nexts[x].noid \in OIDS
  BY NextSound, SoundParts DEF IInv, Known
<1>2. ASSUME cache'.nexts = cache.nexts, cache'.last = cache.last
      PROVE  Known' /\ ClaimStep(Claimed(cache), Claimed(cache'))
  <2>1. Claims!Forget(Claimed(cache), Claimed(cache')) /\ \A x \in 1 .. Len(cache'.nexts) : cache'.nexts[x].noid \in OIDS
    BY <1>1, <1>2, ForgetStep
  <2> QED BY <2>1 DEF Known, ClaimStep
<1>3. ASSUME NEW o \in OIDS, NEW n \in OIDS, o \prec n,
             cache'.nexts = SetNext(cache, o, n).nexts, cache'.last = SetNext(cache, o, n).last
      PROVE  Known' /\ ClaimStep(Claimed(cache), Claimed(cache'))
  <2>1. /\ cache'.nexts = NextsWith(cache.nexts, o, n)
        /\ cache'.last = IF Truthy(cache.last) /\ cache.last \prec n THEN NoOid ELSE cache.last
    BY <1>1, <1>3, SetNextLeaves
  <2>2. Claims!Learn(Claimed(cache), Claimed(cache'), o, n)
        /\ \A x \in 1 .. Len(cache'.nexts) : cache'.nexts[x].noid \in OIDS
    BY <1>1, <1>3, <2>1, LearnStep
  <2> QED BY <2>2 DEF Known, ClaimStep
<1>4. ASSUME NEW o \in Objects, NEW v \in Value, DoSet(o, v)
      PROVE  Known' /\ ClaimStep(Claimed(cache), Claimed(cache'))
  <2>1. cache'.nexts = cache.nexts /\ cache'.last = cache.last
    BY <1>1, <1>4, SetLeaves DEF DoSet
  <2> QED BY <1>2, <2>1
<1>5. ASSUME NEW o \in OIDS, NEW n \in OIDS, DoSetNext(o, n)
      PROVE  Known' /\ ClaimStep(Claimed(cache), Claimed(cache'))
  BY <1>3, <1>5 DEF DoSetNext
<1>6. ASSUME NEW o \in OIDS, NEW n \in OIDS, NEW v \in Value, DoSetNextValue(o, n, v)
      PROVE  Known' /\ ClaimStep(Claimed(cache), Claimed(cache'))
  <2> DEFINE d == SetNext(cache, o, n)
  <2>1. o \prec n /\ cache' = Set(d, n, v) /\ IsCache(d)
    BY <1>1, <1>6, ObjectsAreOids, SetNextSound, SoundParts DEF DoSetNextValue, SetNextValue
  <2>2. cache'.nexts = d.nexts /\ cache'.last = d.last
    <3> HIDE DEF d
    <3> QED BY <2>1, SetLeaves
  <2> QED BY <1>3, <2>1, <2>2
<1>7. ASSUME NEW o \in OIDS, DoSetEnd(o) PROVE Known' /\ ClaimStep(Claimed(cache), Claimed(cache'))
  <2>1. IF cache.last # NoOid /\ cache.last \prec o THEN cache' = cache
        ELSE cache'.nexts = NextsUpTo(cache.nexts, o) /\ cache'.last = o
    BY <1>1, <1>7, SetEndLeaves DEF DoSetEnd
  <2>2. /\ Claims!Forget(Claimed(cache), Claimed(cache')) \/ Claims!LearnEnd(Claimed(cache), Claimed(cache'), o)
        /\ \A x \in 1 .. Len(cache'.nexts) : cache'.nexts[x].noid \in OIDS
    BY <1>1, <2>1, EndStep
  <2> QED BY <2>2 DEF Known, ClaimStep
<1>8. ASSUME NEW o \in OIDS, DoInvalidate(o) PROVE Known' /\ ClaimStep(Claimed(cache), Claimed(cache'))
  <2>1. /\ \A x \in 1 .. Len(cache'.nexts) :
              \E y \in 1 .. Len(cache.nexts) : cache'.nexts[x] = cache.nexts[y]
        /\ cache'.last \in {NoOid, cache.last}
    BY <1>1, <1>8, ObjectsAreOids, InvalidateLeaves DEF DoInvalidate
  <2>2. Truthy(cache'.last) => cache'.last = cache.last
    BY <2>1 DEF Truthy
  <2>3. Claims!Forget(Claimed(cache), Claimed(cache'))
        /\ \A x \in 1 .. Len(cache'.nexts) : cache'.nexts[x].noid \in OIDS
    BY <1>1, <2>1, <2>2, ForgetStep
  <2> QED BY <2>3 DEF Known, ClaimStep
<1>9. ASSUME NEW ks \in Listings(DOMAIN cache.oids), DoNextFromSet(ks)
      PROVE  Known' /\ ClaimStep(Claimed(cache), Claimed(cache'))
  <2>1. cache' = NextFromSet(cache, ks) /\ IsSortingOf(ks, DOMAIN cache.oids)
    BY <1>9 DEF DoNextFromSet
  <2>2. /\ ks \in Seq(Oid)
        /\ \A x, y \in 1 .. Len(ks) : x < y => ks[x] \prec ks[y]
        /\ \A x \in 1 .. Len(ks) : ks[x] # << >>
    BY <2>1, ListingIsSorted
  <2>3. \A x \in 1 .. Len(ks) : ks[x] \in OIDS
    <3>1. DOMAIN ks = 1 .. Len(ks)
      BY <2>2
    <3>2. \A x \in DOMAIN ks : ks[x] \in DOMAIN cache.oids
      BY <2>1 DEF IsSortingOf, Range
    <3> QED BY <3>1, <3>2, ObjectsAreOids DEF IInv
  <2>4. /\ cache'.nexts = Pairs(ks)
        /\ Truthy(cache'.last) => ks # << >> /\ cache'.last = ks[Len(ks)]
    BY <1>1, <2>1, <2>2, NextFromSetLeaves
  <2>5. /\ \E e \in {EndOfMib, NotCached} : Claims!Rebuild(Claimed(cache'), e)
        /\ \A x \in 1 .. Len(cache'.nexts) : cache'.nexts[x].noid \in OIDS
    BY <1>1, <2>2, <2>3, <2>4, RebuildStep
  <2> QED BY <2>5 DEF Known, ClaimStep
<1>10. CASE UNCHANGED cache
  BY <1>2, <1>10
<1>11. CASE \E o \in Objects, v \in Value : DoSet(o, v)
  BY <1>4, <1>11
<1>12. CASE \E o, n \in OIDS : DoSetNext(o, n)
  BY <1>5, <1>12
<1>13. CASE \E o, n \in OIDS, v \in Value : DoSetNextValue(o, n, v)
  BY <1>6, <1>13
<1>14. CASE \E o \in OIDS : DoSetEnd(o)
  BY <1>7, <1>14
<1>15. CASE \E o \in OIDS : DoInvalidate(o)
  BY <1>8, <1>15
<1>16. CASE \E ks \in Listings(DOMAIN cache.oids) : DoNextFromSet(ks)
  BY <1>9, <1>16
<1>17. Known' /\ ClaimStep(Claimed(cache), Claimed(cache'))
  BY <1>10, <1>11, <1>12, <1>13, <1>14, <1>15, <1>16 DEF Next
<1> QED BY <1>17

(* Whatever sequence of calls is made, the interval list with its cuts, its  *)
(* end and its bisections behaves as a set of claims about what follows each *)
(* oid: a step learns what it was told, or forgets (cache.py:75-236).        *)
THEOREM CacheRefinement == Spec => ImplementsNextClaims
<1>1. Init => Claims!Init /\ IInv /\ Known
  BY ClaimsInit, InitSound
<1>2. IInv /\ Known /\ [Next]_cache => IInv' /\ Known' /\ [Claims!Next]_([p \in OIDS |-> NextOf(p)])
  <2> SUFFICES ASSUME IInv, Known, [Next]_cache
               PROVE  IInv' /\ Known' /\ Claims!Next
    OBVIOUS
  <2> DEFINE was == Claimed(cache)
             now == Claimed(cache')
  <2>1. IInv' /\ Known' /\ ClaimStep(was, now)
    BY NextSound, ClaimsStep
  <2>2. now \in [OIDS -> OIDS \cup {NotCached, EndOfMib}]
    <3>1. Sound(cache') /\ \A x \in 1 .. Len(cache'.nexts) : cache'.nexts[x].noid \in OIDS
      BY <2>1 DEF IInv, Known
    <3> QED BY <3>1, ClaimedType
  <2>3. [p \in OIDS |-> NextOf(p)] = was /\ [p \in OIDS |-> NextOf(p)]' = now
    BY ClaimedIs
  <2> HIDE DEF was, now
  <2>4. Claims!Next
    BY <2>1, <2>2, <2>3 DEF Claims!Next, ClaimStep
  <2> QED BY <2>1, <2>4
<1> QED BY <1>1, <1>2, PTL DEF Spec, ImplementsNextClaims, Claims!Spec

-----------------------------------------------------------------------------
(* The loop of nextfromset.                                                  *)

\* The keys nextfromset loops over.
Sorted(ks) == /\ ks \in Seq(Oid)
              /\ \A x, y \in 1 .. Len(ks) : x < y => ks[x] \prec ks[y]
              /\ \A x \in 1 .. Len(ks) : ks[x] # << >>

\* The list and the end after i rounds of the loop.
ListAfter(ks, i)   == SubSeq(Pairs(ks), 1, i)
EndAfter(c, ks, i) ==
    IF i > 0 /\ Truthy(c.last) /\ c.last \prec ks[i] THEN NoOid ELSE c.last
LoopState(c, ks, i) ==
    [oids |-> c.oids, nexts |-> ListAfter(ks, i), last |-> EndAfter(c, ks, i)]

LEMMA KeyPairs ==
    ASSUME NEW ks, Sorted(ks)
    PROVE  /\ Len(ks) \in Nat /\ Pairs(ks) \in Seq(Entry) /\ Len(Pairs(ks)) = Len(ks)
           /\ \A x \in 1 .. Len(ks) :
                 /\ ks[x] \in Oid /\ Pairs(ks)[x] \in Entry
                 /\ Pairs(ks)[x] = [oid |-> Pairs(ks)[x].oid, noid |-> Pairs(ks)[x].noid]
                 /\ Pairs(ks)[x].oid \in Oid
                 /\ Pairs(ks)[x].noid = ks[x]
                 /\ Pairs(ks)[x].oid = IF x = 1 THEN << >> ELSE ks[x - 1]
                 /\ Pairs(ks)[x].oid \prec Pairs(ks)[x].noid
<1> DEFINE t == Pairs(ks)
<1>1. Len(ks) \in Nat /\ DOMAIN ks = 1 .. Len(ks) /\ \A x \in 1 .. Len(ks) : ks[x] \in Oid
  BY DEF Sorted
<1>2. << >> \in Oid
  BY DEF Oid
<1>3. t = [x \in 1 .. Len(ks) |-> [oid |-> IF x = 1 THEN << >> ELSE ks[x - 1], noid |-> ks[x]]]
  BY <1>1 DEF Pairs
<1>4. t \in Seq(Entry) /\ Disjoint(t)
  BY PairsDisjoint DEF Sorted
<1>5. \A x \in 1 .. Len(ks) :
         /\ t[x].noid = ks[x]
         /\ t[x].oid = IF x = 1 THEN << >> ELSE ks[x - 1]
         /\ t[x] = [oid |-> t[x].oid, noid |-> t[x].noid]
  BY <1>1, <1>2, <1>3
<1>6. Len(t) = Len(ks)
  <2>1. DOMAIN t = 1 .. Len(ks)
    BY <1>3
  <2> HIDE DEF t
  <2> QED BY <2>1, <1>1, <1>4
<1> HIDE DEF t
<1>7. \A x \in 1 .. Len(ks) : t[x] \in Entry /\ t[x].oid \in Oid /\ t[x].oid \prec t[x].noid
  BY <1>4, <1>6, EntryType DEF Disjoint
<1>8. \A x \in 1 .. Len(ks) :
                 /\ ks[x] \in Oid /\ t[x] \in Entry
                 /\ t[x] = [oid |-> t[x].oid, noid |-> t[x].noid]
                 /\ t[x].oid \in Oid
                 /\ t[x].noid = ks[x]
                 /\ t[x].oid = IF x = 1 THEN << >> ELSE ks[x - 1]
                 /\ t[x].oid \prec t[x].noid
  BY <1>1, <1>5, <1>7
<1> QED BY <1>1, <1>4, <1>6, <1>8 DEF t

LEMMA ListAfterIs ==
    ASSUME NEW ks, Sorted(ks), NEW i \in 0 .. Len(ks)
    PROVE  /\ ListAfter(ks, i) \in Seq(Entry) /\ Len(ListAfter(ks, i)) = i
           /\ \A x \in 1 .. i : ListAfter(ks, i)[x] = Pairs(ks)[x]
<1> DEFINE t == Pairs(ks)
<1>1. Len(ks) \in Nat /\ t \in Seq(Entry) /\ Len(t) = Len(ks)
  BY KeyPairs
<1> HIDE DEF t
<1> QED BY <1>1 DEF ListAfter, t

\* Each round appends its pair: the list ends where the pair starts.
LEMMA RoundAppends ==
    ASSUME NEW ks, Sorted(ks), NEW i \in 1 .. Len(ks)
    PROVE  NextsWith(ListAfter(ks, i - 1), Pairs(ks)[i].oid, Pairs(ks)[i].noid)
              = ListAfter(ks, i)
<1> DEFINE s == ListAfter(ks, i - 1)
           e == Pairs(ks)[i]
           t == NextsWith(s, e.oid, e.noid)
           r == ListAfter(ks, i)
           k == LeftStop(s, e.oid, e.noid)
           j == BisectLeft(s, e.noid)
           b == BisectLeft(s, e.oid)
           f == Fresh(s, e.oid, e.noid)
<1>0. Len(ks) \in Nat /\ i \in Nat /\ i - 1 \in 0 .. Len(ks) /\ i \in 0 .. Len(ks)
  BY KeyPairs
<1>1. /\ e.oid \in Oid /\ e.noid \in Oid /\ e.oid \prec e.noid /\ e.noid = ks[i]
      /\ i > 1 => e.oid = ks[i - 1]
      /\ e = [oid |-> e.oid, noid |-> e.noid]
  BY KeyPairs
<1>2. /\ s \in Seq(Entry) /\ Len(s) = i - 1
      /\ \A x \in 1 .. i - 1 : s[x] = Pairs(ks)[x]
  BY <1>0, ListAfterIs
<1>3. r \in Seq(Entry) /\ Len(r) = i /\ \A x \in 1 .. i : r[x] = Pairs(ks)[x]
  BY <1>0, ListAfterIs
<1>4. i > 1 => /\ s[i - 1].noid = e.oid
               /\ s[i - 1].oid \prec e.oid
               /\ s[i - 1].oid \prec e.noid
  <2> SUFFICES ASSUME i > 1
               PROVE  /\ s[i - 1].noid = e.oid
                      /\ s[i - 1].oid \prec e.oid
                      /\ s[i - 1].oid \prec e.noid
    OBVIOUS
  <2>1. i - 1 \in 1 .. Len(ks) /\ i - 1 \in 1 .. i - 1
    BY <1>0
  <2>2. s[i - 1] = Pairs(ks)[i - 1]
    BY <1>2, <2>1
  <2>3. /\ s[i - 1].oid \in Oid /\ s[i - 1].noid = ks[i - 1]
        /\ s[i - 1].oid \prec s[i - 1].noid
    <3>1. PICK x \in 1 .. Len(ks) : x = i - 1
      BY <2>1
    <3>2. /\ Pairs(ks)[x].oid \in Oid /\ Pairs(ks)[x].noid = ks[x]
          /\ Pairs(ks)[x].oid \prec Pairs(ks)[x].noid
      BY KeyPairs, Zenon
    <3>3. s[x] = Pairs(ks)[x]
      BY <2>2, <3>1
    <3> HIDE DEF s
    <3> QED BY <3>1, <3>2, <3>3
  <2>4. s[i - 1].noid = e.oid
    BY <1>1, <2>3
  <2> HIDE DEF s, e
  <2> QED BY <1>1, <2>3, <2>4, PrecTransitive
<1>5. Shape(t, s, e.oid, e.noid, k, j, f)
  BY <1>1, <1>2, NextsWithShape
<1>6. /\ j \in 0 .. i - 1
      /\ \A x \in j + 1 .. i - 1 : ~ (s[x].oid \prec e.noid)
  BY <1>1, <1>2, BisectLeftFinds
<1>7. /\ b \in 0 .. i - 1
      /\ \A x \in b + 1 .. i - 1 : ~ (s[x].oid \prec e.oid)
  BY <1>1, <1>2, BisectLeftFinds
<1>8. /\ k \in 0 .. b
      /\ \A x \in k + 1 .. b : e.oid \prec s[x].noid
  BY <1>1, <1>2, LeftStopFinds
<1>9. f = IF k > 0 /\ s[k].noid = e.noid THEN 0 ELSE 1
  BY DEF Fresh
<1> HIDE DEF s, e, k, j, b, f, t, r
<1>10. j = i - 1
  <2>1. CASE i = 1
    BY <1>6, <2>1
  <2>2. CASE i > 1 /\ j # i - 1
    <3>1. i - 1 \in j + 1 .. i - 1
      BY <1>0, <1>6, <2>2
    <3> QED BY <1>4, <1>6, <2>2, <3>1
  <2> QED BY <1>0, <2>1, <2>2
<1>11. b = i - 1
  <2>1. CASE i = 1
    BY <1>7, <2>1
  <2>2. CASE i > 1 /\ b # i - 1
    <3>1. i - 1 \in b + 1 .. i - 1
      BY <1>0, <1>7, <2>2
    <3> QED BY <1>4, <1>7, <2>2, <3>1
  <2> QED BY <1>0, <2>1, <2>2
<1>12. k = i - 1
  <2>1. CASE i = 1
    BY <1>8, <1>11, <2>1
  <2>2. CASE i > 1 /\ k # i - 1
    <3>1. i - 1 \in k + 1 .. b
      BY <1>0, <1>8, <1>11, <2>2
    <3>2. e.oid \prec e.oid
      BY <1>4, <1>8, <2>2, <3>1
    <3> QED BY <1>1, <3>2, PrecIrreflexive
  <2> QED BY <1>0, <2>1, <2>2
<1>13. f = 1
  <2>1. CASE i = 1
    BY <1>9, <1>12, <2>1
  <2>2. CASE i > 1
    <3>1. s[k].noid # e.noid
      BY <1>1, <1>4, <1>12, <2>2, PrecIrreflexive
    <3> QED BY <1>9, <3>1
  <2> QED BY <1>0, <2>1, <2>2
<1>14. /\ t \in Seq(Entry) /\ Len(t) = i
       /\ \A x \in 1 .. i - 1 : t[x] = s[x]
       /\ t[i] = e
  <2>1. Shape(t, s, e.oid, e.noid, i - 1, i - 1, 1)
    BY <1>5, <1>10, <1>12, <1>13
  <2>2. PICK p : p = e.oid
    OBVIOUS
  <2>3. PICK q : q = e.noid
    OBVIOUS
  <2>4. Shape(t, s, p, q, i - 1, i - 1, 1) /\ e = [oid |-> p, noid |-> q]
    BY <1>1, <2>1, <2>2, <2>3
  <2>5. t \in Seq(Entry) /\ Len(t) = i
    BY <1>0, <1>2, <2>4 DEF Shape
  <2>6. \A x \in 1 .. i - 1 : t[x] = s[x]
    BY <1>0, <1>2, <2>4 DEF Shape
  <2>7. t[i] = e
    BY <1>0, <1>2, <2>4 DEF Shape
  <2> QED BY <2>5, <2>6, <2>7
<1>15. ASSUME NEW x \in 1 .. i PROVE t[x] = r[x]
  <2>1. CASE x = i
    BY <1>3, <1>14, <2>1 DEF e
  <2>2. CASE x # i
    <3>1. x \in 1 .. i - 1
      BY <1>0, <2>2
    <3> QED BY <1>2, <1>3, <1>14, <3>1
  <2> QED BY <2>1, <2>2
<1>16. t = r
  BY <1>3, <1>14, <1>15, SeqEqual
<1> QED BY <1>16 DEF t, r, s, e

\* One round is one setnext.
LEMMA RoundIsSetNext ==
    ASSUME NEW c, IsCache(c), NEW ks, Sorted(ks), NEW i \in 1 .. Len(ks)
    PROVE  SetNext(LoopState(c, ks, i - 1), Pairs(ks)[i].oid, Pairs(ks)[i].noid)
              = LoopState(c, ks, i)
<1> DEFINE d == LoopState(c, ks, i - 1)
           o == Pairs(ks)[i].oid
           n == Pairs(ks)[i].noid
           s == ListAfter(ks, i - 1)
           t == ListAfter(ks, i)
           l == EndAfter(c, ks, i - 1)
           m == EndAfter(c, ks, i)
<1>0. Len(ks) \in Nat /\ i \in Nat /\ i - 1 \in 0 .. Len(ks) /\ i \in 0 .. Len(ks)
  BY KeyPairs
<1>1. /\ DOMAIN c.oids \in SUBSET Oid /\ c.oids \in [DOMAIN c.oids -> Value]
      /\ c.last \in Oid \cup {NoOid}
  BY DEF IsCache
<1>2. l \in Oid \cup {NoOid} /\ s \in Seq(Entry)
  <2>1. s \in Seq(Entry)
    BY <1>0, ListAfterIs
  <2> QED BY <1>1, <2>1 DEF EndAfter
<1>3. d = [oids |-> c.oids, nexts |-> s, last |-> l]
  BY DEF LoopState
<1>4. NextsWith(s, o, n) = t
  BY RoundAppends
<1>5. m = IF Truthy(l) /\ l \prec n THEN NoOid ELSE l
  <2>1. n = ks[i] /\ ks[i] \in Oid
    BY KeyPairs
  <2>2. CASE i = 1
    <3>1. l = c.last
      BY <2>2 DEF EndAfter
    <3> QED BY <2>1, <2>2, <3>1 DEF EndAfter
  <2>3. CASE i > 1 /\ Truthy(c.last) /\ c.last \prec ks[i - 1]
    <3>1. i - 1 \in 1 .. Len(ks)
      BY <1>0, <2>3
    <3>2. ks[i - 1] \in Oid /\ ks[i - 1] \prec ks[i]
      BY <1>0, <3>1, KeyPairs DEF Sorted
    <3>3. c.last \in Oid
      BY <1>1, <2>3 DEF Truthy
    <3>4. c.last \prec ks[i]
      BY <2>1, <2>3, <3>2, <3>3, PrecTransitive
    <3>5. l = NoOid /\ m = NoOid
      BY <1>0, <2>3, <3>4 DEF EndAfter
    <3> QED BY <3>5 DEF Truthy
  <2>4. CASE i > 1 /\ ~ (Truthy(c.last) /\ c.last \prec ks[i - 1])
    <3>1. l = c.last
      BY <2>4 DEF EndAfter
    <3> QED BY <1>0, <2>1, <2>4, <3>1 DEF EndAfter
  <2> QED BY <1>0, <2>2, <2>3, <2>4
<1> HIDE DEF d, o, n, s, t, l, m
<1>6. IsCache(d)
  BY <1>1, <1>2, <1>3, Made
<1>7. d.oids = c.oids /\ d.nexts = s /\ d.last = l
  BY <1>3
<1>8. SetNext(d, o, n) = [d EXCEPT !.nexts = t,
                                   !.last  = IF Truthy(l) /\ l \prec n THEN NoOid ELSE l]
  BY <1>4, <1>7, Zenon DEF SetNext
<1>9. SetNext(d, o, n) = [oids |-> c.oids, nexts |-> t, last |-> m]
  <2>1. [d EXCEPT !.nexts = t, !.last = m] = [oids |-> d.oids, nexts |-> t, last |-> m]
    BY <1>6, UpdateBoth, Zenon
  <2>2. SetNext(d, o, n) = [d EXCEPT !.nexts = t, !.last = m]
    BY <1>5, <1>8
  <2> QED BY <1>7, <2>1, <2>2
<1> QED BY <1>9 DEF LoopState, d, o, n, t, m

\* The loop, as a function of the round.
Round(c, ks, f, i) == IF i = 0 THEN [c EXCEPT !.nexts = << >>]
                      ELSE SetNext(f[i - 1], Pairs(ks)[i].oid, Pairs(ks)[i].noid)
IsLoop(c, ks, f) == f = [i \in 0 .. Len(ks) |-> Round(c, ks, f, i)]

LEMMA RoundIs ==
    ASSUME NEW c, IsCache(c), NEW ks, Sorted(ks), NEW i \in 0 .. Len(ks), NEW f,
           i > 0 => f[i - 1] = LoopState(c, ks, i - 1)
    PROVE  Round(c, ks, f, i) = LoopState(c, ks, i)
<1>0. Len(ks) \in Nat
  BY KeyPairs
<1>1. CASE i = 0
  <2>1. ListAfter(ks, 0) = << >>
    BY <1>0, ListAfterIs, EmptySeq
  <2>2. EndAfter(c, ks, 0) = c.last
    BY DEF EndAfter
  <2>3. [c EXCEPT !.nexts = << >>] = [oids |-> c.oids, nexts |-> << >>, last |-> c.last]
    BY UpdateNexts
  <2> QED BY <1>1, <2>1, <2>2, <2>3 DEF Round, LoopState
<1>2. CASE i > 0
  <2>1. i \in 1 .. Len(ks) /\ i # 0
    BY <1>0, <1>2
  <2>2. Round(c, ks, f, i) = SetNext(f[i - 1], Pairs(ks)[i].oid, Pairs(ks)[i].noid)
    BY <2>1 DEF Round
  <2> QED BY <1>2, <2>1, <2>2, RoundIsSetNext
<1> QED BY <1>0, <1>1, <1>2

LEMMA LoopExists ==
    ASSUME NEW c, IsCache(c), NEW ks, Sorted(ks)
    PROVE  \E f : IsLoop(c, ks, f)
<1> DEFINE g == [i \in 0 .. Len(ks) |-> LoopState(c, ks, i)]
<1>0. Len(ks) \in Nat
  BY KeyPairs
<1>1. ASSUME NEW i \in 0 .. Len(ks) PROVE Round(c, ks, g, i) = LoopState(c, ks, i)
  <2>1. i > 0 => g[i - 1] = LoopState(c, ks, i - 1)
    <3>1. i > 0 => i - 1 \in 0 .. Len(ks)
      BY <1>0
    <3> QED BY <3>1
  <2> HIDE DEF g
  <2> QED BY <2>1, RoundIs
<1>2. g = [i \in 0 .. Len(ks) |-> Round(c, ks, g, i)]
  <2> DEFINE h == [i \in 0 .. Len(ks) |-> Round(c, ks, g, i)]
  <2>1. \A i \in 0 .. Len(ks) : h[i] = g[i]
    BY <1>1
  <2>2. h \in [0 .. Len(ks) -> {h[i] : i \in 0 .. Len(ks)}]
    OBVIOUS
  <2> QED BY <2>1
<1> QED BY <1>2 DEF IsLoop

LEMMA LoopIs ==
    ASSUME NEW c, IsCache(c), NEW ks, Sorted(ks), NEW f, IsLoop(c, ks, f)
    PROVE  f[Len(ks)] = LoopState(c, ks, Len(ks))
<1> DEFINE Bad == {m \in Nat : m <= Len(ks) /\ f[m] # LoopState(c, ks, m)}
<1>0. Len(ks) \in Nat
  BY KeyPairs
<1>1. \A i \in 0 .. Len(ks) : f[i] = Round(c, ks, f, i)
  BY DEF IsLoop
<1>2. Bad = {}
  <2> SUFFICES ASSUME Bad # {} PROVE FALSE
    OBVIOUS
  <2>1. PICK m \in Bad : \A k \in Bad : m <= k
    <3>1. Bad \in SUBSET Nat
      OBVIOUS
    <3> HIDE DEF Bad
    <3> QED BY <3>1, LeastNat
  <2>2. m \in 0 .. Len(ks) /\ m \in Nat
    BY <1>0
  <2>3. m > 0 => f[m - 1] = LoopState(c, ks, m - 1)
    <3> SUFFICES ASSUME m > 0 PROVE f[m - 1] = LoopState(c, ks, m - 1)
      OBVIOUS
    <3>1. m - 1 \in Nat /\ m - 1 <= Len(ks) /\ ~ (m <= m - 1)
      BY <1>0, <2>2
    <3>2. m - 1 \notin Bad
      BY <2>1, <3>1
    <3> QED BY <3>1, <3>2
  <2>4. Round(c, ks, f, m) = LoopState(c, ks, m)
    BY <2>2, <2>3, RoundIs
  <2> QED BY <1>1, <2>1, <2>2, <2>4
<1>3. Len(ks) \notin Bad
  BY <1>2
<1> QED BY <1>0, <1>3

\* The loop and its closed form.
LEMMA LoopComputes ==
    ASSUME NEW c, IsCache(c), NEW ks, Sorted(ks)
    PROVE  NextFromSetLoop(c, ks) = NextFromSet(c, ks)
<1> DEFINE L == Len(ks)
           end == IF ks = << >> THEN << >> ELSE ks[Len(ks)]
           f == CHOOSE g : IsLoop(c, ks, g)
           l == IF Truthy(c.last) /\ c.last \prec end THEN NoOid ELSE c.last
<1>0. L \in Nat /\ Pairs(ks) \in Seq(Entry) /\ Len(Pairs(ks)) = L /\ ks \in Seq(Oid)
  BY KeyPairs DEF Sorted
<1>1. IsLoop(c, ks, f)
  BY LoopExists
<1>2. NextFromSetLoop(c, ks) = SetEnd(f[L], end)
  BY Zenon DEF NextFromSetLoop, IsLoop, Round
<1>3. f[L] = LoopState(c, ks, L)
  <2> HIDE DEF f
  <2> QED BY <1>1, LoopIs
<1>4. ListAfter(ks, L) = Pairs(ks)
  <2>1. /\ ListAfter(ks, L) \in Seq(Entry) /\ Len(ListAfter(ks, L)) = L
        /\ \A x \in 1 .. L : ListAfter(ks, L)[x] = Pairs(ks)[x]
    BY <1>0, ListAfterIs
  <2> HIDE DEF L
  <2> QED BY <1>0, <2>1, SeqEqual
<1>5. EndAfter(c, ks, L) = l
  <2>1. CASE ks = << >>
    <3>1. L = 0 /\ end = << >>
      BY <2>1
    <3>2. ~ (Truthy(c.last) /\ c.last \prec << >>)
      <4> SUFFICES ASSUME Truthy(c.last), c.last \prec << >> PROVE FALSE
        OBVIOUS
      <4>1. c.last \in Oid /\ c.last # << >> /\ << >> \in Oid
        BY DEF IsCache, Truthy, Oid
      <4> QED BY <4>1, EmptyIsLeast, PrecTransitive, PrecIrreflexive
    <3> QED BY <3>1, <3>2 DEF EndAfter
  <2>2. CASE ks # << >>
    <3>1. L # 0
      BY <1>0, <2>2, EmptySeq
    <3>2. L > 0 /\ end = ks[L]
      BY <1>0, <2>2, <3>1
    <3> QED BY <3>2 DEF EndAfter
  <2> QED BY <2>1, <2>2
<1>6. [c EXCEPT !.nexts = Pairs(ks), !.last = l]
         = [oids |-> c.oids, nexts |-> Pairs(ks), last |-> l]
  <2> HIDE DEF l
  <2> QED BY UpdateBoth, Zenon
<1>7. NextFromSet(c, ks) = SetEnd([c EXCEPT !.nexts = Pairs(ks), !.last = l], end)
  BY Zenon DEF NextFromSet
<1>8. f[L] = [oids |-> c.oids, nexts |-> Pairs(ks), last |-> l]
  BY <1>3, <1>4, <1>5, Zenon DEF LoopState
<1> HIDE DEF f, l, L, end
<1> QED BY <1>2, <1>6, <1>7, <1>8, Zenon

(* The list nextfromset makes with one setnext per pair is the chain of its  *)
(* keys, and the end it leaves is the last of them (cache.py:232-239): each  *)
(* setnext of the loop finds nothing to cut, whatever keys the cache holds.  *)
THEOREM CacheRebuilds == Spec => []NextFromSetIsItsLoop
<1>1. IInv => NextFromSetIsItsLoop
  <2> SUFFICES ASSUME IInv, NEW ks \in Listings(DOMAIN cache.oids),
                      IsSortingOf(ks, DOMAIN cache.oids)
               PROVE  NextFromSet(cache, ks) = NextFromSetLoop(cache, ks)
    BY DEF NextFromSetIsItsLoop
  <2>1. Sorted(ks)
    BY ListingIsSorted DEF Sorted
  <2>2. IsCache(cache)
    BY DEF IInv, Sound
  <2> QED BY <2>1, <2>2, LoopComputes
<1> QED BY <1>1, Invariance, PTL
=============================================================================
