----------------------------- MODULE AgentProofs -----------------------------
(* What the agent answers, for any MIB, and that a cache which is only told  *)
(* the agent's answers stays true of the agent.                              *)
EXTENDS Agent, ObjectCacheProofs, FiniteSetTheorems

-----------------------------------------------------------------------------
(* The agent's answers.                                                      *)

LEMMA AfterIsFinite ==
    ASSUME NEW o
    PROVE  IsFiniteSet(After(o)) /\ After(o) \subseteq DOMAIN MIB /\ After(o) \subseteq Oid
<1>1. After(o) \in SUBSET DOMAIN MIB
  BY DEF After
<1> QED BY <1>1, MIBAssumption, FS_Subset

\* A finite set of oids has a least one: the one fewest others precede.
LEMMA LeastOid ==
    ASSUME NEW S \in SUBSET Oid, IsFiniteSet(S), S # {}
    PROVE  \E k \in S : \A j \in S : k \preceq j
<1> DEFINE before(k) == {j \in S : j \prec k}
           T == {Cardinality(before(k)) : k \in S}
<1>1. \A k \in S : IsFiniteSet(before(k)) /\ Cardinality(before(k)) \in Nat
  <2> SUFFICES ASSUME NEW k \in S
               PROVE  IsFiniteSet(before(k)) /\ Cardinality(before(k)) \in Nat
    OBVIOUS
  <2>1. before(k) \in SUBSET S
    OBVIOUS
  <2> HIDE DEF before
  <2> QED BY <2>1, FS_Subset, FS_CardinalityType
<1>2. T \in SUBSET Nat /\ T # {}
  BY <1>1
<1>3. PICK m \in T : \A n \in T : m <= n
  BY <1>2, LeastNat
<1>4. PICK k \in S : m = Cardinality(before(k))
  OBVIOUS
<1>5. ASSUME NEW j \in S PROVE k \preceq j
  <2> SUFFICES ASSUME ~ (k \preceq j) PROVE FALSE
    OBVIOUS
  <2>1. j \prec k
    BY PrecTotal DEF \preceq
  <2>2. before(j) \subseteq before(k) /\ j \in before(k) /\ j \notin before(j)
    BY <2>1, PrecTransitive, PrecIrreflexive
  <2>3. Cardinality(before(j)) \in T
    OBVIOUS
  <2> HIDE DEF before, T
  <2>4. Cardinality(before(k)) <= Cardinality(before(j))
    BY <2>3, <1>3, <1>4
  <2>5. /\ Cardinality(before(j)) <= Cardinality(before(k))
        /\ Cardinality(before(k)) = Cardinality(before(j)) => before(k) = before(j)
    BY <2>2, <1>1, FS_Subset
  <2> QED BY <2>2, <2>4, <2>5, <1>1
<1> QED BY <1>5

\* a is what the agent has after o.
Follows(o, a) ==
    \/ After(o) = {} /\ a = [oid |-> o, val |-> EndOfMibView]
    \/ IsNext(o, a.oid) /\ a = [oid |-> a.oid, val |-> MIB[a.oid]]

LEMMA AgentNextFollows ==
    ASSUME NEW o \in Oid
    PROVE  Follows(o, AgentNext(o))
<1>1. CASE After(o) = {}
  BY <1>1 DEF Follows, AgentNext
<1>2. CASE After(o) # {}
  <2>1. \E k \in After(o) : IsNext(o, k)
    BY <1>2, AfterIsFinite, LeastOid DEF IsNext
  <2> DEFINE k == CHOOSE k \in After(o) : IsNext(o, k)
  <2>2. IsNext(o, k)
    BY <2>1
  <2>3. AgentNext(o) = [oid |-> k, val |-> MIB[k]]
    BY <1>2 DEF AgentNext
  <2> HIDE DEF k
  <2> QED BY <2>2, <2>3 DEF Follows
<1> QED BY <1>1, <1>2

\* The two kinds of answers exclude each other.
LEMMA FollowsMeans ==
    ASSUME NEW o \in Oid, NEW a, Follows(o, a)
    PROVE  /\ a.oid \in Oid /\ o \preceq a.oid
           /\ a.val \in Value \cup {EndOfMibView}
           /\ a = [oid |-> a.oid, val |-> a.val]
           /\ a.val = EndOfMibView => After(o) = {} /\ a.oid = o
           /\ a.val \in Value => /\ IsNext(o, a.oid) /\ o \prec a.oid
                                 /\ a.oid \in DOMAIN MIB /\ a.val = MIB[a.oid]
<1>1. CASE After(o) = {} /\ a = [oid |-> o, val |-> EndOfMibView]
  BY <1>1, SentinelAssumption DEF \preceq
<1>2. CASE IsNext(o, a.oid) /\ a = [oid |-> a.oid, val |-> MIB[a.oid]]
  <2>1. a.oid \in After(o)
    BY <1>2 DEF IsNext
  <2>2. a.oid \in DOMAIN MIB /\ o \prec a.oid /\ a.oid \in Oid
    BY <2>1, MIBAssumption DEF After
  <2>3. MIB[a.oid] \in Value /\ a.val = MIB[a.oid]
    BY <1>2, <2>2, MIBAssumption
  <2> QED BY <1>2, <2>2, <2>3, SentinelAssumption DEF \preceq
<1> QED BY <1>1, <1>2 DEF Follows

LEMMA NoneAfterLater ==
    ASSUME NEW o \in Oid, NEW p \in Oid, o \preceq p, After(o) = {}
    PROVE  After(p) = {}
<1> SUFFICES ASSUME NEW k \in After(p) PROVE FALSE
  OBVIOUS
<1>1. k \in DOMAIN MIB /\ p \prec k /\ k \in Oid
  BY MIBAssumption DEF After
<1>2. o \prec k
  BY <1>1, PrecTransitive DEF \preceq
<1> QED BY <1>1, <1>2 DEF After

LEMMA NextFromWithin ==
    ASSUME NEW o \in Oid, NEW p \in Oid, NEW n \in Oid, o \preceq p, p \prec n, IsNext(o, n)
    PROVE  IsNext(p, n)
<1>1. n \in After(p)
  BY DEF IsNext, After
<1>2. ASSUME NEW j \in After(p) PROVE n \preceq j
  <2>1. j \in DOMAIN MIB /\ p \prec j /\ j \in Oid
    BY <1>2, MIBAssumption DEF After
  <2>2. o \prec j
    BY <2>1, PrecTransitive DEF \preceq
  <2> QED BY <2>1, <2>2 DEF IsNext, After
<1> QED BY <1>1, <1>2 DEF IsNext

LEMMA NextIsUnique ==
    ASSUME NEW o, NEW m, NEW n, IsNext(o, m), IsNext(o, n)
    PROVE  m = n
<1>1. m \in Oid /\ n \in Oid /\ m \preceq n /\ n \preceq m
  BY AfterIsFinite DEF IsNext
<1> QED BY <1>1, PrecTransitive, PrecIrreflexive DEF \preceq
-----------------------------------------------------------------------------
(* The cache of an engine.                                                   *)

\* Everything the cache c says is true of the agent.
Truthful(c) ==
    /\ \A o \in DOMAIN c.oids : o \in DOMAIN MIB /\ c.oids[o] = MIB[o]
    /\ \A i \in DOMAIN c.nexts : IsNext(c.nexts[i].oid, c.nexts[i].noid)
    /\ c.last # NoOid => After(c.last) = {}

LEMMA EmptyTruthful == Sound(EmptyCache) /\ Truthful(EmptyCache)
<1>1. EmptyCache = [oids |-> << >>, nexts |-> << >>, last |-> NoOid]
  BY DEF EmptyCache
<1>2. << >> \in [{} -> Value] /\ << >> \in Seq(Entry) /\ DOMAIN << >> = {}
  OBVIOUS
<1>3. IsCache(EmptyCache)
  BY <1>1, <1>2, Made
<1>4. Disjoint(EmptyCache.nexts) /\ WithinEnd(EmptyCache)
  BY <1>1 DEF Disjoint, WithinEnd, Truthy
<1> QED BY <1>1, <1>2, <1>3, <1>4 DEF Sound, Truthful

LEMMA SetTruthful ==
    ASSUME NEW c, Sound(c), Truthful(c), NEW o \in DOMAIN MIB
    PROVE  Sound(Set(c, o, MIB[o])) /\ Truthful(Set(c, o, MIB[o]))
<1> DEFINE a == [p \in DOMAIN c.oids \cup {o} |-> IF p = o THEN MIB[o] ELSE c.oids[p]]
<1>1. o \in Oid /\ MIB[o] \in Value /\ IsCache(c)
  BY MIBAssumption DEF Sound
<1>2. Set(c, o, MIB[o]) = [c EXCEPT !.oids = a]
  BY DEF Set
<1>3. \A p \in DOMAIN a : p \in DOMAIN MIB /\ a[p] = MIB[p]
  BY DEF Truthful
<1> HIDE DEF a
<1>4. Set(c, o, MIB[o]) = [oids |-> a, nexts |-> c.nexts, last |-> c.last]
  BY <1>1, <1>2, UpdateOids
<1>5. Truthful(Set(c, o, MIB[o]))
  BY <1>3, <1>4 DEF Truthful
<1> QED BY <1>1, <1>5, SetSound

LEMMA SetNextTruthful ==
    ASSUME NEW c, Sound(c), Truthful(c), NEW o \in Oid, NEW n \in Oid, IsNext(o, n)
    PROVE  Sound(SetNext(c, o, n)) /\ Truthful(SetNext(c, o, n))
<1> DEFINE t == NextsWith(c.nexts, o, n)
           l == IF Truthy(c.last) /\ c.last \prec n THEN NoOid ELSE c.last
<1>1. IsCache(c) /\ c.nexts \in Seq(Entry) /\ o \prec n
  BY DEF Sound, IsCache, IsNext, After
<1>2. SetNext(c, o, n) = [c EXCEPT !.nexts = t, !.last = l]
  BY DEF SetNext
<1>3. t \in Seq(Entry)
      /\ \A x \in 1 .. Len(t) : \/ t[x] = [oid |-> o, noid |-> n]
                               \/ \E y \in 1 .. Len(c.nexts) : t[x] = c.nexts[y]
  BY <1>1, NextsWithEntries
<1>4. l # NoOid => After(l) = {}
  BY DEF Truthful
<1> HIDE DEF t, l
<1>5. SetNext(c, o, n) = [oids |-> c.oids, nexts |-> t, last |-> l]
  BY <1>1, <1>2, UpdateBoth, Zenon
<1>6. \A x \in DOMAIN t : IsNext(t[x].oid, t[x].noid)
  <2> SUFFICES ASSUME NEW x \in 1 .. Len(t) PROVE IsNext(t[x].oid, t[x].noid)
    BY <1>3
  <2>1. CASE t[x] = [oid |-> o, noid |-> n]
    BY <2>1
  <2>2. CASE \E y \in 1 .. Len(c.nexts) : t[x] = c.nexts[y]
    BY <2>2, <1>1 DEF Truthful
  <2> QED BY <2>1, <2>2, <1>3
<1>7. Truthful(SetNext(c, o, n))
  BY <1>4, <1>5, <1>6 DEF Truthful
<1> QED BY <1>1, <1>7, SetNextSound

LEMMA SetNextValueTruthful ==
    ASSUME NEW c, Sound(c), Truthful(c), NEW o \in Oid, NEW n \in Oid, IsNext(o, n)
    PROVE  /\ Sound(SetNextValue(c, o, n, MIB[n]))
           /\ Truthful(SetNextValue(c, o, n, MIB[n]))
<1>1. n \in DOMAIN MIB
  BY DEF IsNext, After
<1>2. Sound(SetNext(c, o, n)) /\ Truthful(SetNext(c, o, n))
  BY SetNextTruthful
<1> QED BY <1>1, <1>2, SetTruthful DEF SetNextValue

LEMMA SetEndTruthful ==
    ASSUME NEW c, Sound(c), Truthful(c), NEW o \in Oid, After(o) = {}
    PROVE  Sound(SetEnd(c, o)) /\ Truthful(SetEnd(c, o))
<1> DEFINE r == NextsUpTo(c.nexts, o)
<1>1. IsCache(c) /\ Disjoint(c.nexts) /\ WithinEnd(c) /\ c.nexts \in Seq(Entry)
  BY DEF Sound, IsCache
<1>2. Sound(SetEnd(c, o))
  BY <1>1, SetEndSound
<1>3. CASE c.last # NoOid /\ c.last \prec o
  <2>1. SetEnd(c, o) = c
    BY <1>3 DEF SetEnd
  <2> QED BY <2>1
<1>4. CASE ~ (c.last # NoOid /\ c.last \prec o)
  <2>1. SetEnd(c, o) = [c EXCEPT !.nexts = r, !.last = o]
    BY <1>4 DEF SetEnd
  <2>2. Thinned(r, c.nexts)
    BY <1>1, NextsUpToThinned
  <2> HIDE DEF r
  <2>3. SetEnd(c, o) = [oids |-> c.oids, nexts |-> r, last |-> o]
    BY <1>1, <2>1, UpdateBoth, Zenon
  <2>4. \A x \in 1 .. Len(r) : IsNext(r[x].oid, r[x].noid)
    BY <2>2, <1>1, ThinnedEntries DEF Truthful
  <2>5. DOMAIN r = 1 .. Len(r)
    BY <2>2 DEF Thinned
  <2>6. Truthful(SetEnd(c, o))
    BY <2>3, <2>4, <2>5 DEF Truthful
  <2> QED BY <2>6, <1>2
<1> QED BY <1>3, <1>4

(* What a truthful cache answers is what the agent would have answered.      *)
LEMMA GetTruthful ==
    ASSUME NEW c, Sound(c), Truthful(c), NEW o \in Oid
    PROVE  Get(c, o) \in {NotCached, AgentGet(o).val}
<1> DEFINE i == BisectLeft(c.nexts, o)
<1>1. c.nexts \in Seq(Entry)
  BY DEF Sound, IsCache
<1>2. AgentGet(o).val = IF o \in DOMAIN MIB THEN MIB[o] ELSE NoSuchObject
  BY DEF AgentGet
<1>3. ASSUME i > 0, o \prec c.nexts[i].noid, o \notin DOMAIN c.oids PROVE o \notin DOMAIN MIB
  <2>1. i \in 1 .. Len(c.nexts) /\ c.nexts[i].oid \prec o
    <3>1. i \in 0 .. Len(c.nexts) /\ (i > 0 => c.nexts[i].oid \prec o) /\ Len(c.nexts) \in Nat
      BY <1>1, BisectLeftFinds, EntryType
    <3> HIDE DEF i
    <3> QED BY <3>1, <1>3
  <2> HIDE DEF i
  <2>2. IsNext(c.nexts[i].oid, c.nexts[i].noid) /\ c.nexts[i].noid \in Oid
    BY <2>1, <1>1, EntryType DEF Truthful
  <2>3. SUFFICES ASSUME o \in DOMAIN MIB PROVE FALSE
    OBVIOUS
  <2>4. c.nexts[i].noid \preceq o
    BY <2>1, <2>2, <2>3 DEF IsNext, After
  <2> QED BY <2>2, <2>4, <1>3, PrecTransitive, PrecIrreflexive DEF \preceq
<1>4. Get(c, o) = IF o \in DOMAIN c.oids THEN c.oids[o]
                  ELSE IF i > 0 /\ o \prec c.nexts[i].noid THEN NoSuchObject
                  ELSE NotCached
  BY DEF Get
<1>5. o \in DOMAIN c.oids => o \in DOMAIN MIB /\ c.oids[o] = MIB[o]
  BY DEF Truthful
<1> HIDE DEF i
<1> QED BY <1>2, <1>3, <1>4, <1>5

LEMMA GetNextTruthful ==
    ASSUME NEW c, Sound(c), Truthful(c), NEW o \in Oid
    PROVE  GetNext(c, o).val = NotCached \/ Follows(o, GetNext(c, o))
<1> DEFINE i == NextPointer(c, o)
           n == c.nexts[i].noid
<1>1. IsCache(c) /\ c.nexts \in Seq(Entry) /\ c.last \in Oid \cup {NoOid}
  BY DEF Sound, IsCache
<1>2. /\ i \in -1 .. Len(c.nexts) /\ Len(c.nexts) \in Nat
      /\ i > 0 => c.nexts[i].oid \preceq o /\ o \prec n
  BY <1>1, NextPointerFinds, EntryType
<1>3. GetNext(c, o) = IF i = -1 THEN [oid |-> o, val |-> EndOfMibView]
                      ELSE IF i = 0 THEN [oid |-> o, val |-> NotCached]
                      ELSE [oid |-> n, val |-> Get(c, n)]
  BY DEF GetNext
<1>4. ASSUME i = -1 PROVE After(o) = {}
  <2>1. Truthy(c.last) /\ c.last \preceq o
    <3> DEFINE b == BisectRight(c.nexts, o)
    <3>1. b \in 0 .. Len(c.nexts)
      BY <1>1, BisectRightFinds
    <3>2. i = IF Truthy(c.last) /\ c.last \preceq o THEN -1
              ELSE IF b > 0 /\ o \prec c.nexts[b].noid THEN b ELSE 0
      BY DEF NextPointer
    <3> HIDE DEF b, i
    <3> QED BY <3>1, <3>2, <1>4
  <2>2. c.last \in Oid /\ After(c.last) = {}
    BY <2>1, <1>1 DEF Truthy, Truthful
  <2> QED BY <2>1, <2>2, NoneAfterLater
<1> HIDE DEF i
<1>5. CASE i = -1
  BY <1>3, <1>4, <1>5 DEF Follows
<1>6. CASE i = 0
  BY <1>3, <1>6
<1>7. CASE i > 0
  <2>1. i \in 1 .. Len(c.nexts) /\ DOMAIN c.nexts = 1 .. Len(c.nexts)
    BY <1>1, <1>2, <1>7
  <2>2. c.nexts[i].oid \in Oid /\ n \in Oid /\ IsNext(c.nexts[i].oid, n)
    BY <2>1, <1>1, EntryType DEF Truthful
  <2>3. IsNext(o, n) /\ n \in DOMAIN MIB
    BY <2>2, <1>2, <1>7, NextFromWithin DEF IsNext, After
  <2>4. Get(c, n) = NotCached \/ Get(c, n) = MIB[n]
    BY <2>2, <2>3, GetTruthful DEF AgentGet
  <2>5. GetNext(c, o) = [oid |-> n, val |-> Get(c, n)]
    BY <1>3, <1>7
  <2> HIDE DEF n
  <2> QED BY <2>3, <2>4, <2>5 DEF Follows
<1> QED BY <1>2, <1>5, <1>6, <1>7

-----------------------------------------------------------------------------
(* What a truthful cache knows it does not forget by learning more.          *)

\* The cache knows what follows p: the end of the MIB or where an entry leads.
Covered(c, p) ==
    \/ Truthy(c.last) /\ c.last \preceq p
    \/ \E x \in 1 .. Len(c.nexts) : c.nexts[x].oid \preceq p /\ p \prec c.nexts[x].noid

\* The value of what an entry leads to is known.
Valued(c) == \A x \in 1 .. Len(c.nexts) : c.nexts[x].noid \in DOMAIN c.oids

Learns(c, d) == /\ Valued(c) => Valued(d)
                /\ \A p \in Oid : Covered(c, p) => Covered(d, p)

\* getnext answers just what is covered.
LEMMA CoveredIsAnswered ==
    ASSUME NEW c, Sound(c), Valued(c), NEW p \in Oid, Covered(c, p)
    PROVE  GetNext(c, p).val # NotCached
<1> DEFINE i == NextPointer(c, p)
           n == c.nexts[i].noid
<1>0. c.nexts \in Seq(Entry) /\ Disjoint(c.nexts) /\ Len(c.nexts) \in Nat
      /\ c.oids \in [DOMAIN c.oids -> Value]
  BY DEF Sound, IsCache
<1>1. GetNext(c, p).val = IF i = -1 THEN EndOfMibView ELSE IF i = 0 THEN NotCached ELSE Get(c, n)
  BY DEF GetNext
<1>2. CASE Truthy(c.last) /\ c.last \preceq p
  <2>1. i = -1
    BY <1>2 DEF NextPointer
  <2> QED BY <1>1, <2>1, SentinelAssumption
<1>3. CASE ~ (Truthy(c.last) /\ c.last \preceq p)
  <2>1. PICK x \in 1 .. Len(c.nexts) : c.nexts[x].oid \preceq p /\ p \prec c.nexts[x].noid
    BY <1>3 DEF Covered
  <2>2. BisectRight(c.nexts, p) = x
    BY <1>0, <2>1, CoverIsFound
  <2>3. i = x
    BY <1>0, <1>3, <2>1, <2>2 DEF NextPointer
  <2>4. i # -1 /\ i # 0 /\ n \in DOMAIN c.oids
    BY <1>0, <2>3 DEF Valued
  <2>5. Get(c, n) = c.oids[n]
    BY <2>4 DEF Get
  <2> HIDE DEF i, n
  <2>6. Get(c, n) \in Value
    BY <1>0, <2>4, <2>5
  <2> QED BY <1>1, <2>4, <2>6, SentinelAssumption
<1> QED BY <1>2, <1>3

LEMMA AnsweredIsCovered ==
    ASSUME NEW c, Sound(c), NEW p \in Oid, GetNext(c, p) # [oid |-> p, val |-> NotCached]
    PROVE  Covered(c, p)
<1> DEFINE i == NextPointer(c, p)
           b == BisectRight(c.nexts, p)
<1>0. IsCache(c) /\ c.nexts \in Seq(Entry) /\ Len(c.nexts) \in Nat
  BY DEF Sound, IsCache
<1>1. i # 0
  BY DEF GetNext
<1>2. /\ i \in -1 .. Len(c.nexts)
      /\ i > 0 => c.nexts[i].oid \preceq p /\ p \prec c.nexts[i].noid
  BY <1>0, NextPointerFinds
<1>3. b \in 0 .. Len(c.nexts)
  BY <1>0, BisectRightFinds
<1>4. i = IF Truthy(c.last) /\ c.last \preceq p THEN -1
          ELSE IF b > 0 /\ p \prec c.nexts[b].noid THEN b ELSE 0
  BY DEF NextPointer
<1> HIDE DEF i, b
<1>5. CASE i = -1
  BY <1>3, <1>4, <1>5 DEF Covered
<1>6. CASE i > 0
  <2>1. i \in 1 .. Len(c.nexts)
    BY <1>0, <1>2, <1>6
  <2> QED BY <1>2, <1>6, <2>1 DEF Covered
<1> QED BY <1>0, <1>1, <1>2, <1>5, <1>6

LEMMA SetLearns ==
    ASSUME NEW c, Sound(c), NEW o, NEW v
    PROVE  /\ Learns(c, Set(c, o, v))
           /\ Set(c, o, v).nexts = c.nexts /\ Set(c, o, v).last = c.last
           /\ DOMAIN Set(c, o, v).oids = DOMAIN c.oids \cup {o}
<1> DEFINE a == [p \in DOMAIN c.oids \cup {o} |-> IF p = o THEN v ELSE c.oids[p]]
           d == Set(c, o, v)
<1>1. d = [oids |-> a, nexts |-> c.nexts, last |-> c.last]
  <2>1. d = [c EXCEPT !.oids = a]
    BY DEF Set
  <2> HIDE DEF d, a
  <2> QED BY <2>1, UpdateOids DEF Sound
<1>2. DOMAIN a = DOMAIN c.oids \cup {o}
  OBVIOUS
<1> HIDE DEF a, d
<1>3. d.nexts = c.nexts /\ d.last = c.last /\ DOMAIN d.oids = DOMAIN c.oids \cup {o}
  BY <1>1, <1>2
<1>4. Learns(c, d)
  BY <1>3 DEF Learns, Valued, Covered
<1> QED BY <1>3, <1>4 DEF d

\* Entries of a truthful cache that overlap the new one lead to the same oid:
\* one that starts before it covers it, one inside it is covered by it.
LEMMA SetNextValueLearns ==
    ASSUME NEW c, Sound(c), Truthful(c), NEW o \in Oid, NEW n \in Oid, IsNext(o, n), NEW v
    PROVE  /\ Learns(c, SetNextValue(c, o, n, v))
           /\ Covered(SetNextValue(c, o, n, v), o)
<1> DEFINE s == c.nexts
           t == NextsWith(s, o, n)
           l == IF Truthy(c.last) /\ c.last \prec n THEN NoOid ELSE c.last
           e == SetNext(c, o, n)
           d == SetNextValue(c, o, n, v)
<1>1. /\ IsCache(c) /\ s \in Seq(Entry) /\ Disjoint(s) /\ Len(s) \in Nat
      /\ c.last \in Oid \cup {NoOid} /\ o \prec n /\ n \in DOMAIN MIB
  BY DEF Sound, IsCache, IsNext, After
<1>2. Sound(e) /\ Truthful(e)
  BY SetNextTruthful
<1>3. e = [oids |-> c.oids, nexts |-> t, last |-> l]
  <2>1. e = [c EXCEPT !.nexts = t, !.last = l]
    BY DEF SetNext
  <2> HIDE DEF e, t, l
  <2> QED BY <1>1, <2>1, UpdateBoth, Zenon
<1>4. t \in Seq(Entry)
      /\ \A x \in 1 .. Len(t) : \/ t[x] = [oid |-> o, noid |-> n]
                               \/ \E y \in 1 .. Len(s) : t[x] = s[y]
  BY <1>1, NextsWithEntries
<1>5. /\ Learns(e, d) /\ d.nexts = e.nexts /\ d.last = e.last
      /\ DOMAIN d.oids = DOMAIN e.oids \cup {n}
  BY <1>2, SetLearns, Zenon DEF SetNextValue
<1> HIDE DEF e, d, t, l
<1>6. ASSUME NEW p \in Oid, o \preceq p, p \prec n PROVE Covered(e, p)
  <2>1. GetNext(e, p).oid = n
    BY <1>1, <1>6, SetNextLearns DEF e
  <2>2. p # n
    BY <1>6, PrecIrreflexive
  <2>3. GetNext(e, p) # [oid |-> p, val |-> NotCached]
    BY <2>1, <2>2
  <2> QED BY <1>2, <2>3, AnsweredIsCovered
<1>7. ASSUME NEW p \in Oid, Covered(c, p) PROVE Covered(e, p)
  <2>1. CASE Truthy(c.last) /\ c.last \preceq p
    <3>1. ~ (c.last \prec n)
      BY <1>1, <2>1 DEF Truthful, Truthy, After
    <3>2. e.last = c.last
      BY <1>3, <3>1 DEF l
    <3> QED BY <2>1, <3>2 DEF Covered
  <2>2. CASE \E y \in 1 .. Len(s) : s[y].oid \preceq p /\ p \prec s[y].noid
    <3>1. PICK y \in 1 .. Len(s) : s[y].oid \preceq p /\ p \prec s[y].noid
      BY <2>2
    <3>2. /\ s[y].oid \in Oid /\ s[y].noid \in Oid /\ s[y].oid \prec s[y].noid
          /\ IsNext(s[y].oid, s[y].noid)
      BY <1>1, EntryType DEF Disjoint, Truthful
    <3>3. CASE \/ s[y].noid \preceq o
               \/ n \preceq s[y].oid
               \/ s[y].oid \preceq o /\ s[y].noid = n
      <4>1. PICK x \in 1 .. Len(t) : t[x] = s[y]
        BY <1>1, <3>3, SetNextKeeps DEF t
      <4>2. e.nexts = t
        BY <1>3
      <4> QED BY <3>1, <4>1, <4>2 DEF Covered
    <3>4. CASE /\ ~ (s[y].noid \preceq o) /\ ~ (n \preceq s[y].oid)
               /\ ~ (s[y].oid \preceq o /\ s[y].noid = n)
      <4>1. o \prec s[y].noid /\ s[y].oid \prec n
        BY <3>2, <3>4, PrecTotal DEF \preceq
      <4>2. CASE s[y].oid \preceq o
        <5>1. IsNext(o, s[y].noid)
          BY <3>2, <4>1, <4>2, NextFromWithin
        <5> QED BY <3>4, <4>2, <5>1, NextIsUnique
      <4>3. CASE ~ (s[y].oid \preceq o)
        <5>1. o \preceq s[y].oid
          BY <3>2, <4>3, PrecTotal DEF \preceq
        <5>2. IsNext(s[y].oid, n)
          BY <3>2, <4>1, <5>1, NextFromWithin
        <5>3. s[y].noid = n
          BY <3>2, <5>2, NextIsUnique
        <5>4. o \preceq p /\ p \prec n
          BY <3>1, <3>2, <5>1, <5>3, PrecTransitive DEF \preceq
        <5> QED BY <1>6, <5>4
      <4> QED BY <4>2, <4>3
    <3> QED BY <3>3, <3>4
  <2> QED BY <1>7, <2>1, <2>2 DEF Covered
<1>8. ASSUME Valued(c) PROVE Valued(d)
  <2>1. d.nexts = t /\ DOMAIN d.oids = DOMAIN c.oids \cup {n}
    BY <1>3, <1>5
  <2> SUFFICES ASSUME NEW x \in 1 .. Len(t) PROVE t[x].noid \in DOMAIN c.oids \cup {n}
    BY <2>1 DEF Valued
  <2>2. CASE t[x] = [oid |-> o, noid |-> n]
    BY <2>2
  <2>3. CASE \E y \in 1 .. Len(s) : t[x] = s[y]
    BY <1>8, <2>3 DEF Valued
  <2> QED BY <1>4, <2>2, <2>3
<1>9. Covered(d, o)
  <2>1. Covered(e, o)
    BY <1>1, <1>6 DEF \preceq
  <2> QED BY <1>5, <2>1 DEF Learns
<1>10. Learns(c, d)
  BY <1>5, <1>7, <1>8 DEF Learns
<1> QED BY <1>9, <1>10 DEF d

\* No entry of a truthful cache leads past the end.  The end is not the empty
\* oid, because some object follows that.
LEMMA SetEndLearns ==
    ASSUME NEW c, Sound(c), Truthful(c), NEW o \in Oid, After(o) = {}, DOMAIN MIB # {}
    PROVE  Learns(c, SetEnd(c, o))
<1> DEFINE s == c.nexts
           r == NextsUpTo(s, o)
           d == SetEnd(c, o)
<1>1. IsCache(c) /\ s \in Seq(Entry) /\ Len(s) \in Nat /\ c.last \in Oid \cup {NoOid}
  BY DEF Sound, IsCache
<1>2. CASE c.last # NoOid /\ c.last \prec o
  <2>1. d = c
    BY <1>2 DEF SetEnd
  <2> QED BY <2>1 DEF Learns
<1>3. CASE ~ (c.last # NoOid /\ c.last \prec o)
  <2>1. d = [oids |-> c.oids, nexts |-> r, last |-> o]
    <3>1. d = [c EXCEPT !.nexts = r, !.last = o]
      BY <1>3 DEF SetEnd
    <3> HIDE DEF d, r
    <3> QED BY <1>1, <3>1, UpdateBoth, Zenon
  <2>2. \A y \in 1 .. Len(s) : s[y].noid \preceq o
    <3> SUFFICES ASSUME NEW y \in 1 .. Len(s) PROVE s[y].noid \preceq o
      OBVIOUS
    <3>1. s[y].noid \in DOMAIN MIB /\ s[y].noid \in Oid
      BY <1>1, EntryType DEF Truthful, IsNext, After
    <3> QED BY <3>1, PrecTotal DEF After, \preceq
  <2>3. r = s
    <3> DEFINE k == LastUpTo(s, o)
    <3>1. k \in 0 .. Len(s) /\ \A x \in k + 1 .. Len(s) : ~ (s[x].noid \preceq o)
      BY <1>1, LastUpToFinds
    <3>2. r = SubSeq(s, 1, k)
      BY DEF NextsUpTo
    <3> HIDE DEF k, r, s
    <3>3. k = Len(s)
      <4> SUFFICES ASSUME k < Len(s) PROVE FALSE
        BY <1>1, <3>1
      <4>1. Len(s) \in k + 1 .. Len(s) /\ Len(s) \in 1 .. Len(s)
        BY <1>1, <3>1
      <4> QED BY <2>2, <3>1, <4>1
    <3> QED BY <1>1, <3>2, <3>3
  <2>4. o # << >>
    <3>1. PICK m \in DOMAIN MIB : TRUE
      OBVIOUS
    <3>2. << >> \prec m
      BY <3>1, MIBAssumption, EmptyIsLeast
    <3> QED BY <3>2 DEF After
  <2>5. Truthy(o)
    BY <2>4, SentinelAssumption DEF Truthy
  <2>6. d.oids = c.oids /\ d.nexts = s /\ d.last = o
    BY <2>1, <2>3
  <2> HIDE DEF d, s, r
  <2>7. ASSUME NEW p \in Oid, Covered(c, p) PROVE Covered(d, p)
    <3>1. CASE Truthy(c.last) /\ c.last \preceq p
      <4>1. c.last \in Oid /\ o \preceq c.last
        BY <1>1, <1>3, <3>1, PrecTotal DEF Truthy, \preceq
      <4>2. o \preceq p
        BY <3>1, <4>1, PrecTransitive DEF \preceq
      <4> QED BY <2>5, <2>6, <4>2 DEF Covered
    <3>2. CASE \E x \in 1 .. Len(s) : s[x].oid \preceq p /\ p \prec s[x].noid
      BY <2>6, <3>2 DEF Covered
    <3> QED BY <2>7, <3>1, <3>2 DEF Covered, s
  <2>8. Valued(c) => Valued(d)
    BY <2>6 DEF Valued, s
  <2> QED BY <2>7, <2>8 DEF Learns, d
<1> QED BY <1>2, <1>3
=============================================================================
