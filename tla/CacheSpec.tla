----------------------------- MODULE CacheSpec ------------------------------
(* An ObjectCache used by any caller that respects its assertions: one       *)
(* action per method that changes it, in any order and with any arguments,   *)
(* which is how engines, the mock backend and a long-running client use it.  *)
EXTENDS ObjectCache

CONSTANTS OIDS         \* the oids callers use

ASSUME OIDSAssumption == OIDS \subseteq Oid /\ IsFiniteSet(OIDS)

VARIABLE cache         \* the ObjectCache instance

Objects == OIDS \ {<< >>}     \* an object's oid is never empty

Init == cache = EmptyCache

DoSet(o, v) == cache' = Set(cache, o, v)

DoSetNext(o, n) == /\ o \prec n
                   /\ cache' = SetNext(cache, o, n)

DoSetNextValue(o, n, v) == /\ o \prec n
                           /\ cache' = SetNextValue(cache, o, n, v)

DoSetEnd(o) == cache' = SetEnd(cache, o)

DoInvalidate(o) == cache' = Invalidate(cache, o)

DoNextFromSet(ks) == /\ IsSortingOf(ks, DOMAIN cache.oids)
                     /\ cache' = NextFromSet(cache, ks)

Listings(S) == [1 .. Cardinality(S) -> S]

Next ==
    \/ \E o \in Objects, v \in Value : DoSet(o, v)
    \/ \E o, n \in OIDS : DoSetNext(o, n)
    \/ \E o, n \in OIDS, v \in Value : DoSetNextValue(o, n, v)
    \/ \E o \in OIDS : DoSetEnd(o)
    \/ \E o \in OIDS : DoInvalidate(o)
    \/ \E ks \in Listings(DOMAIN cache.oids) : DoNextFromSet(ks)

Spec == Init /\ [][Next]_cache
-----------------------------------------------------------------------------
TypeOK == /\ IsCache(cache)
          /\ DOMAIN cache.oids \subseteq Objects

(* The entries are non-empty intervals [oid, noid), sorted and disjoint.     *)
(* bisect finds the one interval that can hold an oid only if this is so;    *)
(* setnext and setend have to cut the list on both sides to keep it.         *)
NextsDisjoint == Disjoint(cache.nexts)

(* No entry leads past a known end: getnext would answer endOfMibView for an *)
(* oid that another getnext has just reported as existing.                   *)
NextsWithinEnd == WithinEnd(cache)

(* get never says noSuchObject of an oid that getnext reports from somewhere *)
(* as the next object.                                                       *)
ReportedObjectsExist ==
    \A o, p \in OIDS :
        GetNext(cache, p).oid = o /\ NextPointer(cache, p) > 0
            => Get(cache, o) # NoSuchObject

(* The loop of nextfromset computes what NextFromSet says.                   *)
NextFromSetIsItsLoop ==
    \A ks \in Listings(DOMAIN cache.oids) :
        IsSortingOf(ks, DOMAIN cache.oids)
            => NextFromSet(cache, ks) = NextFromSetLoop(cache, ks)

(* setnext(o, n), called now: afterwards every oid from o up to n is         *)
(* followed by n (cache.py:127-128), also when older entries covered those   *)
(* oids, led elsewhere, or an end was known before n.                        *)
NextIsLearned ==
    \A o, n \in OIDS : o \prec n =>
        \A p \in OIDS : o \preceq p /\ p \prec n
            => GetNext(SetNext(cache, o, n), p).oid = n

(* setnext(o, n) removes only what contradicts it (cache.py:129): an entry   *)
(* that ends by o, starts from n on, or already leads over o to n, stays.    *)
UncontradictedIsKept ==
    [][\A o, n \in OIDS : DoSetNext(o, n) =>
           \A e \in Range(cache.nexts) :
               \/ e.noid \preceq o
               \/ n \preceq e.oid
               \/ e.oid \preceq o /\ e.noid = n
               => e \in Range(cache'.nexts)]_cache

(* setend(o), called now: afterwards no oid from o on has a successor        *)
(* (cache.py:193), whatever end was known before.  The empty oid is excepted:*)
(* stored as the end, it is taken for "not known" (cache.py:87), and so is   *)
(* every end remembered after it.                                            *)
EndIsAnswered ==
    cache.last # << >> =>
        \A o \in Objects, p \in OIDS :
            o \preceq p => GetNext(SetEnd(cache, o), p).val = EndOfMibView

(* invalidate(o), called now, leaves a hole (cache.py:216): neither query    *)
(* about o is answered from the cache afterwards, whatever covered o before, *)
(* and whether or not o had a value.                                         *)
InvalidatedIsForgotten ==
    \A o \in OIDS : LET d == Invalidate(cache, o)
                   IN  Get(d, o) = NotCached /\ GetNext(d, o).val = NotCached

(* A cache is a NextClaims: what getnext's search finds for each oid.        *)
NextOf(p) == LET i == NextPointer(cache, p)
             IN  CASE i = -1 -> EndOfMib
                   [] i = 0  -> NotCached
                   [] OTHER  -> cache.nexts[i].noid

Claims == INSTANCE NextClaims WITH next    <- [p \in OIDS |-> NextOf(p)],
                                   Unknown <- NotCached,
                                   End     <- EndOfMib

(* Whatever callers do, the list behaves as a set of claims: it answers only *)
(* what it was told, and forgets rather than contradict what it last heard.  *)
ImplementsNextClaims == Claims!Spec
=============================================================================
