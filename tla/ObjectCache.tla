---------------------------- MODULE ObjectCache -----------------------------
(* nssct.cache.ObjectCache: each method as an operator on the cache's value. *)
(* A cache holds                                                             *)
(*   oids   a partial function from oid to the value last set for it,        *)
(*   nexts  a list of entries [oid, noid] sorted by oid, each asserting that *)
(*          noid is the first object after oid,                              *)
(*   last   the oid no object follows, or NoOid (Python's None).             *)
EXTENDS Oids, SequencesExt

CONSTANTS Value,          \* the values an agent can hold
          NoOid,          \* None
          NotCached,      \* the exception get and getnext raise
          EndOfMib,       \* the internal exception
          NoSuchObject,   \* rfc1905.noSuchObject
          EndOfMibView    \* rfc1905.EndOfMibView()

ASSUME SentinelAssumption ==
    /\ {NoOid, NotCached, EndOfMib} \cap Oid = {}
    /\ {NotCached, NoSuchObject, EndOfMibView} \cap Value = {}
    /\ NotCached \notin {EndOfMib, NoSuchObject, EndOfMibView}
    /\ NoSuchObject # EndOfMibView

Entry == [oid : Oid, noid : Oid]

EmptyCache == [oids |-> << >>, nexts |-> << >>, last |-> NoOid]

(* `if self.last`: None and the empty tuple are both false.                  *)
Truthy(o) == o # NoOid /\ o # << >>

(* bisect_left and bisect_right: how many entries start before o, or not     *)
(* after o.                                                                  *)
BisectLeft(s, o)  == SelectLastInSeq(s, LAMBDA e : e.oid \prec o)
BisectRight(s, o) == SelectLastInSeq(s, LAMBDA e : e.oid \preceq o)

\* Mutation of Get: the end of a gap counts as missing too.
GetMissesGapEnd(c, o) ==
    LET i == BisectLeft(c.nexts, o)
    IN  IF o \in DOMAIN c.oids THEN c.oids[o]
        ELSE IF i > 0 /\ o \preceq c.nexts[i].noid THEN NoSuchObject
        ELSE NotCached

Get(c, o) ==
    LET i == BisectLeft(c.nexts, o)
    IN  IF o \in DOMAIN c.oids THEN c.oids[o]
        ELSE IF i > 0 /\ o \prec c.nexts[i].noid THEN NoSuchObject
        ELSE NotCached

\* Mutation of NextPointer: no check that the entry reaches over o.
NextPointerUnchecked(c, o) ==
    IF Truthy(c.last) /\ c.last \preceq o THEN -1
    ELSE BisectRight(c.nexts, o)

(* _getnextpointer: the index of the entry that covers o, 0 for NotCached,   *)
(* -1 for EndOfMib.                                                          *)
NextPointer(c, o) ==
    LET i == BisectRight(c.nexts, o)
    IN  IF Truthy(c.last) /\ c.last \preceq o THEN -1
        ELSE IF i > 0 /\ o \prec c.nexts[i].noid THEN i
        ELSE 0

(* getnext answers a pair; the look-up of the next oid's value may itself    *)
(* raise NotCached.                                                          *)
GetNext(c, o) ==
    LET i == NextPointer(c, o)
    IN  IF i = -1 THEN [oid |-> o, val |-> EndOfMibView]
        ELSE IF i = 0 THEN [oid |-> o, val |-> NotCached]
        ELSE [oid |-> c.nexts[i].noid, val |-> Get(c, c.nexts[i].noid)]

Set(c, o, v) ==
    [c EXCEPT !.oids = [p \in DOMAIN @ \cup {o} |-> IF p = o THEN v ELSE @[p]]]

(* Where setnext's walk to the left stops: at the last of the entries before *)
(* o that ends by o or leads to n, or at 0.                                  *)
LeftStop(s, o, n) ==
    SelectLastInSubSeq(s, 1, BisectLeft(s, o),
                       LAMBDA e : ~ (o \prec e.noid) \/ e.noid = n)

\* Mutation of NextsWith: no walk to the left.
NextsWithLeftKept(s, o, n) ==
    SubSeq(s, 1, BisectLeft(s, o)) \o << [oid |-> o, noid |-> n] >>
    \o SubSeq(s, BisectLeft(s, n) + 1, Len(s))

\* Mutation of NextsWith: the entry that starts at n goes too.
NextsWithoutEntryAtEnd(s, o, n) ==
    LET k == LeftStop(s, o, n)
    IN  SubSeq(s, 1, k)
        \o (IF k > 0 /\ s[k].noid = n THEN << >> ELSE << [oid |-> o, noid |-> n] >>)
        \o SubSeq(s, BisectRight(s, n) + 1, Len(s))

(* The list after setnext(o, n).  Entries k+1 .. j go: those that start      *)
(* before o but reach past it, and those that start inside [o, n).           *)
NextsWith(s, o, n) ==
    LET j       == BisectLeft(s, n)
        k       == LeftStop(s, o, n)
        covered == k > 0 /\ s[k].noid = n
    IN  SubSeq(s, 1, k)
        \o (IF covered THEN << >> ELSE << [oid |-> o, noid |-> n] >>)
        \o SubSeq(s, j + 1, Len(s))

\* Mutation of SetNext: nothing is done when getnext has an answer for o already.
SetNextIfUnknown(c, o, n) ==
    IF NextPointer(c, o) # 0 THEN c
    ELSE [c EXCEPT !.nexts = NextsWith(@, o, n),
                   !.last  = IF Truthy(@) /\ @ \prec n THEN NoOid ELSE @]

(* setnext asserts o \prec n.                                                *)
SetNext(c, o, n) ==
    [c EXCEPT !.nexts = NextsWith(@, o, n),
              !.last  = IF Truthy(@) /\ @ \prec n THEN NoOid ELSE @]

SetNextValue(c, o, n, v) == Set(SetNext(c, o, n), n, v)

(* The list after setend(o): entries are popped off the end until one does   *)
(* not reach past o.                                                         *)
LastUpTo(s, o)  == SelectLastInSeq(s, LAMBDA e : e.noid \preceq o)
NextsUpTo(s, o) == SubSeq(s, 1, LastUpTo(s, o))

\* Mutation of SetEnd: entries that reach past the end stay.
SetEndKeepsNexts(c, o) ==
    IF c.last # NoOid /\ c.last \prec o THEN c ELSE [c EXCEPT !.last = o]

\* Mutation of SetEnd: nothing is done when an end is known, even a higher one.
SetEndIfUnknown(c, o) ==
    IF c.last # NoOid THEN c
    ELSE [c EXCEPT !.nexts = NextsUpTo(@, o), !.last = o]

\* Mutation of SetEnd: the end is also noted as the oid's value.
SetEndAsValue(c, o) ==
    IF c.last # NoOid /\ c.last \prec o THEN c
    ELSE [Set(c, o, EndOfMibView) EXCEPT !.nexts = NextsUpTo(@, o), !.last = o]

SetEnd(c, o) ==
    IF c.last # NoOid /\ c.last \prec o THEN c
    ELSE [c EXCEPT !.nexts = NextsUpTo(@, o), !.last = o]

\* Mutation of Invalidate: nothing is done for an oid without a value, not even
\* when an entry covers it.
InvalidateIfSet(c, o) ==
    LET d == [c EXCEPT !.oids = [p \in DOMAIN @ \ {o} |-> @[p]]]
        i == NextPointer(c, o)
    IN  IF o \notin DOMAIN c.oids THEN c
        ELSE IF i = -1 THEN [d EXCEPT !.last = NoOid]
        ELSE IF i = 0 THEN d
        ELSE [d EXCEPT !.nexts = RemoveAt(@, i)]

Invalidate(c, o) ==
    LET d == [c EXCEPT !.oids = [p \in DOMAIN @ \ {o} |-> @[p]]]
        i == NextPointer(c, o)
    IN  IF i = -1 THEN [d EXCEPT !.last = NoOid]
        ELSE IF i = 0 THEN d
        ELSE [d EXCEPT !.nexts = RemoveAt(@, i)]

(* nextfromset: ks is sorted(self.oids.keys()).                              *)
IsSortingOf(ks, S) ==
    /\ Range(ks) = S
    /\ \A i, j \in DOMAIN ks : i < j => ks[i] \prec ks[j]

Pairs(ks) == [i \in DOMAIN ks |->
                [oid |-> IF i = 1 THEN << >> ELSE ks[i - 1], noid |-> ks[i]]]

\* Mutation of NextFromSet: no setend after the loop.
NextFromSetNoEnd(c, ks) ==
    LET end == IF ks = << >> THEN << >> ELSE ks[Len(ks)]
    IN  [c EXCEPT !.nexts = Pairs(ks),
                  !.last  = IF Truthy(@) /\ @ \prec end THEN NoOid ELSE @]

(* nextfromset empties the list, calls setnext for each pair in order and    *)
(* then setend at the last key, or at the empty oid when there is no key.    *)
(* Each setnext of the loop appends, because the pairs ascend and touch: this*)
(* closed form is what the loop (NextFromSetLoop) computes.                  *)
NextFromSet(c, ks) ==
    LET end == IF ks = << >> THEN << >> ELSE ks[Len(ks)]
        d   == [c EXCEPT !.nexts = Pairs(ks),
                         !.last  = IF Truthy(@) /\ @ \prec end THEN NoOid ELSE @]
    IN  SetEnd(d, end)

NextFromSetLoop(c, ks) ==
    LET after[i \in 0 .. Len(ks)] ==
            IF i = 0 THEN [c EXCEPT !.nexts = << >>]
            ELSE SetNext(after[i - 1], Pairs(ks)[i].oid, Pairs(ks)[i].noid)
    IN  SetEnd(after[Len(ks)], IF ks = << >> THEN << >> ELSE ks[Len(ks)])

(* Non-empty intervals [oid, noid), sorted and disjoint.                     *)
Disjoint(s) ==
    \A i \in 1 .. Len(s) :
        /\ s[i].oid \prec s[i].noid
        /\ \A j \in i + 1 .. Len(s) : s[i].noid \preceq s[j].oid

(* No entry leads past a known end.                                          *)
WithinEnd(c) ==
    Truthy(c.last) => \A i \in 1 .. Len(c.nexts) : c.nexts[i].noid \preceq c.last

IsCache(c) ==
    /\ c = [oids |-> c.oids, nexts |-> c.nexts, last |-> c.last]
    /\ DOMAIN c.oids \subseteq Oid
    /\ c.oids \in [DOMAIN c.oids -> Value]
    /\ c.nexts \in Seq(Entry)
    /\ c.last \in Oid \cup {NoOid}
=============================================================================
