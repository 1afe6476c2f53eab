----------------------------- MODULE OidsProofs -----------------------------
(* The order of oids is a strict total order, and prev_oid goes down in it.  *)
EXTENDS Oids, WellFoundedInduction, TLAPS

LEMMA LeastNat ==
    ASSUME NEW T \in SUBSET Nat, T # {}
    PROVE  \E m \in T : \A k \in T : m <= k
<1>1. PICK m \in T : \A k \in T : ~ (<<k, m>> \in OpToRel(<, Nat))
  BY WFMin, NatLessThanWellFounded
<1>2. ASSUME NEW k \in T PROVE m <= k
  <2>1. ~ (k < m)
    <3> SUFFICES ASSUME k < m PROVE FALSE
      OBVIOUS
    <3>1. <<k, m>> \in OpToRel(<, Nat)
      BY DEF OpToRel
    <3> QED BY <3>1, <1>1
  <2> QED BY <2>1
<1> QED BY <1>2

LEMMA PrecIrreflexive == \A a \in Oid : ~ (a \prec a)
  BY DEF \prec, Oid

LEMMA PrecTransitive ==
    ASSUME NEW a \in Oid, NEW b \in Oid, NEW c \in Oid, a \prec b, b \prec c
    PROVE  a \prec c
<1>1. PICK m \in 1 .. Len(b) :
        /\ m <= Len(a) + 1
        /\ \A i \in 1 .. m - 1 : a[i] = b[i]
        /\ m <= Len(a) => a[m] < b[m]
  BY DEF \prec
<1>2. PICK n \in 1 .. Len(c) :
        /\ n <= Len(b) + 1
        /\ \A i \in 1 .. n - 1 : b[i] = c[i]
        /\ n <= Len(b) => b[n] < c[n]
  BY DEF \prec
<1>t. /\ Len(a) \in Nat /\ Len(b) \in Nat /\ Len(c) \in Nat
      /\ \A i \in 1 .. Len(a) : a[i] \in Nat
      /\ \A i \in 1 .. Len(b) : b[i] \in Nat
      /\ \A i \in 1 .. Len(c) : c[i] \in Nat
  BY DEF Oid
<1>3. CASE m < n
  <2>1. b[m] = c[m] /\ m \in 1 .. Len(c)
    BY <1>1, <1>2, <1>3
  <2>2. \A i \in 1 .. m - 1 : a[i] = c[i]
    BY <1>1, <1>2, <1>3
  <2>3. m <= Len(a) => a[m] < c[m]
    BY <1>1, <2>1
  <2> QED BY <1>1, <2>1, <2>2, <2>3 DEF \prec
<1>4. CASE n <= m
  <2>1. n <= Len(a) + 1 /\ n <= Len(b)
    BY <1>1, <1>4, <1>t
  <2>2. \A i \in 1 .. n - 1 : a[i] = c[i]
    BY <1>1, <1>2, <1>4
  <2>3. n <= Len(a) => a[n] < c[n]
    <3> SUFFICES ASSUME n <= Len(a) PROVE a[n] < c[n]
      OBVIOUS
    <3>1. a[n] <= b[n]
      BY <1>1, <1>4, <1>t
    <3>2. b[n] < c[n]
      BY <1>2, <2>1
    <3> QED BY <3>1, <3>2, <1>t, <2>1
  <2> QED BY <2>1, <2>2, <2>3 DEF \prec
<1> QED BY <1>3, <1>4

LEMMA PrecTotal ==
    ASSUME NEW a \in Oid, NEW b \in Oid
    PROVE  a \prec b \/ a = b \/ b \prec a
<1> DEFINE D == {n \in Nat : /\ n >= 1
                             /\ \/ n = Len(a) + 1
                                \/ n = Len(b) + 1
                                \/ n <= Len(a) /\ n <= Len(b) /\ a[n] # b[n]}
<1>t. /\ Len(a) \in Nat /\ Len(b) \in Nat
      /\ \A i \in 1 .. Len(a) : a[i] \in Nat
      /\ \A i \in 1 .. Len(b) : b[i] \in Nat
  BY DEF Oid
<1>1. PICK m \in D : \A k \in D : m <= k
  <2>1. Len(a) + 1 \in D
    BY <1>t
  <2> QED BY <2>1, LeastNat
<1>2. m <= Len(a) + 1 /\ m <= Len(b) + 1
  <2>1. Len(a) + 1 \in D /\ Len(b) + 1 \in D
    BY <1>t
  <2> QED BY <2>1, <1>1
<1>3. \A i \in 1 .. m - 1 : a[i] = b[i]
  <2> SUFFICES ASSUME NEW i \in 1 .. m - 1, a[i] # b[i] PROVE FALSE
    OBVIOUS
  <2>1. i \in D
    BY <1>2, <1>t
  <2> QED BY <2>1, <1>1
<1>4. CASE m = Len(a) + 1 /\ m = Len(b) + 1
  <2>1. Len(a) = Len(b)
    BY <1>4, <1>t
  <2>2. a = b
    BY <2>1, <1>3, <1>4, <1>t DEF Oid
  <2> QED BY <2>2
<1>5. CASE m = Len(a) + 1 /\ m <= Len(b)
  <2>1. a \prec b
    BY <1>5, <1>3, <1>t DEF \prec
  <2> QED BY <2>1
<1>6. CASE m <= Len(a) /\ m = Len(b) + 1
  <2>1. b \prec a
    BY <1>6, <1>3, <1>t DEF \prec
  <2> QED BY <2>1
<1>7. CASE m <= Len(a) /\ m <= Len(b)
  <2>1. a[m] # b[m] /\ m >= 1
    BY <1>7, <1>t
  <2>2. CASE a[m] < b[m]
    <3>1. a \prec b
      BY <1>7, <1>3, <2>1, <2>2, <1>t DEF \prec
    <3> QED BY <3>1
  <2>3. CASE b[m] < a[m]
    <3>1. b \prec a
      BY <1>7, <1>3, <2>1, <2>3, <1>t DEF \prec
    <3> QED BY <3>1
  <2> QED BY <2>1, <2>2, <2>3, <1>7, <1>t
<1> QED BY <1>2, <1>4, <1>5, <1>6, <1>7, <1>t

LEMMA EmptyIsLeast ==
    ASSUME NEW o \in Oid, o # << >>
    PROVE  << >> \prec o
<1>1. Len(o) \in Nat /\ Len(o) >= 1
  BY DEF Oid
<1> QED BY <1>1 DEF \prec

(* Tuple comparison orders the oids totally, so a sorted list of intervals   *)
(* has at most one place for an oid and bisect finds it (cache.py:32-36).    *)
THEOREM OidOrder ==
    /\ \A a \in Oid : ~ (a \prec a)
    /\ \A a, b, c \in Oid : a \prec b /\ b \prec c => a \prec c
    /\ \A a, b \in Oid : a \prec b \/ a = b \/ b \prec a
BY PrecIrreflexive, PrecTransitive, PrecTotal

(* prev_oid returns an oid, and a smaller one (engine.py:190): the query     *)
(* that replaces a get never starts past the object that is looked for.      *)
THEOREM PrevOidPrecedes ==
    ASSUME NEW o \in Oid, o # << >>
    PROVE  PrevOid(o) \in Oid /\ PrevOid(o) \prec o
<1> DEFINE l == Len(o)
<1>1. l \in Nat /\ l >= 1 /\ o \in [1 .. l -> Nat]
  BY DEF Oid
<1>2. CASE o[l] = 0
  <2>1. PrevOid(o) = SubSeq(o, 1, l - 1)
    BY <1>2 DEF PrevOid
  <2>2. /\ PrevOid(o) \in Oid /\ Len(PrevOid(o)) = l - 1
        /\ \A i \in 1 .. l - 1 : PrevOid(o)[i] = o[i]
    BY <1>1, <2>1 DEF Oid
  <2> QED BY <2>2, <1>1 DEF \prec
<1>3. CASE o[l] # 0
  <2>1. PrevOid(o) = [o EXCEPT ![l] = o[l] - 1]
    BY <1>3 DEF PrevOid
  <2>2. o[l] \in Nat /\ o[l] - 1 \in Nat
    BY <1>1, <1>3
  <2>3. PrevOid(o) \in [1 .. l -> Nat]
    BY <1>1, <2>1, <2>2
  <2>4. PrevOid(o) \in Oid /\ Len(PrevOid(o)) = l
    BY <1>1, <2>3 DEF Oid
  <2>5. /\ \A i \in 1 .. l - 1 : PrevOid(o)[i] = o[i]
        /\ PrevOid(o)[l] < o[l]
    <3>1. PrevOid(o) = [i \in 1 .. l |-> IF i = l THEN o[l] - 1 ELSE o[i]]
      BY <1>1, <2>1, Zenon
    <3> HIDE DEF l
    <3>2. l \in 1 .. l /\ \A i \in 1 .. l - 1 : i \in 1 .. l /\ i # l
      BY <1>1
    <3>3. PrevOid(o)[l] = o[l] - 1
      BY <3>1, <3>2
    <3>4. \A i \in 1 .. l - 1 : PrevOid(o)[i] = o[i]
      BY <3>1, <3>2
    <3> QED BY <3>3, <3>4, <2>2
  <2> QED BY <2>4, <2>5, <1>1 DEF \prec
<1> QED BY <1>2, <1>3
=============================================================================
