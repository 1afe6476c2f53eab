-------------------------- MODULE ObjectCacheProofs -------------------------
(* What the operators of ObjectCache do to the interval list, for any oids:  *)
(* they keep it sorted and disjoint, put nothing into it but the new entry,  *)
(* and keep it within a known end.                                           *)
EXTENDS ObjectCache, OidsProofs, SequenceTheorems

-----------------------------------------------------------------------------
(* Searching.                                                                *)

LEMMA MaxOfIndices ==
    ASSUME NEW n \in Nat, NEW I \in SUBSET (0 .. n), I # {}
    PROVE  Max(I) \in I /\ \A k \in I : k <= Max(I)
<1> DEFINE T == {n - k : k \in I}
<1>0. PICK e \in I : TRUE
  OBVIOUS
<1>1. T \in SUBSET Nat /\ T # {}
  <2>1. n - e \in T
    BY <1>0
  <2>2. \A k \in I : n - k \in Nat
    OBVIOUS
  <2> QED BY <2>1, <2>2
<1>2. PICK m \in T : \A k \in T : m <= k
  BY <1>1, LeastNat
<1>3. PICK x \in I : m = n - x
  OBVIOUS
<1>4. \A k \in I : x >= k
  <2> SUFFICES ASSUME NEW k \in I PROVE x >= k
    OBVIOUS
  <2>1. n - k \in T
    OBVIOUS
  <2>2. n - x <= n - k
    BY <2>1, <1>2, <1>3
  <2> QED BY <2>2
<1>5. \E y \in I : \A k \in I : y >= k
  BY <1>4
<1>6. Max(I) \in I /\ \A k \in I : Max(I) >= k
  BY <1>5 DEF Max
<1> QED BY <1>6

LEMMA LastIndex ==
    ASSUME NEW n \in Nat, NEW I \in SUBSET (1 .. n),
           NEW m, m = IF I # {} THEN Max(I) ELSE 0
    PROVE  m \in 0 .. n /\ (m > 0 => m \in I) /\ \A k \in m + 1 .. n : k \notin I
<1>1. CASE I = {}
  BY <1>1
<1>2. CASE I # {}
  <2>1. I \in SUBSET (0 .. n)
    OBVIOUS
  <2>2. m \in I /\ \A k \in I : k <= m
    BY <1>2, <2>1, MaxOfIndices
  <2> QED BY <2>2
<1> QED BY <1>1, <1>2

LEMMA EntryType ==
    ASSUME NEW s \in Seq(Entry)
    PROVE  /\ Len(s) \in Nat
           /\ \A i \in 1 .. Len(s) : s[i] \in Entry /\ s[i].oid \in Oid /\ s[i].noid \in Oid
<1>1. \A e \in Entry : e.oid \in Oid /\ e.noid \in Oid
  BY DEF Entry
<1> QED BY <1>1

LEMMA BisectLeftFinds ==
    ASSUME NEW s \in Seq(Entry), NEW o \in Oid
    PROVE  /\ BisectLeft(s, o) \in 0 .. Len(s)
           /\ BisectLeft(s, o) > 0 => s[BisectLeft(s, o)].oid \prec o
           /\ \A k \in BisectLeft(s, o) + 1 .. Len(s) : ~ (s[k].oid \prec o)
<1> DEFINE I == {i \in 1 .. Len(s) : s[i].oid \prec o}
<1>1. BisectLeft(s, o) = IF I # {} THEN Max(I) ELSE 0
  BY DEF BisectLeft, SelectLastInSeq
<1>2. Len(s) \in Nat /\ I \in SUBSET (1 .. Len(s))
  OBVIOUS
<1> DEFINE m == BisectLeft(s, o)
<1>3. m \in 0 .. Len(s) /\ (m > 0 => m \in I) /\ \A k \in m + 1 .. Len(s) : k \notin I
  <2> HIDE DEF I, m
  <2> QED BY <1>1, <1>2, LastIndex DEF m
<1>4. \A k \in m + 1 .. Len(s) : k \in 1 .. Len(s)
  BY <1>2, <1>3
<1> QED BY <1>3, <1>4

LEMMA BisectRightFinds ==
    ASSUME NEW s \in Seq(Entry), NEW o \in Oid
    PROVE  /\ BisectRight(s, o) \in 0 .. Len(s)
           /\ BisectRight(s, o) > 0 => s[BisectRight(s, o)].oid \preceq o
           /\ \A k \in BisectRight(s, o) + 1 .. Len(s) : ~ (s[k].oid \preceq o)
<1> DEFINE I == {i \in 1 .. Len(s) : s[i].oid \preceq o}
<1>1. BisectRight(s, o) = IF I # {} THEN Max(I) ELSE 0
  BY DEF BisectRight, SelectLastInSeq
<1>2. Len(s) \in Nat /\ I \in SUBSET (1 .. Len(s))
  OBVIOUS
<1> DEFINE m == BisectRight(s, o)
<1>3. m \in 0 .. Len(s) /\ (m > 0 => m \in I) /\ \A k \in m + 1 .. Len(s) : k \notin I
  <2> HIDE DEF I, m
  <2> QED BY <1>1, <1>2, LastIndex DEF m
<1>4. \A k \in m + 1 .. Len(s) : k \in 1 .. Len(s)
  BY <1>2, <1>3
<1> QED BY <1>3, <1>4

LEMMA LeftStopFinds ==
    ASSUME NEW s \in Seq(Entry), NEW o \in Oid, NEW n \in Oid
    PROVE  /\ LeftStop(s, o, n) \in 0 .. BisectLeft(s, o)
           /\ LeftStop(s, o, n) > 0 =>
                 ~ (o \prec s[LeftStop(s, o, n)].noid) \/ s[LeftStop(s, o, n)].noid = n
           /\ \A k \in LeftStop(s, o, n) + 1 .. BisectLeft(s, o) :
                 o \prec s[k].noid /\ s[k].noid # n
<1> DEFINE b == BisectLeft(s, o)
<1> DEFINE I == {i \in 1 .. b : ~ (o \prec s[i].noid) \/ s[i].noid = n}
<1>1. LeftStop(s, o, n) = IF I # {} THEN Max(I) ELSE 0
  BY DEF LeftStop, SelectLastInSubSeq
<1>2. b \in Nat
  BY BisectLeftFinds
<1> HIDE DEF b
<1>3. I \in SUBSET (1 .. b)
  OBVIOUS
<1> DEFINE m == LeftStop(s, o, n)
<1>4. m \in 0 .. b /\ (m > 0 => m \in I) /\ \A k \in m + 1 .. b : k \notin I
  <2> HIDE DEF I, m
  <2> QED BY <1>1, <1>2, <1>3, LastIndex DEF m
<1>5. \A k \in m + 1 .. b : k \in 1 .. b
  BY <1>2, <1>4
<1>6. /\ m \in 0 .. b
      /\ m > 0 => ~ (o \prec s[m].noid) \/ s[m].noid = n
      /\ \A k \in m + 1 .. b : o \prec s[k].noid /\ s[k].noid # n
  BY <1>4, <1>5
<1> QED BY <1>6 DEF b

LEMMA LastUpToFinds ==
    ASSUME NEW s \in Seq(Entry), NEW o \in Oid
    PROVE  /\ LastUpTo(s, o) \in 0 .. Len(s)
           /\ LastUpTo(s, o) > 0 => s[LastUpTo(s, o)].noid \preceq o
           /\ \A k \in LastUpTo(s, o) + 1 .. Len(s) : ~ (s[k].noid \preceq o)
<1> DEFINE I == {i \in 1 .. Len(s) : s[i].noid \preceq o}
<1>1. LastUpTo(s, o) = IF I # {} THEN Max(I) ELSE 0
  BY DEF LastUpTo, SelectLastInSeq
<1>2. Len(s) \in Nat /\ I \in SUBSET (1 .. Len(s))
  OBVIOUS
<1> DEFINE m == LastUpTo(s, o)
<1>3. m \in 0 .. Len(s) /\ (m > 0 => m \in I) /\ \A k \in m + 1 .. Len(s) : k \notin I
  <2> HIDE DEF I, m
  <2> QED BY <1>1, <1>2, LastIndex DEF m
<1>4. \A k \in m + 1 .. Len(s) : k \in 1 .. Len(s)
  BY <1>2, <1>3
<1> QED BY <1>3, <1>4

-----------------------------------------------------------------------------
(* The list after setnext.                                                   *)

LEMMA BisectLeftMonotone ==
    ASSUME NEW s \in Seq(Entry), NEW o \in Oid, NEW n \in Oid, o \prec n
    PROVE  BisectLeft(s, o) <= BisectLeft(s, n)
<1> DEFINE i == BisectLeft(s, o)
           j == BisectLeft(s, n)
<1>1. i \in 0 .. Len(s) /\ j \in 0 .. Len(s) /\ Len(s) \in Nat
  BY BisectLeftFinds, EntryType
<1>2. i > 0 => s[i].oid \prec n
  <2> SUFFICES ASSUME i > 0 PROVE s[i].oid \prec n
    OBVIOUS
  <2>1. s[i].oid \prec o
    BY BisectLeftFinds
  <2>2. s[i].oid \in Oid
    BY <1>1, EntryType
  <2> HIDE DEF i
  <2> QED BY <2>1, <2>2, PrecTransitive
<1>3. \A k \in j + 1 .. Len(s) : ~ (s[k].oid \prec n)
  BY BisectLeftFinds
<1> HIDE DEF i, j
<1>4. i <= j
  BY <1>1, <1>2, <1>3
<1> QED BY <1>4 DEF i, j

Parts(t, S, a, b, c) ==
    /\ t \in Seq(S) /\ Len(t) = Len(a) + Len(b) + Len(c)
    /\ \A x \in 1 .. Len(a) : t[x] = a[x]
    /\ \A x \in 1 .. Len(b) : t[Len(a) + x] = b[x]
    /\ \A x \in 1 .. Len(c) : t[Len(a) + Len(b) + x] = c[x]

LEMMA Concat3 ==
    ASSUME NEW S, NEW a \in Seq(S), NEW b \in Seq(S), NEW c \in Seq(S)
    PROVE  Parts(a \o b \o c, S, a, b, c)
<1> DEFINE u == a \o b
           t == u \o c
<1>0. Len(a) \in Nat /\ Len(b) \in Nat /\ Len(c) \in Nat
  OBVIOUS
<1>1. /\ u \in Seq(S) /\ Len(u) = Len(a) + Len(b)
      /\ \A x \in 1 .. Len(a) + Len(b) : u[x] = IF x <= Len(a) THEN a[x] ELSE b[x - Len(a)]
  BY ConcatProperties
<1> HIDE DEF u
<1>3. /\ t \in Seq(S) /\ Len(t) = Len(u) + Len(c)
      /\ \A x \in 1 .. Len(u) + Len(c) : t[x] = IF x <= Len(u) THEN u[x] ELSE c[x - Len(u)]
  <2>1. u \in Seq(S)
    BY <1>1
  <2> QED BY <2>1, ConcatProperties
<1> HIDE DEF t
<1>4. \A x \in 1 .. Len(a) : t[x] = a[x]
  BY <1>0, <1>1, <1>3
<1>5. ASSUME NEW x \in 1 .. Len(b) PROVE t[Len(a) + x] = b[x]
  <2>1. Len(a) + x \in 1 .. Len(u) /\ ~ (Len(a) + x <= Len(a)) /\ (Len(a) + x) - Len(a) = x
    BY <1>0, <1>1
  <2>2. t[Len(a) + x] = u[Len(a) + x]
    BY <1>0, <2>1, <1>3, <1>1
  <2> QED BY <1>0, <2>1, <2>2, <1>1
<1>6. ASSUME NEW x \in 1 .. Len(c) PROVE t[Len(a) + Len(b) + x] = c[x]
  <2> DEFINE z == Len(a) + Len(b) + x
  <2>1. z \in 1 .. Len(u) + Len(c) /\ ~ (z <= Len(u)) /\ z - Len(u) = x
    BY <1>0, <1>1
  <2> HIDE DEF z
  <2>2. t[z] = c[x]
    BY <2>1, <1>3
  <2> QED BY <2>2 DEF z
<1>7. Parts(t, S, a, b, c)
  BY <1>0, <1>1, <1>3, <1>4, <1>5, <1>6 DEF Parts
<1> QED BY <1>7 DEF t, u

\* Whether the new entry is covered by the one the walk stopped at, as a length.
Fresh(s, o, n) == IF LeftStop(s, o, n) > 0 /\ s[LeftStop(s, o, n)].noid = n
                  THEN 0 ELSE 1

Shape(t, s, o, n, k, j, f) ==
    /\ k \in Nat /\ j \in Nat /\ k <= j /\ j <= Len(s) /\ f \in {0, 1}
    /\ t \in Seq(Entry) /\ Len(t) = k + f + (Len(s) - j)
    /\ \A x \in 1 .. k : t[x] = s[x]
    /\ f = 1 => t[k + 1] = [oid |-> o, noid |-> n]
    /\ \A x \in k + f + 1 .. Len(t) :
          /\ x - k - f + j \in j + 1 .. Len(s)
          /\ t[x] = s[x - k - f + j]

LEMMA Shift ==
    ASSUME NEW k \in Nat, NEW f \in Nat, NEW j \in Nat, NEW l \in Nat, j <= l,
           NEW x \in k + f + 1 .. k + f + (l - j)
    PROVE  /\ x - k - f \in 1 .. l - j
           /\ k + f + (x - k - f) = x
           /\ x - k - f + j \in j + 1 .. l
           /\ j + (x - k - f) = x - k - f + j
OBVIOUS

LEMMA NextsWithShape ==
    ASSUME NEW s \in Seq(Entry), NEW o \in Oid, NEW n \in Oid, o \prec n
    PROVE  Shape(NextsWith(s, o, n), s, o, n,
                 LeftStop(s, o, n), BisectLeft(s, n), Fresh(s, o, n))
<1> DEFINE k == LeftStop(s, o, n)
           j == BisectLeft(s, n)
           f == Fresh(s, o, n)
           t == NextsWith(s, o, n)
<1> DEFINE A == SubSeq(s, 1, k)
           B == IF f = 0 THEN << >> ELSE << [oid |-> o, noid |-> n] >>
           C == SubSeq(s, j + 1, Len(s))
<1>1. /\ k \in Nat /\ j \in Nat /\ k <= j /\ j <= Len(s) /\ f \in {0, 1}
      /\ Len(s) \in Nat
  BY BisectLeftFinds, LeftStopFinds, BisectLeftMonotone, EntryType DEF Fresh
<1>2. t = A \o B \o C
  <2>1. t = SubSeq(s, 1, k)
            \o (IF k > 0 /\ s[k].noid = n THEN << >> ELSE << [oid |-> o, noid |-> n] >>)
            \o SubSeq(s, j + 1, Len(s))
    BY Zenon DEF NextsWith
  <2>2. (k > 0 /\ s[k].noid = n) <=> f = 0
    BY DEF Fresh
  <2>3. (IF k > 0 /\ s[k].noid = n THEN << >> ELSE << [oid |-> o, noid |-> n] >>) = B
    BY <2>2, Zenon
  <2> QED BY <2>1, <2>3, Zenon
<1> HIDE DEF k, j, f, t
<1>3. A \in Seq(Entry) /\ Len(A) = k /\ \A x \in 1 .. k : A[x] = s[x]
  BY <1>1
<1>4. /\ C \in Seq(Entry) /\ Len(C) = Len(s) - j
      /\ \A x \in 1 .. Len(C) : C[x] = s[j + x]
  <2>1. j + 1 \in Int /\ Len(s) \in Int /\ \A i \in j + 1 .. Len(s) : s[i] \in Entry
    BY <1>1, EntryType
  <2>2. /\ C \in Seq(Entry)
        /\ Len(C) = IF j + 1 <= Len(s) THEN Len(s) - (j + 1) + 1 ELSE 0
        /\ \A i \in 1 .. Len(s) - (j + 1) + 1 : C[i] = s[j + 1 + i - 1]
    BY <2>1, SubSeqProperties
  <2> HIDE DEF C
  <2>3. Len(C) = Len(s) - j
    BY <2>2, <1>1
  <2>4. ASSUME NEW x \in 1 .. Len(C) PROVE C[x] = s[j + x]
    <3>1. x \in 1 .. Len(s) - (j + 1) + 1 /\ j + 1 + x - 1 = j + x
      BY <2>3, <1>1
    <3> QED BY <3>1, <2>2
  <2> QED BY <2>2, <2>3, <2>4
<1>5. [oid |-> o, noid |-> n] \in Entry
  BY DEF Entry
<1>6. B \in Seq(Entry) /\ Len(B) = f /\ (f = 1 => B[1] = [oid |-> o, noid |-> n])
  BY <1>1, <1>5
<1> HIDE DEF A, B, C
<1>7. /\ t \in Seq(Entry) /\ Len(t) = k + f + (Len(s) - j)
      /\ \A x \in 1 .. k : t[x] = A[x]
      /\ \A x \in 1 .. f : t[k + x] = B[x]
      /\ \A x \in 1 .. Len(C) : t[k + f + x] = C[x]
  <2>1. Parts(t, Entry, A, B, C)
    BY <1>2, <1>3, <1>4, <1>6, Concat3
  <2> QED BY <2>1, <1>3, <1>4, <1>6, <1>1 DEF Parts
<1>8. \A x \in k + f + 1 .. Len(t) :
                 /\ x - k - f + j \in j + 1 .. Len(s)
                 /\ t[x] = s[x - k - f + j]
  <2> SUFFICES ASSUME NEW x \in k + f + 1 .. Len(t)
               PROVE  /\ x - k - f + j \in j + 1 .. Len(s)
                      /\ t[x] = s[x - k - f + j]
    OBVIOUS
  <2>1. Len(C) = Len(s) - j /\ Len(t) = k + f + (Len(s) - j) /\ f \in Nat
    BY <1>1, <1>4, <1>7
  <2>2. /\ x - k - f \in 1 .. Len(C)
        /\ k + f + (x - k - f) = x
        /\ x - k - f + j \in j + 1 .. Len(s)
        /\ j + (x - k - f) = x - k - f + j
    BY <1>1, <2>1, Shift
  <2>3. t[k + f + (x - k - f)] = C[x - k - f] /\ C[x - k - f] = s[j + (x - k - f)]
    BY <2>2, <1>7, <1>4
  <2> QED BY <2>2, <2>3
<1>9. f = 1 => t[k + 1] = [oid |-> o, noid |-> n]
  BY <1>7, <1>6, <1>1
<1>a. \A x \in 1 .. k : t[x] = s[x]
  BY <1>3, <1>7
<1>b. Shape(t, s, o, n, k, j, f)
  BY <1>1, <1>7, <1>a, <1>8, <1>9 DEF Shape
<1> QED BY <1>b DEF k, j, f, t

\* setnext puts nothing into the list but the entry it was given.
LEMMA NextsWithEntries ==
    ASSUME NEW s \in Seq(Entry), NEW o \in Oid, NEW n \in Oid, o \prec n
    PROVE  /\ NextsWith(s, o, n) \in Seq(Entry)
           /\ \A x \in 1 .. Len(NextsWith(s, o, n)) :
                 \/ NextsWith(s, o, n)[x] = [oid |-> o, noid |-> n]
                 \/ \E y \in 1 .. Len(s) : NextsWith(s, o, n)[x] = s[y]
<1> DEFINE k == LeftStop(s, o, n)
           j == BisectLeft(s, n)
           f == Fresh(s, o, n)
           t == NextsWith(s, o, n)
<1>0. Shape(t, s, o, n, k, j, f)
  BY NextsWithShape
<1> HIDE DEF k, j, f, t
<1>1. /\ k \in Nat /\ j \in Nat /\ k <= j /\ j <= Len(s) /\ f \in {0, 1}
      /\ t \in Seq(Entry) /\ Len(t) = k + f + (Len(s) - j) /\ Len(s) \in Nat
      /\ \A x \in 1 .. k : t[x] = s[x]
      /\ f = 1 => t[k + 1] = [oid |-> o, noid |-> n]
      /\ \A x \in k + f + 1 .. Len(t) :
            /\ x - k - f + j \in j + 1 .. Len(s)
            /\ t[x] = s[x - k - f + j]
  BY <1>0, EntryType DEF Shape
<1>2. ASSUME NEW x \in 1 .. Len(t)
      PROVE  t[x] = [oid |-> o, noid |-> n] \/ \E y \in 1 .. Len(s) : t[x] = s[y]
  <2>1. CASE x <= k
    BY <2>1, <1>1, EntryType
  <2>2. CASE x = k + 1 /\ f = 1
    BY <2>2, <1>1
  <2>3. CASE x >= k + f + 1
    <3>1. x - k - f + j \in 1 .. Len(s) /\ t[x] = s[x - k - f + j]
      BY <2>3, <1>1
    <3> QED BY <3>1
  <2> QED BY <2>1, <2>2, <2>3, <1>1
<1> QED BY <1>1, <1>2 DEF t

\* setnext keeps the list sorted and disjoint.
LEMMA NextsWithDisjoint ==
    ASSUME NEW s \in Seq(Entry), Disjoint(s), NEW o \in Oid, NEW n \in Oid, o \prec n
    PROVE  Disjoint(NextsWith(s, o, n))
<1> DEFINE k == LeftStop(s, o, n)
           j == BisectLeft(s, n)
           f == Fresh(s, o, n)
           t == NextsWith(s, o, n)
<1>0. Shape(t, s, o, n, k, j, f)
  BY NextsWithShape
<1>1. /\ k \in Nat /\ j \in Nat /\ k <= j /\ j <= Len(s) /\ f \in {0, 1}
      /\ t \in Seq(Entry) /\ Len(t) = k + f + (Len(s) - j) /\ Len(s) \in Nat
      /\ \A x \in 1 .. k : t[x] = s[x]
      /\ f = 1 => t[k + 1] = [oid |-> o, noid |-> n]
      /\ \A x \in k + f + 1 .. Len(t) :
            /\ x - k - f + j \in j + 1 .. Len(s)
            /\ t[x] = s[x - k - f + j]
  <2> HIDE DEF k, j, f, t
  <2> QED BY <1>0, EntryType DEF Shape
<1>2. f = 1 /\ k > 0 => s[k].noid \preceq o
  <2> SUFFICES ASSUME f = 1, k > 0 PROVE s[k].noid \preceq o
    OBVIOUS
  <2>1. ~ (o \prec s[k].noid)
    BY LeftStopFinds DEF Fresh
  <2>2. s[k].noid \in Oid
    BY <1>1, EntryType
  <2> QED BY <2>1, <2>2, PrecTotal DEF \preceq
<1>3. \A y \in j + 1 .. Len(s) : n \preceq s[y].oid
  <2> SUFFICES ASSUME NEW y \in j + 1 .. Len(s) PROVE n \preceq s[y].oid
    OBVIOUS
  <2>1. ~ (s[y].oid \prec n)
    BY BisectLeftFinds
  <2>2. s[y].oid \in Oid
    BY <1>1, EntryType
  <2> QED BY <2>1, <2>2, PrecTotal DEF \preceq
<1>4. /\ \A x \in 1 .. Len(s) : s[x].oid \prec s[x].noid
      /\ \A x \in 1 .. Len(s) : \A y \in x + 1 .. Len(s) : s[x].noid \preceq s[y].oid
      /\ \A x \in 1 .. Len(s) : s[x].oid \in Oid /\ s[x].noid \in Oid
  BY EntryType DEF Disjoint
<1> HIDE DEF k, j, f, t
<1>5. f = 1 => \A x \in 1 .. k : s[x].noid \preceq o
  <2> SUFFICES ASSUME f = 1, NEW x \in 1 .. k PROVE s[x].noid \preceq o
    OBVIOUS
  <2>1. s[k].noid \preceq o /\ k \in 1 .. Len(s) /\ x \in 1 .. Len(s)
    BY <1>1, <1>2
  <2>2. CASE x = k
    BY <2>1, <2>2
  <2>3. CASE x < k
    <3>1. s[x].noid \preceq s[k].oid
      BY <1>4, <2>1, <2>3
    <3>2. s[k].oid \prec s[k].noid
      BY <1>4, <2>1
    <3> QED BY <3>1, <3>2, <2>1, <1>4, PrecTransitive DEF \preceq
  <2> QED BY <2>2, <2>3, <1>1
<1>6. ASSUME NEW x \in 1 .. Len(t) PROVE t[x].oid \prec t[x].noid
  <2>1. CASE x <= k
    <3>1. x \in 1 .. k /\ x \in 1 .. Len(s)
      BY <2>1, <1>1
    <3> QED BY <3>1, <1>1, <1>4
  <2>2. CASE x = k + 1 /\ f = 1
    <3>1. t[x] = [oid |-> o, noid |-> n]
      BY <2>2, <1>1
    <3> QED BY <3>1
  <2>3. CASE x >= k + f + 1
    <3>1. x - k - f + j \in 1 .. Len(s) /\ t[x] = s[x - k - f + j]
      BY <2>3, <1>1
    <3> QED BY <3>1, <1>4
  <2> QED BY <2>1, <2>2, <2>3, <1>1
<1>7. ASSUME NEW x \in 1 .. Len(t), NEW y \in x + 1 .. Len(t)
      PROVE  t[x].noid \preceq t[y].oid
  <2>1. CASE y <= k
    <3>1. x \in 1 .. k /\ y \in 1 .. k /\ x \in 1 .. Len(s) /\ y \in x + 1 .. Len(s)
      BY <2>1, <1>1
    <3> QED BY <3>1, <1>1, <1>4
  <2>2. CASE f = 1 /\ y = k + 1
    <3>1. x \in 1 .. k /\ t[y].oid = o
      BY <2>2, <1>1
    <3>2. t[x] = s[x]
      BY <3>1, <1>1
    <3> QED BY <3>1, <3>2, <1>5, <2>2
  <2>3. CASE y >= k + f + 1
    <3> DEFINE v == y - k - f + j
    <3>1. v \in j + 1 .. Len(s) /\ v \in 1 .. Len(s) /\ t[y] = s[v]
      BY <2>3, <1>1
    <3> HIDE DEF v
    <3>2. CASE x <= k
      <4>1. x \in 1 .. k /\ x \in 1 .. Len(s) /\ v \in x + 1 .. Len(s)
        BY <3>2, <1>1, <3>1
      <4> QED BY <4>1, <3>1, <1>1, <1>4
    <3>3. CASE f = 1 /\ x = k + 1
      <4>1. t[x].noid = n
        BY <3>3, <1>1
      <4> QED BY <4>1, <3>1, <1>3
    <3>4. CASE x >= k + f + 1
      <4> DEFINE u == x - k - f + j
      <4>1. u \in 1 .. Len(s) /\ t[x] = s[u] /\ u < v
        BY <3>4, <1>1, <2>3 DEF v
      <4> HIDE DEF u
      <4>2. v \in u + 1 .. Len(s)
        BY <4>1, <3>1
      <4> QED BY <4>1, <4>2, <3>1, <1>4
    <3> QED BY <3>2, <3>3, <3>4, <1>1
  <2> QED BY <2>1, <2>2, <2>3, <1>1
<1>8. Disjoint(t)
  BY <1>6, <1>7 DEF Disjoint
<1> QED BY <1>8 DEF t

-----------------------------------------------------------------------------
(* The list after setend and after invalidate.                               *)

\* r is s without some of its entries.
Thinned(r, s) ==
    /\ r \in Seq(Entry)
    /\ \E at \in [1 .. Len(r) -> 1 .. Len(s)] :
          /\ \A x \in 1 .. Len(r) : r[x] = s[at[x]]
          /\ \A x, y \in 1 .. Len(r) : x < y => at[x] < at[y]

LEMMA ThinnedDisjoint ==
    ASSUME NEW s \in Seq(Entry), Disjoint(s), NEW r, Thinned(r, s)
    PROVE  Disjoint(r)
<1>1. Len(r) \in Nat /\ Len(s) \in Nat
  BY DEF Thinned
<1>2. PICK at \in [1 .. Len(r) -> 1 .. Len(s)] :
          /\ \A x \in 1 .. Len(r) : r[x] = s[at[x]]
          /\ \A x, y \in 1 .. Len(r) : x < y => at[x] < at[y]
  BY DEF Thinned
<1>3. ASSUME NEW x \in 1 .. Len(r) PROVE r[x].oid \prec r[x].noid
  BY <1>2 DEF Disjoint
<1>4. ASSUME NEW x \in 1 .. Len(r), NEW y \in x + 1 .. Len(r)
      PROVE  r[x].noid \preceq r[y].oid
  <2>1. x < y /\ y \in 1 .. Len(r)
    BY <1>1
  <2>2. at[x] \in 1 .. Len(s) /\ at[y] \in at[x] + 1 .. Len(s)
    BY <2>1, <1>1, <1>2
  <2>3. s[at[x]].noid \preceq s[at[y]].oid
    BY <2>2 DEF Disjoint
  <2> QED BY <2>1, <2>3, <1>2
<1> QED BY <1>3, <1>4 DEF Disjoint

LEMMA ThinnedEntries ==
    ASSUME NEW s \in Seq(Entry), NEW r, Thinned(r, s), NEW x \in 1 .. Len(r)
    PROVE  \E y \in 1 .. Len(s) : r[x] = s[y]
BY DEF Thinned

LEMMA NextsUpToThinned ==
    ASSUME NEW s \in Seq(Entry), NEW o \in Oid
    PROVE  Thinned(NextsUpTo(s, o), s)
<1> DEFINE m == LastUpTo(s, o)
           r == NextsUpTo(s, o)
<1>1. m \in 0 .. Len(s) /\ Len(s) \in Nat
  BY LastUpToFinds, EntryType
<1>2. r = SubSeq(s, 1, m)
  BY DEF NextsUpTo
<1> HIDE DEF m, r
<1>3. r \in Seq(Entry) /\ Len(r) = m /\ \A x \in 1 .. m : r[x] = s[x]
  BY <1>1, <1>2
<1>4. [x \in 1 .. Len(r) |-> x] \in [1 .. Len(r) -> 1 .. Len(s)]
  BY <1>1, <1>3
<1>5. Thinned(r, s)
  BY <1>3, <1>4 DEF Thinned
<1> QED BY <1>5 DEF r

\* setend leaves no entry that reaches past the end.
LEMMA NextsUpToWithin ==
    ASSUME NEW s \in Seq(Entry), Disjoint(s), NEW o \in Oid
    PROVE  \A x \in 1 .. Len(NextsUpTo(s, o)) : NextsUpTo(s, o)[x].noid \preceq o
<1> DEFINE m == LastUpTo(s, o)
           r == NextsUpTo(s, o)
<1>1. m \in 0 .. Len(s) /\ Len(s) \in Nat /\ (m > 0 => s[m].noid \preceq o)
  BY LastUpToFinds, EntryType
<1>2. r = SubSeq(s, 1, m)
  BY DEF NextsUpTo
<1> HIDE DEF m, r
<1>3. Len(r) = m /\ \A x \in 1 .. m : r[x] = s[x]
  BY <1>1, <1>2
<1>4. ASSUME NEW x \in 1 .. Len(r) PROVE r[x].noid \preceq o
  <2>1. x \in 1 .. Len(s) /\ m \in 1 .. Len(s) /\ r[x] = s[x]
    BY <1>1, <1>3
  <2>2. CASE x = m
    BY <2>1, <2>2, <1>1
  <2>3. CASE x < m
    <3>1. s[x].noid \preceq s[m].oid /\ s[m].oid \prec s[m].noid
      BY <2>1, <2>3 DEF Disjoint
    <3>2. s[x].noid \in Oid /\ s[m].oid \in Oid /\ s[m].noid \in Oid
      BY <2>1, EntryType
    <3> QED BY <3>1, <3>2, <2>1, <1>1, PrecTransitive DEF \preceq
  <2> QED BY <2>2, <2>3, <1>3, <1>1
<1> QED BY <1>4 DEF r

\* ... and the entry removed is the one at i.
LEMMA RemoveAtThinned ==
    ASSUME NEW s \in Seq(Entry), NEW i \in 1 .. Len(s)
    PROVE  /\ Thinned(RemoveAt(s, i), s)
           /\ \A x \in 1 .. Len(RemoveAt(s, i)) :
                 \E y \in 1 .. Len(s) : y # i /\ RemoveAt(s, i)[x] = s[y]
<1> DEFINE A == SubSeq(s, 1, i - 1)
           C == SubSeq(s, i + 1, Len(s))
           r == RemoveAt(s, i)
           at == [x \in 1 .. Len(r) |-> IF x < i THEN x ELSE x + 1]
<1>1. Len(s) \in Nat /\ \A x \in 1 .. Len(s) : s[x] \in Entry
  BY EntryType
<1>2. A \in Seq(Entry) /\ Len(A) = i - 1 /\ \A x \in 1 .. i - 1 : A[x] = s[x]
  BY <1>1
<1>3. /\ C \in Seq(Entry) /\ Len(C) = Len(s) - i
      /\ \A x \in 1 .. Len(s) - i : C[x] = s[i + x]
  <2>1. i + 1 \in Int /\ Len(s) \in Int /\ \A x \in i + 1 .. Len(s) : s[x] \in Entry
    BY <1>1
  <2>2. /\ C \in Seq(Entry)
        /\ Len(C) = IF i + 1 <= Len(s) THEN Len(s) - (i + 1) + 1 ELSE 0
        /\ \A x \in 1 .. Len(s) - (i + 1) + 1 : C[x] = s[i + 1 + x - 1]
    BY <2>1, SubSeqProperties
  <2> HIDE DEF C
  <2>3. Len(C) = Len(s) - i
    BY <2>2, <1>1
  <2>4. ASSUME NEW x \in 1 .. Len(s) - i PROVE C[x] = s[i + x]
    <3>1. x \in 1 .. Len(s) - (i + 1) + 1 /\ i + 1 + x - 1 = i + x
      BY <1>1
    <3> QED BY <3>1, <2>2
  <2> QED BY <2>2, <2>3, <2>4
<1>4. r = A \o C
  BY DEF RemoveAt
<1> HIDE DEF A, C, r
<1>5. /\ r \in Seq(Entry) /\ Len(r) = Len(A) + Len(C)
      /\ \A x \in 1 .. Len(A) + Len(C) : r[x] = IF x <= Len(A) THEN A[x] ELSE C[x - Len(A)]
  BY <1>2, <1>3, <1>4, ConcatProperties
<1>6. Len(r) = Len(s) - 1
  BY <1>5, <1>2, <1>3, <1>1
<1>7. at \in [1 .. Len(r) -> 1 .. Len(s)]
  BY <1>6, <1>1
<1>8. ASSUME NEW x \in 1 .. Len(r) PROVE r[x] = s[at[x]]
  <2>1. CASE x < i
    BY <2>1, <1>2, <1>5
  <2>2. CASE x >= i
    <3>1. x - Len(A) \in 1 .. Len(s) - i /\ ~ (x <= Len(A)) /\ i + (x - Len(A)) = x + 1
      BY <2>2, <1>2, <1>6, <1>1
    <3>2. r[x] = C[x - Len(A)]
      BY <3>1, <1>5
    <3>3. r[x] = s[x + 1]
      BY <3>1, <3>2, <1>3
    <3> QED BY <3>3, <2>2
  <2> QED BY <2>1, <2>2
<1>9. /\ \A x, y \in 1 .. Len(r) : x < y => at[x] < at[y]
      /\ \A x \in 1 .. Len(r) : at[x] # i
  BY <1>6, <1>1
<1> HIDE DEF at
<1>a. Thinned(r, s)
  BY <1>5, <1>7, <1>8, <1>9 DEF Thinned
<1>b. \A x \in 1 .. Len(r) : \E y \in 1 .. Len(s) : y # i /\ r[x] = s[y]
  BY <1>7, <1>8, <1>9
<1> QED BY <1>a, <1>b DEF r
-----------------------------------------------------------------------------
(* What each method does to a whole cache.                                   *)

\* What every cache is, whatever callers did with it.
Sound(c) == IsCache(c) /\ Disjoint(c.nexts) /\ WithinEnd(c)

LEMMA Made ==
    ASSUME NEW S \in SUBSET Oid, NEW a \in [S -> Value], NEW s \in Seq(Entry),
           NEW l \in Oid \cup {NoOid}
    PROVE  IsCache([oids |-> a, nexts |-> s, last |-> l])
BY DEF IsCache

LEMMA UpdateOids ==
    ASSUME NEW c, IsCache(c), NEW a
    PROVE  [c EXCEPT !.oids = a] = [oids |-> a, nexts |-> c.nexts, last |-> c.last]
<1>1. c = [oids |-> c.oids, nexts |-> c.nexts, last |-> c.last]
  BY DEF IsCache
<1> QED BY <1>1

LEMMA UpdateNexts ==
    ASSUME NEW c, IsCache(c), NEW s
    PROVE  [c EXCEPT !.nexts = s] = [oids |-> c.oids, nexts |-> s, last |-> c.last]
<1>1. c = [oids |-> c.oids, nexts |-> c.nexts, last |-> c.last]
  BY DEF IsCache
<1> QED BY <1>1

LEMMA UpdateLast ==
    ASSUME NEW c, IsCache(c), NEW l
    PROVE  [c EXCEPT !.last = l] = [oids |-> c.oids, nexts |-> c.nexts, last |-> l]
<1>1. c = [oids |-> c.oids, nexts |-> c.nexts, last |-> c.last]
  BY DEF IsCache
<1> QED BY <1>1

LEMMA UpdateBoth ==
    ASSUME NEW c, IsCache(c), NEW s, NEW l
    PROVE  [c EXCEPT !.nexts = s, !.last = l] = [oids |-> c.oids, nexts |-> s, last |-> l]
<1> DEFINE x == c.oids
           y == c.nexts
           z == c.last
           d == [c EXCEPT !.nexts = s, !.last = l]
<1>1. c = [oids |-> x, nexts |-> y, last |-> z]
  BY DEF IsCache
<1> HIDE DEF x, y, z
<1>2. DOMAIN d = {"oids", "nexts", "last"}
  BY <1>1
<1>3. d.oids = x /\ d.nexts = s /\ d.last = l
  BY <1>1
<1>4. d = [f \in {"oids", "nexts", "last"} |-> d[f]]
  BY <1>1
<1>5. d = [oids |-> x, nexts |-> s, last |-> l]
  <2> HIDE DEF d
  <2> QED BY <1>2, <1>3, <1>4
<1> QED BY <1>5 DEF x, d

LEMMA SetSound ==
    ASSUME NEW c, Sound(c), NEW o \in Oid, NEW v \in Value
    PROVE  Sound(Set(c, o, v)) /\ DOMAIN Set(c, o, v).oids = DOMAIN c.oids \cup {o}
<1> DEFINE D == DOMAIN c.oids
           a == [p \in D \cup {o} |-> IF p = o THEN v ELSE c.oids[p]]
<1>0. IsCache(c)
  BY DEF Sound
<1>1. D \subseteq Oid /\ c.oids \in [D -> Value] /\ c.nexts \in Seq(Entry)
      /\ c.last \in Oid \cup {NoOid}
  BY <1>0 DEF IsCache
<1>2. Set(c, o, v) = [c EXCEPT !.oids = a]
  BY DEF Set
<1>3. a \in [D \cup {o} -> Value]
  BY <1>1
<1>4. DOMAIN a = D \cup {o}
  OBVIOUS
<1> HIDE DEF a, D
<1>5. Set(c, o, v) = [oids |-> a, nexts |-> c.nexts, last |-> c.last]
  BY <1>0, <1>2, UpdateOids
<1>6. IsCache(Set(c, o, v))
  BY <1>1, <1>3, <1>5, Made
<1>7. Disjoint(c.nexts) /\ WithinEnd(c)
  BY DEF Sound
<1> QED BY <1>4, <1>5, <1>6, <1>7 DEF Sound, WithinEnd, D

LEMMA SetNextSound ==
    ASSUME NEW c, Sound(c), NEW o \in Oid, NEW n \in Oid, o \prec n
    PROVE  Sound(SetNext(c, o, n)) /\ SetNext(c, o, n).oids = c.oids
<1> DEFINE t == NextsWith(c.nexts, o, n)
           l == IF Truthy(c.last) /\ c.last \prec n THEN NoOid ELSE c.last
           d == [oids |-> c.oids, nexts |-> t, last |-> l]
<1>1. IsCache(c) /\ Disjoint(c.nexts) /\ WithinEnd(c)
  BY DEF Sound
<1>2. DOMAIN c.oids \subseteq Oid /\ c.oids \in [DOMAIN c.oids -> Value]
      /\ c.nexts \in Seq(Entry) /\ c.last \in Oid \cup {NoOid}
  BY <1>1 DEF IsCache
<1>3. SetNext(c, o, n) = [c EXCEPT !.nexts = t, !.last = l]
  BY DEF SetNext
<1>4. l \in Oid \cup {NoOid}
  BY <1>2
<1>5. /\ t \in Seq(Entry) /\ Disjoint(t)
      /\ \A x \in 1 .. Len(t) : \/ t[x] = [oid |-> o, noid |-> n]
                               \/ \E y \in 1 .. Len(c.nexts) : t[x] = c.nexts[y]
  BY <1>1, <1>2, NextsWithEntries, NextsWithDisjoint
<1>6. Truthy(l) => l = c.last /\ n \preceq l
  <2> SUFFICES ASSUME Truthy(l) PROVE l = c.last /\ n \preceq l
    OBVIOUS
  <2>1. l # NoOid
    BY DEF Truthy
  <2>2. l = c.last /\ ~ (Truthy(c.last) /\ c.last \prec n)
    BY <2>1, Zenon
  <2>3. ~ (l \prec n) /\ l \in Oid
    BY <2>1, <2>2, <1>4
  <2> HIDE DEF l
  <2> QED BY <2>2, <2>3, PrecTotal DEF \preceq
<1> HIDE DEF t, l
<1>7. SetNext(c, o, n) = d
  BY <1>1, <1>3, UpdateBoth, Zenon
<1>8. IsCache(d)
  BY <1>2, <1>4, <1>5, Made
<1>9. WithinEnd(d)
  <2> SUFFICES ASSUME Truthy(l), NEW x \in 1 .. Len(t) PROVE t[x].noid \preceq l
    BY DEF WithinEnd
  <2>1. CASE t[x] = [oid |-> o, noid |-> n]
    BY <2>1, <1>6
  <2>2. CASE \E y \in 1 .. Len(c.nexts) : t[x] = c.nexts[y]
    BY <2>2, <1>6, <1>1 DEF WithinEnd
  <2> QED BY <2>1, <2>2, <1>5
<1> QED BY <1>5, <1>7, <1>8, <1>9 DEF Sound

LEMMA SetEndSound ==
    ASSUME NEW c, IsCache(c), Disjoint(c.nexts), NEW o \in Oid,
           \/ WithinEnd(c)
           \/ ~ (c.last # NoOid /\ c.last \prec o)
    PROVE  Sound(SetEnd(c, o)) /\ SetEnd(c, o).oids = c.oids
<1> DEFINE r == NextsUpTo(c.nexts, o)
           d == [oids |-> c.oids, nexts |-> r, last |-> o]
<1>1. DOMAIN c.oids \subseteq Oid /\ c.oids \in [DOMAIN c.oids -> Value]
      /\ c.nexts \in Seq(Entry) /\ c.last \in Oid \cup {NoOid}
  BY DEF IsCache
<1>2. CASE c.last # NoOid /\ c.last \prec o
  <2>1. SetEnd(c, o) = c
    BY <1>2 DEF SetEnd
  <2> QED BY <2>1, <1>2 DEF Sound
<1>3. CASE ~ (c.last # NoOid /\ c.last \prec o)
  <2>1. SetEnd(c, o) = [c EXCEPT !.nexts = r, !.last = o]
    BY <1>3 DEF SetEnd
  <2>2. Thinned(r, c.nexts) /\ \A x \in 1 .. Len(r) : r[x].noid \preceq o
    BY <1>1, NextsUpToThinned, NextsUpToWithin
  <2> HIDE DEF r
  <2>3. SetEnd(c, o) = d
    BY <2>1, UpdateBoth, Zenon
  <2>4. r \in Seq(Entry) /\ Disjoint(r)
    BY <2>2, <1>1, ThinnedDisjoint DEF Thinned
  <2>5. IsCache(d)
    BY <2>4, <1>1, Made
  <2>6. WithinEnd(d)
    BY <2>2 DEF WithinEnd
  <2> QED BY <2>3, <2>4, <2>5, <2>6 DEF Sound
<1> QED BY <1>2, <1>3

LEMMA NextPointerFinds ==
    ASSUME NEW c, IsCache(c), NEW o \in Oid
    PROVE  /\ NextPointer(c, o) \in -1 .. Len(c.nexts)
           /\ NextPointer(c, o) > 0 => /\ c.nexts[NextPointer(c, o)].oid \preceq o
                                       /\ o \prec c.nexts[NextPointer(c, o)].noid
<1>1. c.nexts \in Seq(Entry)
  BY DEF IsCache
<1> DEFINE i == BisectRight(c.nexts, o)
<1>2. i \in 0 .. Len(c.nexts) /\ (i > 0 => c.nexts[i].oid \preceq o)
  BY <1>1, BisectRightFinds
<1>3. NextPointer(c, o) = IF Truthy(c.last) /\ c.last \preceq o THEN -1
                          ELSE IF i > 0 /\ o \prec c.nexts[i].noid THEN i ELSE 0
  BY DEF NextPointer
<1>4. Len(c.nexts) \in Nat
  BY <1>1
<1> HIDE DEF i
<1> QED BY <1>2, <1>3, <1>4

LEMMA InvalidateSound ==
    ASSUME NEW c, Sound(c), NEW o \in Oid
    PROVE  Sound(Invalidate(c, o)) /\ DOMAIN Invalidate(c, o).oids = DOMAIN c.oids \ {o}
<1> DEFINE D == DOMAIN c.oids \ {o}
           a == [p \in D |-> c.oids[p]]
           i == NextPointer(c, o)
           d == [oids |-> a, nexts |-> c.nexts, last |-> c.last]
<1>1. IsCache(c) /\ Disjoint(c.nexts) /\ WithinEnd(c)
  BY DEF Sound
<1>2. DOMAIN c.oids \subseteq Oid /\ c.oids \in [DOMAIN c.oids -> Value]
      /\ c.nexts \in Seq(Entry) /\ c.last \in Oid \cup {NoOid}
  BY <1>1 DEF IsCache
<1>3. D \in SUBSET Oid /\ a \in [D -> Value] /\ DOMAIN a = D
  BY <1>2
<1>4. i \in -1 .. Len(c.nexts) /\ Len(c.nexts) \in Nat
  BY <1>1, <1>2, NextPointerFinds
<1>5. Invalidate(c, o) = IF i = -1 THEN [[c EXCEPT !.oids = a] EXCEPT !.last = NoOid]
                         ELSE IF i = 0 THEN [c EXCEPT !.oids = a]
                         ELSE [[c EXCEPT !.oids = a] EXCEPT !.nexts = RemoveAt(c.nexts, i)]
  <2>1. [c EXCEPT !.oids = a].nexts = c.nexts
    BY <1>1, UpdateOids
  <2> HIDE DEF a
  <2> QED BY <2>1, Zenon DEF Invalidate, a
<1> HIDE DEF a, D, i
<1>6. [c EXCEPT !.oids = a] = d /\ IsCache(d)
  BY <1>1, <1>2, <1>3, UpdateOids, Made
<1>7. CASE i = -1
  <2> DEFINE e == [oids |-> a, nexts |-> c.nexts, last |-> NoOid]
  <2>1. Invalidate(c, o) = e
    BY <1>5, <1>6, <1>7, UpdateLast
  <2>2. IsCache(e)
    BY <1>2, <1>3, Made
  <2>3. WithinEnd(e)
    BY DEF WithinEnd, Truthy
  <2> QED BY <2>1, <2>2, <2>3, <1>1, <1>3 DEF Sound, D
<1>8. CASE i = 0
  <2>1. Invalidate(c, o) = d
    BY <1>5, <1>6, <1>8
  <2>2. WithinEnd(d)
    BY <1>1 DEF WithinEnd
  <2> QED BY <2>1, <2>2, <1>6, <1>1, <1>3 DEF Sound, D
<1>9. CASE i > 0
  <2> DEFINE r == RemoveAt(c.nexts, i)
             e == [oids |-> a, nexts |-> r, last |-> c.last]
  <2>1. Thinned(r, c.nexts)
    BY <1>9, <1>4, <1>2, RemoveAtThinned
  <2>2. Invalidate(c, o) = [d EXCEPT !.nexts = r]
    <3>1. i # -1 /\ i # 0
      BY <1>9, <1>4
    <3>2. [c EXCEPT !.oids = a] = d
      BY <1>6
    <3> HIDE DEF d
    <3> QED BY <1>5, <3>1, <3>2, Zenon
  <2> HIDE DEF r
  <2>3. Invalidate(c, o) = e
    BY <2>2, <1>6, UpdateNexts
  <2>4. r \in Seq(Entry) /\ Disjoint(r)
    BY <2>1, <1>1, <1>2, ThinnedDisjoint DEF Thinned
  <2>5. IsCache(e)
    BY <2>4, <1>2, <1>3, Made
  <2>6. WithinEnd(e)
    <3> SUFFICES ASSUME Truthy(c.last), NEW x \in 1 .. Len(r)
                 PROVE  r[x].noid \preceq c.last
      BY DEF WithinEnd
    <3>1. PICK y \in 1 .. Len(c.nexts) : r[x] = c.nexts[y]
      BY <2>1, <1>2, ThinnedEntries
    <3> QED BY <3>1, <1>1 DEF WithinEnd
  <2> QED BY <2>3, <2>4, <2>5, <2>6, <1>3 DEF Sound, D
<1> QED BY <1>4, <1>7, <1>8, <1>9

LEMMA PairsDisjoint ==
    ASSUME NEW ks \in Seq(Oid), \A x, y \in 1 .. Len(ks) : x < y => ks[x] \prec ks[y],
           \A x \in 1 .. Len(ks) : ks[x] # << >>
    PROVE  Pairs(ks) \in Seq(Entry) /\ Disjoint(Pairs(ks))
<1> DEFINE t == Pairs(ks)
<1>1. Len(ks) \in Nat /\ DOMAIN ks = 1 .. Len(ks) /\ \A x \in 1 .. Len(ks) : ks[x] \in Oid
  OBVIOUS
<1>2. << >> \in Oid
  BY DEF Oid
<1>3. t = [x \in 1 .. Len(ks) |-> [oid |-> IF x = 1 THEN << >> ELSE ks[x - 1], noid |-> ks[x]]]
  BY <1>1 DEF Pairs
<1>4. \A x \in 1 .. Len(ks) :
         /\ t[x] \in Entry
         /\ t[x].noid = ks[x]
         /\ t[x].oid = IF x = 1 THEN << >> ELSE ks[x - 1]
  BY <1>1, <1>2, <1>3 DEF Entry
<1>5. t \in [1 .. Len(ks) -> Entry]
  BY <1>3, <1>4
<1> HIDE DEF t
<1>6. t \in Seq(Entry) /\ Len(t) = Len(ks)
  BY <1>1, <1>5
<1>7. ASSUME NEW x \in 1 .. Len(t) PROVE t[x].oid \prec t[x].noid
  <2>1. CASE x = 1
    <3>1. t[x].oid = << >> /\ t[x].noid = ks[x] /\ ks[x] \in Oid /\ ks[x] # << >>
      BY <2>1, <1>1, <1>4, <1>6
    <3> QED BY <3>1, EmptyIsLeast
  <2>2. CASE x > 1
    <3>1. t[x].oid = ks[x - 1] /\ t[x].noid = ks[x] /\ x - 1 \in 1 .. Len(ks) /\ x - 1 < x
      BY <2>2, <1>1, <1>4, <1>6
    <3> QED BY <3>1, <1>6
  <2> QED BY <2>1, <2>2, <1>6, <1>1
<1>8. ASSUME NEW x \in 1 .. Len(t), NEW y \in x + 1 .. Len(t)
      PROVE  t[x].noid \preceq t[y].oid
  <2>1. t[x].noid = ks[x] /\ t[y].oid = ks[y - 1]
    BY <1>1, <1>4, <1>6
  <2>2. x = y - 1 \/ ks[x] \prec ks[y - 1]
    BY <1>1, <1>6
  <2> QED BY <2>1, <2>2 DEF \preceq
<1>9. Disjoint(t)
  BY <1>7, <1>8 DEF Disjoint
<1> QED BY <1>6, <1>9 DEF t

\* In nextfromset the keys are the oids with a value, in order; none is empty.
LEMMA NextFromSetSound ==
    ASSUME NEW c, Sound(c), NEW ks \in Seq(Oid),
           \A x, y \in 1 .. Len(ks) : x < y => ks[x] \prec ks[y],
           \A x \in 1 .. Len(ks) : ks[x] # << >>
    PROVE  Sound(NextFromSet(c, ks)) /\ NextFromSet(c, ks).oids = c.oids
<1> DEFINE end == IF ks = << >> THEN << >> ELSE ks[Len(ks)]
           l   == IF Truthy(c.last) /\ c.last \prec end THEN NoOid ELSE c.last
           d   == [oids |-> c.oids, nexts |-> Pairs(ks), last |-> l]
<1>1. IsCache(c)
  BY DEF Sound
<1>2. DOMAIN c.oids \subseteq Oid /\ c.oids \in [DOMAIN c.oids -> Value]
      /\ c.last \in Oid \cup {NoOid}
  BY <1>1 DEF IsCache
<1>3. Pairs(ks) \in Seq(Entry) /\ Disjoint(Pairs(ks))
  BY PairsDisjoint
<1>4. end \in Oid
  <2>1. << >> \in Oid
    BY DEF Oid
  <2>2. ks # << >> => ks[Len(ks)] \in Oid
    OBVIOUS
  <2> QED BY <2>1, <2>2
<1>5. l \in Oid \cup {NoOid}
  BY <1>2
<1>6. NextFromSet(c, ks) = SetEnd([c EXCEPT !.nexts = Pairs(ks), !.last = l], end)
  BY DEF NextFromSet
<1>7. [c EXCEPT !.nexts = Pairs(ks), !.last = l] = d
  <2> HIDE DEF l
  <2> QED BY <1>1, UpdateBoth, Zenon
<1>8. WithinEnd(d) \/ ~ (l # NoOid /\ l \prec end)
  <2> SUFFICES ASSUME l # NoOid, l \prec end PROVE WithinEnd(d)
    OBVIOUS
  <2>1. l = c.last /\ ~ (Truthy(c.last) /\ c.last \prec end)
    BY Zenon
  <2>2. ~ Truthy(l)
    BY <2>1
  <2> HIDE DEF l
  <2> QED BY <2>2 DEF WithinEnd
<1> HIDE DEF end, l
<1>9. IsCache(d)
  BY <1>2, <1>3, <1>5, Made
<1>a. d.nexts = Pairs(ks) /\ d.last = l /\ d.oids = c.oids
  OBVIOUS
<1> HIDE DEF d
<1>b. Sound(SetEnd(d, end)) /\ SetEnd(d, end).oids = d.oids
  BY <1>3, <1>4, <1>8, <1>9, <1>a, SetEndSound
<1> QED BY <1>6, <1>7, <1>a, <1>b

-----------------------------------------------------------------------------
(* What the queries answer after each method.                                *)

\* bisect finds the entry that covers o, if there is one.
LEMMA CoverIsFound ==
    ASSUME NEW s \in Seq(Entry), Disjoint(s), NEW p \in Oid,
           NEW x \in 1 .. Len(s), s[x].oid \preceq p, p \prec s[x].noid
    PROVE  BisectRight(s, p) = x
<1> DEFINE i == BisectRight(s, p)
<1>1. /\ i \in 0 .. Len(s) /\ Len(s) \in Nat
      /\ i > 0 => s[i].oid \preceq p
      /\ \A y \in i + 1 .. Len(s) : ~ (s[y].oid \preceq p)
  BY BisectRightFinds, EntryType
<1> HIDE DEF i
<1>2. x <= i
  BY <1>1
<1>3. ~ (x < i)
  <2> SUFFICES ASSUME x < i PROVE FALSE
    OBVIOUS
  <2>1. i \in x + 1 .. Len(s) /\ i \in 1 .. Len(s) /\ s[i].oid \preceq p
    BY <1>1
  <2>2. s[x].noid \preceq s[i].oid
    BY <2>1 DEF Disjoint
  <2>3. s[x].noid \in Oid /\ s[i].oid \in Oid
    BY <2>1, EntryType
  <2> QED BY <2>1, <2>2, <2>3, PrecTransitive, PrecIrreflexive DEF \preceq
<1>4. i = x
  BY <1>1, <1>2, <1>3
<1> QED BY <1>4 DEF i

LEMMA SetNextLearns ==
    ASSUME NEW c, Sound(c), NEW o \in Oid, NEW n \in Oid, o \prec n,
           NEW p \in Oid, o \preceq p, p \prec n
    PROVE  GetNext(SetNext(c, o, n), p).oid = n
<1> DEFINE s == c.nexts
           t == NextsWith(s, o, n)
           k == LeftStop(s, o, n)
           j == BisectLeft(s, n)
           f == Fresh(s, o, n)
           d == SetNext(c, o, n)
           l == d.last
<1>1. IsCache(c) /\ s \in Seq(Entry) /\ Disjoint(s)
  BY DEF Sound, IsCache
<1>2. Disjoint(t) /\ t \in Seq(Entry)
  BY <1>1, NextsWithDisjoint, NextsWithEntries
<1>3. d = [oids |-> c.oids, nexts |-> t,
           last |-> IF Truthy(c.last) /\ c.last \prec n THEN NoOid ELSE c.last]
  BY <1>1, UpdateBoth, Zenon DEF SetNext
<1>4. d.nexts = t /\ l = (IF Truthy(c.last) /\ c.last \prec n THEN NoOid ELSE c.last)
  BY <1>3
<1>5. ~ (Truthy(l) /\ l \preceq p)
  <2> SUFFICES ASSUME Truthy(l), l \preceq p PROVE FALSE
    OBVIOUS
  <2>1. l = c.last /\ ~ (l \prec n)
    BY <1>4, Zenon DEF Truthy
  <2>2. l \in Oid
    BY <1>1, <2>1 DEF Truthy, IsCache
  <2> HIDE DEF l
  <2> QED BY <2>1, <2>2, PrecTransitive DEF \preceq
<1>6. \E x \in 1 .. Len(t) : t[x].oid \preceq o /\ t[x].noid = n
  <2>0. Shape(t, s, o, n, k, j, f)
    BY <1>1, NextsWithShape
  <2>1. CASE f = 0
    <3>1. k > 0 /\ s[k].noid = n
      BY <2>1 DEF Fresh
    <3>2. k \in 1 .. BisectLeft(s, o) /\ BisectLeft(s, o) \in 0 .. Len(s)
          /\ BisectLeft(s, o) \in 1 .. Len(s) /\ k \in 1 .. Len(s) /\ Len(s) \in Nat
      BY <1>1, <3>1, LeftStopFinds, BisectLeftFinds, EntryType
    <3>3. s[BisectLeft(s, o)].oid \prec o
      BY <1>1, <3>2, BisectLeftFinds
    <3> DEFINE b == BisectLeft(s, o)
    <3>4. s[k].oid \prec o
      <4> HIDE DEF k, b
      <4>1. CASE k = b
        BY <4>1, <3>3 DEF b
      <4>2. CASE k < b
        <5>0. b \in k + 1 .. Len(s)
          BY <3>2, <4>2 DEF b
        <5>1. s[k].noid \preceq s[b].oid /\ s[k].oid \prec s[k].noid
          BY <5>0, <3>2, <1>1 DEF Disjoint
        <5>2. s[k].noid \in Oid /\ s[b].oid \in Oid /\ s[k].oid \in Oid
          BY <3>2, <1>1, EntryType DEF b
        <5> QED BY <5>1, <5>2, <3>3, PrecTransitive DEF b, \preceq
      <4> QED BY <4>1, <4>2, <3>2 DEF b
    <3> HIDE DEF t, k, j, f, s
    <3>5. t[k] = s[k] /\ k \in 1 .. Len(t)
      BY <2>0, <2>1, <3>1, <3>2 DEF Shape
    <3> QED BY <3>1, <3>4, <3>5 DEF \preceq
  <2>2. CASE f = 1
    <3> HIDE DEF t, k, j, f, s
    <3>1. t[k + 1] = [oid |-> o, noid |-> n] /\ k + 1 \in 1 .. Len(t)
      BY <2>0, <2>2, <1>1, EntryType DEF Shape
    <3> QED BY <3>1 DEF \preceq
  <2> QED BY <2>1, <2>2 DEF Fresh
<1>7. PICK x \in 1 .. Len(t) : t[x].oid \preceq o /\ t[x].noid = n
  BY <1>6
<1> HIDE DEF t, l, d, s
<1>8. t[x].oid \in Oid
  BY <1>2, EntryType
<1>9. t[x].oid \preceq p
  BY <1>7, <1>8, PrecTransitive DEF \preceq
<1>a. BisectRight(t, p) = x
  BY <1>2, <1>7, <1>9, CoverIsFound
<1>b. NextPointer(d, p) = x
  BY <1>4, <1>5, <1>7, <1>a DEF NextPointer, l
<1>c. GetNext(d, p).oid = d.nexts[x].noid
  BY <1>b DEF GetNext
<1> QED BY <1>c, <1>4, <1>7 DEF d

LEMMA SetNextKeeps ==
    ASSUME NEW s \in Seq(Entry), Disjoint(s), NEW o \in Oid, NEW n \in Oid, o \prec n,
           NEW y \in 1 .. Len(s),
           \/ s[y].noid \preceq o
           \/ n \preceq s[y].oid
           \/ s[y].oid \preceq o /\ s[y].noid = n
    PROVE  \E x \in 1 .. Len(NextsWith(s, o, n)) : NextsWith(s, o, n)[x] = s[y]
<1> DEFINE k == LeftStop(s, o, n)
           j == BisectLeft(s, n)
           f == Fresh(s, o, n)
           b == BisectLeft(s, o)
           t == NextsWith(s, o, n)
<1>0. Shape(t, s, o, n, k, j, f)
  BY NextsWithShape
<1>1. /\ s[y] \in Entry /\ s[y].oid \in Oid /\ s[y].noid \in Oid /\ Len(s) \in Nat
      /\ s[y].oid \prec s[y].noid
  BY EntryType DEF Disjoint
<1>2. /\ b \in 0 .. Len(s) /\ k \in 0 .. b
      /\ \A x \in b + 1 .. Len(s) : ~ (s[x].oid \prec o)
      /\ \A x \in k + 1 .. b : o \prec s[x].noid /\ s[x].noid # n
  BY BisectLeftFinds, LeftStopFinds
<1>3. /\ j \in 0 .. Len(s) /\ (j > 0 => s[j].oid \prec n)
  BY BisectLeftFinds
<1>4. f = 0 => k > 0 /\ s[k].noid = n
  BY DEF Fresh
<1> HIDE DEF k, j, f, b, t
<1>k. ASSUME y <= k PROVE \E x \in 1 .. Len(t) : t[x] = s[y]
  <2>1. y \in 1 .. k /\ y \in 1 .. Len(t)
    BY <1>0, <1>1, <1>k DEF Shape
  <2>2. t[y] = s[y]
    BY <1>0, <2>1 DEF Shape
  <2> QED BY <2>1, <2>2
<1>5. CASE s[y].noid \preceq o
  <2>1. s[y].oid \prec o /\ ~ (o \prec s[y].noid)
    BY <1>5, <1>1, PrecTransitive, PrecIrreflexive DEF \preceq
  <2>2. y <= k
    BY <2>1, <1>2, <1>1
  <2> QED BY <2>2, <1>k DEF t
<1>6. CASE n \preceq s[y].oid
  <2>1. j < y
    <3> SUFFICES ASSUME y <= j PROVE FALSE
      BY <1>1, <1>3
    <3>1. j \in 1 .. Len(s) /\ s[j].oid \prec n /\ s[j].oid \in Oid
      BY <1>1, <1>3, EntryType
    <3>2. y = j \/ s[y].noid \preceq s[j].oid
      BY <3>1, <1>1, <1>3 DEF Disjoint
    <3> QED BY <3>1, <3>2, <1>1, <1>6, PrecTransitive, PrecIrreflexive DEF \preceq
  <2> DEFINE x == y - j + k + f
  <2>2. x \in k + f + 1 .. Len(t) /\ x - k - f + j = y /\ x \in 1 .. Len(t)
    BY <2>1, <1>0, <1>1 DEF Shape
  <2> HIDE DEF x
  <2>3. t[x] = s[y]
    BY <2>2, <1>0 DEF Shape
  <2> QED BY <2>2, <2>3 DEF t
<1>7. CASE s[y].oid \preceq o /\ s[y].noid = n
  <2>1. CASE s[y].oid \prec o
    <3>1. y <= k
      BY <2>1, <1>7, <1>1, <1>2
    <3> QED BY <3>1, <1>k DEF t
  <2>2. CASE s[y].oid = o
    <3>1. s[y] = [oid |-> o, noid |-> n]
      BY <1>1, <1>7, <2>2 DEF Entry
    <3>2. CASE f = 0
      <4>1. k \in 1 .. Len(s) /\ s[k].noid = n
        BY <3>2, <1>4, <1>2, <1>1
      <4>2. ~ (k < y)
        <5> SUFFICES ASSUME k < y PROVE FALSE
          OBVIOUS
        <5>1. y \in k + 1 .. Len(s)
          BY <4>1, <1>1
        <5>2. n \preceq o
          BY <5>1, <4>1, <2>2 DEF Disjoint
        <5> QED BY <5>2, PrecTransitive, PrecIrreflexive DEF \preceq
      <4>3. y <= k
        BY <4>1, <4>2, <1>1
      <4> QED BY <4>3, <1>k DEF t
    <3>3. CASE f = 1
      <4>1. t[k + 1] = [oid |-> o, noid |-> n] /\ k + 1 \in 1 .. Len(t)
        BY <3>3, <1>0, <1>1 DEF Shape
      <4> QED BY <3>1, <4>1 DEF t
    <3> QED BY <3>2, <3>3, <1>0 DEF Shape
  <2> QED BY <2>1, <2>2, <1>7 DEF \preceq
<1> QED BY <1>5, <1>6, <1>7

LEMMA SetEndAnswers ==
    ASSUME NEW c, IsCache(c), c.last # << >>, NEW o \in Oid, o # << >>,
           NEW p \in Oid, o \preceq p
    PROVE  GetNext(SetEnd(c, o), p).val = EndOfMibView
<1> DEFINE d == SetEnd(c, o)
<1>1. Truthy(d.last) /\ d.last \in Oid /\ d.last \preceq o
  <2>1. CASE c.last # NoOid /\ c.last \prec o
    <3>1. d = c
      BY <2>1 DEF SetEnd
    <3> QED BY <3>1, <2>1 DEF Truthy, IsCache, \preceq
  <2>2. CASE ~ (c.last # NoOid /\ c.last \prec o)
    <3>1. d = [oids |-> c.oids, nexts |-> NextsUpTo(c.nexts, o), last |-> o]
      BY <2>2, UpdateBoth, Zenon DEF SetEnd
    <3>2. d.last = o
      BY <3>1
    <3> QED BY <3>2, SentinelAssumption DEF Truthy, \preceq
  <2> QED BY <2>1, <2>2
<1> HIDE DEF d
<1>2. d.last \preceq p
  BY <1>1, PrecTransitive DEF \preceq
<1>3. NextPointer(d, p) = -1
  BY <1>1, <1>2 DEF NextPointer
<1>4. GetNext(d, p).val = EndOfMibView
  BY <1>3 DEF GetNext
<1> QED BY <1>4 DEF d

LEMMA InvalidateForgets ==
    ASSUME NEW c, Sound(c), NEW o \in Oid
    PROVE  /\ Get(Invalidate(c, o), o) = NotCached
           /\ GetNext(Invalidate(c, o), o).val = NotCached
<1> DEFINE s == c.nexts
           i == NextPointer(c, o)
           d == Invalidate(c, o)
           b == BisectRight(s, o)
<1>1. IsCache(c) /\ s \in Seq(Entry) /\ Disjoint(s) /\ WithinEnd(c) /\ Len(s) \in Nat
  BY EntryType DEF Sound, IsCache
<1>2. Sound(d) /\ o \notin DOMAIN d.oids
  BY InvalidateSound
<1>3. d.nexts \in Seq(Entry) /\ Len(d.nexts) \in Nat
  BY <1>2, EntryType DEF Sound, IsCache
<1>4. i \in -1 .. Len(s)
  BY <1>1, NextPointerFinds
<1>5. /\ i = -1 => d.nexts = s /\ d.last = NoOid
      /\ i = 0 => d.nexts = s /\ d.last = c.last
      /\ i > 0 => d.nexts = RemoveAt(s, i) /\ d.last = c.last
  <2> DEFINE a == [p \in DOMAIN c.oids \ {o} |-> c.oids[p]]
             e == [oids |-> a, nexts |-> s, last |-> c.last]
  <2>0. [c EXCEPT !.oids = a] = e
    BY <1>1, UpdateOids
  <2>1. d = IF i = -1 THEN [e EXCEPT !.last = NoOid]
            ELSE IF i = 0 THEN e ELSE [e EXCEPT !.nexts = RemoveAt(e.nexts, i)]
    BY <2>0, Zenon DEF Invalidate
  <2> HIDE DEF a, d, i, s
  <2>2. CASE i = -1
    BY <2>1, <2>2
  <2>3. CASE i = 0
    BY <2>1, <2>3
  <2>4. CASE i > 0
    <3>1. d = [e EXCEPT !.nexts = RemoveAt(e.nexts, i)]
      BY <2>1, <2>4, <1>4
    <3>2. e.nexts = s /\ e.last = c.last
      OBVIOUS
    <3> QED BY <3>1, <3>2, <2>4
  <2> QED BY <2>2, <2>3, <2>4, <1>4, <1>1
<1>6. /\ i = -1 => Truthy(c.last) /\ c.last \preceq o
      /\ i # -1 => ~ (Truthy(c.last) /\ c.last \preceq o)
      /\ i = 0 => ~ (b > 0 /\ o \prec s[b].noid)
      /\ i > 0 => i = b
  <2>1. i = IF Truthy(c.last) /\ c.last \preceq o THEN -1
            ELSE IF b > 0 /\ o \prec s[b].noid THEN b ELSE 0
    BY DEF NextPointer
  <2>2. b \in 0 .. Len(s)
    BY <1>1, BisectRightFinds
  <2> HIDE DEF i, b, s
  <2> QED BY <2>1, <2>2, <1>1
<1>7. ASSUME NEW y \in 1 .. Len(s), s[y].oid \preceq o, o \prec s[y].noid
      PROVE  i = y
  <2>1. b = y
    BY <1>7, <1>1, CoverIsFound
  <2>2. i # -1
    <3> SUFFICES ASSUME i = -1 PROVE FALSE
      OBVIOUS
    <3>1. s[y].noid \preceq c.last /\ c.last \preceq o /\ c.last \in Oid
      BY <1>1, <1>6 DEF WithinEnd, IsCache, Truthy
    <3>2. s[y].noid \in Oid
      BY <1>1, EntryType
    <3> QED BY <3>1, <3>2, <1>7, PrecTransitive, PrecIrreflexive DEF \preceq
  <2>3. i # 0
    BY <2>1, <1>6, <1>7
  <2> QED BY <2>1, <2>2, <2>3, <1>4, <1>6
<1>8. ASSUME NEW x \in 1 .. Len(d.nexts), d.nexts[x].oid \preceq o
      PROVE  ~ (o \prec d.nexts[x].noid)
  <2>1. CASE i = -1 \/ i = 0
    <3>1. x \in 1 .. Len(s) /\ d.nexts[x] = s[x]
      BY <2>1, <1>5
    <3> QED BY <3>1, <2>1, <1>7, <1>8
  <2>2. CASE i > 0
    <3>1. PICK y \in 1 .. Len(s) : y # i /\ d.nexts[x] = s[y]
      <4>1. i \in 1 .. Len(s) /\ d.nexts = RemoveAt(s, i)
        BY <2>2, <1>1, <1>4, <1>5
      <4> HIDE DEF d, i, s
      <4>2. \A z \in 1 .. Len(RemoveAt(s, i)) :
               \E y \in 1 .. Len(s) : y # i /\ RemoveAt(s, i)[z] = s[y]
        BY <4>1, <1>1, RemoveAtThinned
      <4> QED BY <4>1, <4>2
    <3> QED BY <3>1, <1>7, <1>8
  <2> QED BY <2>1, <2>2, <1>4, <1>1
<1>9. ~ (Truthy(d.last) /\ d.last \preceq o)
  BY <1>4, <1>5, <1>6, <1>1 DEF Truthy
<1> HIDE DEF d, i, b, s
<1>a. Get(d, o) = NotCached
  <2> DEFINE k == BisectLeft(d.nexts, o)
  <2>1. k \in 0 .. Len(d.nexts) /\ (k > 0 => d.nexts[k].oid \prec o)
    BY <1>3, BisectLeftFinds
  <2>2. ~ (k > 0 /\ o \prec d.nexts[k].noid)
    <3> HIDE DEF k
    <3> QED BY <2>1, <1>3, <1>8 DEF \preceq
  <2> QED BY <2>2, <1>2 DEF Get
<1>b. NextPointer(d, o) = 0
  <2> DEFINE k == BisectRight(d.nexts, o)
  <2>1. k \in 0 .. Len(d.nexts) /\ (k > 0 => d.nexts[k].oid \preceq o)
    BY <1>3, BisectRightFinds
  <2>2. ~ (k > 0 /\ o \prec d.nexts[k].noid)
    <3> HIDE DEF k
    <3> QED BY <2>1, <1>3, <1>8
  <2> QED BY <2>2, <1>9 DEF NextPointer
<1>c. GetNext(d, o).val = NotCached
  BY <1>b DEF GetNext
<1> QED BY <1>a, <1>c DEF d

\* An oid some entry leads to lies inside no entry.
LEMMA EndsAreOutside ==
    ASSUME NEW c, Sound(c), NEW x \in 1 .. Len(c.nexts)
    PROVE  Get(c, c.nexts[x].noid) # NoSuchObject
<1> DEFINE s == c.nexts
           o == s[x].noid
           i == BisectLeft(s, o)
<1>1. s \in Seq(Entry) /\ Disjoint(s) /\ c.oids \in [DOMAIN c.oids -> Value]
  BY DEF Sound, IsCache
<1>2. o \in Oid /\ s[x].oid \in Oid /\ Len(s) \in Nat
  BY <1>1, EntryType
<1>3. i \in 0 .. Len(s) /\ (i > 0 => s[i].oid \prec o)
  BY <1>1, <1>2, BisectLeftFinds
<1>4. ~ (i > 0 /\ o \prec s[i].noid)
  <2> SUFFICES ASSUME i > 0, o \prec s[i].noid PROVE FALSE
    OBVIOUS
  <2> HIDE DEF i
  <2>1. i \in 1 .. Len(s) /\ s[i].oid \in Oid /\ s[i].noid \in Oid
    BY <1>1, <1>2, <1>3, EntryType
  <2>2. CASE i = x
    BY <2>2, <1>2, PrecIrreflexive
  <2>3. CASE i < x
    <3>1. s[i].noid \preceq s[x].oid /\ s[x].oid \prec o
      BY <2>1, <2>3, <1>1 DEF Disjoint
    <3> QED BY <3>1, <2>1, <1>2, PrecTransitive, PrecIrreflexive DEF \preceq
  <2>4. CASE x < i
    <3>1. o \preceq s[i].oid
      BY <2>1, <2>4, <1>1 DEF Disjoint
    <3> QED BY <3>1, <2>1, <1>2, <1>3, PrecTransitive, PrecIrreflexive DEF \preceq
  <2> QED BY <2>1, <2>2, <2>3, <2>4
<1>5. o \in DOMAIN c.oids => c.oids[o] # NoSuchObject
  BY <1>1, SentinelAssumption
<1> HIDE DEF i, o, s
<1>6. Get(c, o) = IF o \in DOMAIN c.oids THEN c.oids[o] ELSE NotCached
  BY <1>4, Zenon DEF Get, i, s
<1> QED BY <1>5, <1>6, SentinelAssumption DEF o, s
=============================================================================
