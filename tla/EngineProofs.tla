----------------------------- MODULE EngineProofs ----------------------------
(* The engines, for any agent, any oids, any look-ahead and any size of bulk *)
(* queries: what they put into the cache is true of the agent, every future  *)
(* is completed once, and what clients see is a QueryService.                *)
EXTENDS Engine, AgentProofs

-----------------------------------------------------------------------------
(* Rows: what pysnmp makes of a bulk answer, joined again by the engine.     *)

\* What division by a number of columns rounds down to.
LEMMA DivBounds ==
    ASSUME NEW x \in Nat, NEW r \in Nat \ {0}
    PROVE  x \div r \in Nat /\ (x \div r) * r <= x /\ x < (x \div r) * r + r
OBVIOUS

\* Products with a number of columns, as far as the proofs below need them.
LEMMA Product ==
    ASSUME NEW i \in Nat, NEW k \in Nat, NEW r \in Nat, i <= k
    PROVE  i * r <= k * r /\ i * r \in Nat /\ (i + 1) * r = i * r + r
OBVIOUS

\* m bindings make m divided by r rows, rounded up.
LEMMA RowCount ==
    ASSUME NEW m \in Nat \ {0}, NEW r \in Nat \ {0}
    PROVE  LET k == (m + r - 1) \div r
           IN  /\ k \in Nat \ {0}
               /\ m <= k * r
               /\ \A i \in 1 .. k - 1 : i * r < m
<1> DEFINE k == (m + r - 1) \div r
<1>1. k \in Nat /\ k * r <= m + r - 1 /\ m + r - 1 < k * r + r
  BY DivBounds
<1> HIDE DEF k
<1>2. m <= k * r
  BY <1>1, Product
<1>3. k # 0
  BY <1>1
<1>4. ASSUME NEW i \in 1 .. k - 1 PROVE i * r < m
  <2>1. i * r <= (k - 1) * r /\ (k - 1 + 1) * r = (k - 1) * r + r
    BY <1>1, Product
  <2>2. i * r \in Nat /\ (k - 1) * r \in Nat /\ k * r \in Nat
    BY <1>1, Product
  <2>3. k - 1 + 1 = k
    BY <1>1
  <2>4. (k - 1) * r + r = k * r
    BY <2>1, <2>3
  <2> QED BY <1>1, <2>1, <2>2, <2>4
<1> QED BY <1>1, <1>2, <1>3, <1>4 DEF k

\* F[i] is the concatenation of the first i of k parts.
Accumulates(F, parts, k) ==
    /\ Len(parts) = k /\ DOMAIN F = 1 .. k /\ F[1] = parts[1]
    /\ \A i \in 2 .. k : F[i] = F[i - 1] \o parts[i]

\* FlattenSeq(parts) is what the parts accumulate to.
LEMMA FlattenIs ==
    ASSUME NEW k \in Nat \ {0}, NEW parts, NEW T, NEW F \in [1 .. k -> T],
           Accumulates(F, parts, k)
    PROVE  FlattenSeq(parts) = F[k]
<1>0. /\ Len(parts) = k /\ F = [i \in 1 .. k |-> F[i]] /\ F[1] = parts[1]
      /\ \A i \in 2 .. k : F[i] = F[i - 1] \o parts[i]
  BY DEF Accumulates
<1> DEFINE G(f) == [i \in 1 .. k |-> IF i = 1 THEN parts[i] ELSE f[i - 1] \o parts[i]]
           g == CHOOSE f : f = G(f)
<1>1. F = G(F)
  <2>1. \A i \in 1 .. k : F[i] = IF i = 1 THEN parts[i] ELSE F[i - 1] \o parts[i]
    <3> SUFFICES ASSUME NEW i \in 1 .. k
                 PROVE  F[i] = IF i = 1 THEN parts[i] ELSE F[i - 1] \o parts[i]
      OBVIOUS
    <3>1. CASE i = 1
      BY <1>0, <3>1
    <3>2. CASE i # 1
      <4>1. i \in 2 .. k
        BY <3>2
      <4> QED BY <1>0, <3>2, <4>1, Zenon
    <3> QED BY <3>1, <3>2
  <2> QED BY <1>0, <2>1
<1>2. g = G(g)
  <2> HIDE DEF G
  <2> QED BY <1>1
<1>3. \A i \in 1 .. k : g[i] = IF i = 1 THEN parts[i] ELSE g[i - 1] \o parts[i]
  <2> HIDE DEF g
  <2>1. \A i \in 1 .. k : G(g)[i] = IF i = 1 THEN parts[i] ELSE g[i - 1] \o parts[i]
    OBVIOUS
  <2> HIDE DEF G
  <2> QED BY <1>2, <2>1
<1>4. \A i \in 1 .. k : g[i] = F[i]
  <2> HIDE DEF g
  <2> DEFINE bad == {i \in 1 .. k : g[i] # F[i]}
  <2> SUFFICES ASSUME bad # {} PROVE FALSE
    OBVIOUS
  <2>1. bad \in SUBSET Nat
    OBVIOUS
  <2>2. PICK m \in bad : \A i \in bad : m <= i
    BY <2>1, LeastNat
  <2>3. m # 1
    BY <1>0, <1>3
  <2>4. m - 1 \in 1 .. k /\ m - 1 \notin bad
    BY <2>2, <2>3
  <2>5. g[m] = g[m - 1] \o parts[m] /\ F[m] = F[m - 1] \o parts[m]
    <3>1. m \in 1 .. k /\ m \in 2 .. k
      BY <2>3
    <3> QED BY <1>0, <1>3, <2>3, <3>1, Zenon
  <2> QED BY <2>4, <2>5
<1>5. FlattenSeq(parts) = g[k]
  BY <1>0, Zenon DEF FlattenSeq
<1> HIDE DEF g
<1> QED BY <1>4, <1>5

LEMMA DropHead ==
    ASSUME NEW S, NEW A \in Seq(S), NEW B \in Seq(S)
    PROVE  /\ A \o B \in Seq(S) /\ Len(A \o B) = Len(A) + Len(B)
           /\ SubSeq(A \o B, Len(A) + 1, Len(A \o B)) = B
<1> DEFINE C == A \o B
           D == SubSeq(C, Len(A) + 1, Len(C))
<1>1. /\ C \in Seq(S) /\ Len(C) = Len(A) + Len(B)
      /\ \A x \in 1 .. Len(A) + Len(B) : C[x] = IF x <= Len(A) THEN A[x] ELSE B[x - Len(A)]
  BY ConcatProperties
<1>2. Len(A) \in Nat /\ Len(B) \in Nat
  OBVIOUS
<1> HIDE DEF C
<1>3. /\ D \in Seq(S) /\ Len(D) = Len(B)
      /\ \A x \in 1 .. Len(B) : D[x] = C[Len(A) + 1 + x - 1]
  BY <1>1, <1>2, SubSeqProperties
<1>4. ASSUME NEW x \in 1 .. Len(B) PROVE D[x] = B[x]
  <2>1. /\ Len(A) + 1 + x - 1 \in 1 .. Len(A) + Len(B) /\ ~ (Len(A) + 1 + x - 1 <= Len(A))
        /\ Len(A) + 1 + x - 1 - Len(A) = x
    BY <1>2
  <2> HIDE DEF D
  <2>2. C[Len(A) + 1 + x - 1] = B[x]
    BY <1>1, <2>1
  <2> QED BY <1>3, <2>2
<1> HIDE DEF D
<1>5. D = B
  BY <1>3, <1>4, SeqEqual
<1> QED BY <1>1, <1>5 DEF C, D

LEMMA FlattenOne ==
    ASSUME NEW b
    PROVE  FlattenSeq(<< b >>) = b
<1> DEFINE F == [i \in 1 .. 1 |-> b]
<1>1. F \in [1 .. 1 -> {b}] /\ F[1] = b
  OBVIOUS
<1>2. Accumulates(F, << b >>, 1)
  BY DEF Accumulates
<1>3. 1 \in Nat \ {0}
  OBVIOUS
<1> HIDE DEF F
<1>4. FlattenSeq(<< b >>) = F[1]
  BY <1>1, <1>2, <1>3, FlattenIs
<1> QED BY <1>1, <1>4

\* When only the last row may be short, all rows are joined.
Beyond(rows, n) == [i \in 1 .. Len(rows) |->
                      IF i = 1 THEN rows[1] ELSE SubSeq(rows[i], n + 1, Len(rows[i]))]

LEMMA JoinedTakes ==
    ASSUME NEW S, NEW rows \in Seq(Seq(S)), rows # << >>, NEW n \in Nat, NEW r \in Nat,
           \A i \in 1 .. Len(rows) - 1 : Len(rows[i]) = n + r
    PROVE  Joined(rows, n, r) = FlattenSeq(Beyond(rows, n))
<1> DEFINE k     == Len(rows)
           I     == {i \in 1 .. k : Len(rows[i]) < n + r}
           short == IF I # {} THEN Min(I) ELSE 0
           taken == IF short = 0 THEN k ELSE short
<1>1. Joined(rows, n, r)
        = FlattenSeq([i \in 1 .. taken |->
              IF i = 1 THEN rows[1] ELSE SubSeq(rows[i], n + 1, Len(rows[i]))])
  BY DEF Joined, SelectInSeq
<1>2. k \in Nat \ {0}
  OBVIOUS
<1>3. I \subseteq {k}
  <2> SUFFICES ASSUME NEW i \in 1 .. k, Len(rows[i]) < n + r PROVE i = k
    OBVIOUS
  <2>1. n + r \in Nat /\ ~ (n + r < n + r)
    OBVIOUS
  <2>2. i \notin 1 .. k - 1
    BY <2>1
  <2> HIDE DEF k
  <2> QED BY <1>2, <2>2
<1> HIDE DEF k, I
<1>4. CASE I = {}
  <2>1. taken = k
    BY <1>4
  <2> QED BY <1>1, <2>1 DEF Beyond, k
<1>5. CASE I # {}
  <2>1. I = {k}
    BY <1>3, <1>5
  <2>2. Min({k}) = k
    BY <1>2 DEF Min
  <2>3. short = k
    BY <2>1, <2>2
  <2>4. taken = k
    BY <2>3
  <2> QED BY <1>1, <2>4 DEF Beyond, k
<1> QED BY <1>4, <1>5

\* The rows of an answer, joined, are the answer again.
LEMMA JoinedRows ==
    ASSUME NEW S, NEW b \in Seq(S), NEW n \in Nat, NEW r \in Nat
    PROVE  Joined(Rows(b, n, r), n, r) = b
<1> DEFINE rows == Rows(b, n, r)
           L == Len(b)
<1>t. L \in Nat
  OBVIOUS
<1>1. CASE r = 0 \/ L <= n
  <2>1. rows = << b >>
    BY <1>1 DEF Rows
  <2>2. << b >> \in Seq(Seq(S)) /\ << b >> # << >> /\ \A i \in 1 .. Len(<< b >>) - 1 : FALSE
    OBVIOUS
  <2>3. Joined(<< b >>, n, r) = FlattenSeq(Beyond(<< b >>, n))
    BY <2>2, JoinedTakes
  <2>4. Beyond(<< b >>, n) = << b >>
    BY DEF Beyond
  <2> QED BY <2>1, <2>3, <2>4, FlattenOne
<1>2. CASE r # 0 /\ L > n
  <2> DEFINE m      == (L - n + r - 1) \div r
             to(i)  == Least(n + i * r, L)
             row(i) == SubSeq(b, 1, n) \o SubSeq(b, n + (i - 1) * r + 1, to(i))
             F      == [i \in 1 .. m |-> SubSeq(b, 1, to(i))]
             parts  == Beyond(rows, n)
  <2>1. rows = [i \in 1 .. m |-> row(i)]
    <3>1. ~ (r = 0 \/ L <= n)
      BY <1>2, <1>t
    <3> QED BY <3>1, Zenon DEF Rows
  <2>2. m \in Nat \ {0} /\ L - n <= m * r /\ \A i \in 1 .. m - 1 : i * r < L - n
    <3>1. L - n \in Nat \ {0} /\ r \in Nat \ {0}
      BY <1>2, <1>t
    <3> QED BY <3>1, RowCount
  <2> HIDE DEF m
  <2>3. ASSUME NEW i \in 1 .. m
        PROVE  /\ to(i) \in n + (i - 1) * r .. L
               /\ i < m => to(i) = n + i * r
               /\ i = m => to(i) = L
               /\ n + (i - 1) * r \in n .. L /\ (i - 1) * r \in Nat
               /\ i > 1 => to(i - 1) = n + (i - 1) * r
    <3>1. i * r \in Nat /\ (i - 1) * r \in Nat /\ i * r = (i - 1) * r + r
      BY <2>2, Product, (i - 1) + 1 = i
    <3>2. i < m => i * r < L - n
      BY <2>2
    <3>3. i > 1 => (i - 1) * r < L - n
      <4> SUFFICES ASSUME i > 1 PROVE (i - 1) * r < L - n
        OBVIOUS
      <4>1. i - 1 \in 1 .. m - 1
        BY <2>2
      <4> QED BY <4>1, <2>2
    <3>4. i = 1 => (i - 1) * r = 0
      OBVIOUS
    <3> QED BY <3>1, <3>2, <3>3, <3>4, <2>2, <1>2, <1>t DEF Least
  <2>4. ASSUME NEW i \in 1 .. m
        PROVE  /\ row(i) \in Seq(S)
               /\ Len(row(i)) = to(i) - (i - 1) * r
               /\ SubSeq(row(i), n + 1, Len(row(i))) = SubSeq(b, n + (i - 1) * r + 1, to(i))
               /\ i = 1 => row(i) = SubSeq(b, 1, to(i))
    <3> DEFINE from == n + (i - 1) * r
               to_i == to(i)
               A    == SubSeq(b, 1, n)
               B    == SubSeq(b, from + 1, to_i)
    <3>1. /\ from \in n .. L /\ to_i \in from .. L
          /\ from = n + (i - 1) * r /\ from \in Int /\ to_i \in Int
          /\ (i - 1) * r \in Nat /\ (i = 1 => from = n)
      <4>1. i = 1 => (i - 1) * r = 0
        OBVIOUS
      <4> HIDE DEF to
      <4> QED BY <2>3, <4>1, <1>t
    <3>2. row(i) = A \o B
      OBVIOUS
    <3> HIDE DEF from, to_i, to, row
    <3>3. A \in Seq(S) /\ Len(A) = n
      BY <1>2, <1>t, SubSeqProperties
    <3>4. B \in Seq(S) /\ Len(B) = to_i - from
      BY <3>1, <1>t, SubSeqProperties
    <3>5. /\ A \o B \in Seq(S) /\ Len(A \o B) = n + (to_i - from)
          /\ SubSeq(A \o B, n + 1, Len(A \o B)) = B
      <4> HIDE DEF A, B
      <4> QED BY <3>3, <3>4, DropHead
    <3>7. i = 1 => A \o B = SubSeq(b, 1, to_i)
      <4> SUFFICES ASSUME i = 1 PROVE A \o B = SubSeq(b, 1, to_i)
        OBVIOUS
      <4>1. from = n /\ 1 \in 1 .. L + 1 /\ n \in 0 .. L /\ to_i \in n .. L
        BY <3>1, <1>2, <1>t
      <4> QED BY <4>1, ConcatAdjacentSubSeq
    <3> HIDE DEF A, B
    <3>8. Len(A \o B) = to_i - (i - 1) * r
      <4> DEFINE l == Len(A \o B)
                 p == (i - 1) * r
      <4>1. l = n + (to_i - from) /\ from = n + p /\ p \in Nat
        BY <3>1, <3>5
      <4> HIDE DEF l, p
      <4>2. l = to_i - p
        BY <4>1, <3>1
      <4> QED BY <4>2 DEF l, p
    <3> QED BY <3>2, <3>5, <3>7, <3>8 DEF to_i, B, from
  <2>5. rows \in Seq(Seq(S)) /\ Len(rows) = m /\ rows # << >> /\ \A i \in 1 .. m : rows[i] = row(i)
    <3>2. \A i \in 1 .. m : row(i) \in Seq(S)
      BY <2>4
    <3> HIDE DEF rows, row
    <3>1. DOMAIN rows = 1 .. m /\ Len(rows) = m /\ \A i \in 1 .. m : rows[i] = row(i)
      BY <2>1, <2>2
    <3>3. rows \in [1 .. m -> Seq(S)] /\ m >= 1
      BY <2>1, <2>2, <3>1, <3>2
    <3> QED BY <3>1, <3>3
  <2>6. \A i \in 1 .. m - 1 : Len(rows[i]) = n + r
    <3> SUFFICES ASSUME NEW i \in 1 .. m - 1 PROVE Len(rows[i]) = n + r
      OBVIOUS
    <3>1. i \in 1 .. m /\ i < m
      BY <2>2
    <3>2. to(i) = n + i * r /\ (i - 1) * r \in Nat
      BY <3>1, <2>3
    <3>3. Len(rows[i]) = to(i) - (i - 1) * r
      BY <3>1, <2>4, <2>5
    <3>4. i * r = (i - 1) * r + r /\ i * r \in Nat
      BY Product, (i - 1) + 1 = i
    <3> HIDE DEF rows, to
    <3> QED BY <3>2, <3>3, <3>4
  <2>7. Joined(rows, n, r) = FlattenSeq(parts)
    <3> HIDE DEF rows, row, to
    <3> QED BY <2>5, <2>6, JoinedTakes
  <2>8. /\ Len(parts) = m
        /\ \A i \in 1 .. m : parts[i] = IF i = 1 THEN SubSeq(b, 1, to(i))
                                       ELSE SubSeq(b, n + (i - 1) * r + 1, to(i))
    <3> HIDE DEF row, to, rows
    <3>1. /\ Len(parts) = m
          /\ \A i \in 1 .. m : parts[i] = IF i = 1 THEN rows[1]
                                          ELSE SubSeq(rows[i], n + 1, Len(rows[i]))
      BY <2>5, <2>2 DEF Beyond
    <3> HIDE DEF parts
    <3> QED BY <2>2, <2>4, <2>5, <3>1
  <2>9. F \in [1 .. m -> Seq(S)] /\ F[m] = b
    <3>1. \A i \in 1 .. m : to(i) \in 0 .. L
      <4> SUFFICES ASSUME NEW i \in 1 .. m PROVE to(i) \in 0 .. L
        OBVIOUS
      <4>1. to(i) \in n + (i - 1) * r .. L /\ n + (i - 1) * r \in n .. L
        BY <2>3
      <4> HIDE DEF to
      <4> QED BY <4>1
    <3>2. to(m) = L
      BY <2>2, <2>3
    <3> HIDE DEF to
    <3>3. \A i \in 1 .. m : SubSeq(b, 1, to(i)) \in Seq(S)
      BY <3>1, <1>t, SubSeqProperties
    <3>4. SubSeq(b, 1, L) = b
      BY SubSeqFull
    <3> QED BY <2>2, <3>2, <3>3, <3>4
  <2>10. Accumulates(F, parts, m)
    <3> HIDE DEF parts, to
    <3>1. DOMAIN F = 1 .. m /\ F[1] = parts[1]
      <4>1. 1 \in 1 .. m
        BY <2>2
      <4> QED BY <4>1, <2>8
    <3>2. ASSUME NEW i \in 2 .. m PROVE F[i] = F[i - 1] \o parts[i]
      <4>1. i \in 1 .. m /\ i # 1 /\ i - 1 \in 1 .. m /\ i > 1
        BY <2>2
      <4>2. /\ to(i - 1) = n + (i - 1) * r /\ to(i - 1) \in n .. L
            /\ to(i) \in to(i - 1) .. L
        BY <4>1, <2>3
      <4>3. parts[i] = SubSeq(b, to(i - 1) + 1, to(i))
        BY <4>1, <4>2, <2>8
      <4>4. SubSeq(b, 1, to(i - 1)) \o SubSeq(b, to(i - 1) + 1, to(i)) = SubSeq(b, 1, to(i))
        <5> DEFINE x == to(i - 1)
                   y == to(i)
        <5>1. 1 \in 1 .. L + 1 /\ x \in 0 .. L /\ y \in x .. L
          BY <4>2, <1>t
        <5> HIDE DEF x, y
        <5>2. x \in 1 - 1 .. L
          BY <5>1
        <5>3. SubSeq(b, 1, x) \o SubSeq(b, x + 1, y) = SubSeq(b, 1, y)
          BY <5>1, <5>2, ConcatAdjacentSubSeq
        <5> QED BY <5>3 DEF x, y
      <4> QED BY <4>1, <4>3, <4>4
    <3> HIDE DEF F
    <3> QED BY <2>8, <3>1, <3>2 DEF Accumulates
  <2>11. FlattenSeq(parts) = F[m]
    <3> HIDE DEF parts, F
    <3> QED BY <2>2, <2>9, <2>10, FlattenIs
  <2> HIDE DEF parts, F, rows
  <2> QED BY <2>7, <2>9, <2>11 DEF rows
<1> QED BY <1>1, <1>2, <1>t

-----------------------------------------------------------------------------
(* The inductive invariant.                                                  *)

AnyVal    == Value \cup {NoSuchObject, EndOfMibView, BackendError, Pending}
AnyAnswer == [oid : Oid, val : AnyVal]
AnyFuture == [kind : {"get", "next"}, oid : OIDS, ans : AnyAnswer]

Shapes ==
    /\ setup \in Setups /\ workleft \in BOOLEAN
    /\ pc \in {"idle", "asking", "gets", "first", "ahead", "collected",
              "signalling", "crashed"}
    /\ futures \in Seq(AnyFuture)
    /\ calls \in Seq(1 .. Len(futures))
    /\ getq \in Seq(1 .. Len(futures)) /\ nextq \in Seq(1 .. Len(futures))
    /\ completions \in Seq([fut : 1 .. Len(futures), ans : AnyAnswer])
    /\ result \in Seq(AnyAnswer) /\ cols \in Seq(Oid) /\ newcols \in Seq(Oid)
    /\ DOMAIN pendingnext \subseteq OIDS
    /\ pendingnext \in [DOMAIN pendingnext -> 1 .. Len(futures)]

\* What a query may be answered with, by a backend that fails or does not.
GetRight(fails, o, a) ==
    \/ a = AgentGet(o)
    \/ a = Answer(o, EndOfMibView) /\ After(o) = {} /\ o \notin DOMAIN MIB
    \/ a = Answer(o, BackendError) /\ (fails \/ \E k \in After(PrevOid(o)) : k \prec o)

NextRight(fails, o, a) ==
    \/ Follows(o, a)
    \/ a = Answer(o, BackendError) /\ fails

Right(fails, kind, o, a) == IF kind = "get" THEN GetRight(fails, o, a)
                            ELSE NextRight(fails, o, a)

\* What a future has been answered, or is about to be, is right.
FuturesRight ==
    \A f \in 1 .. Len(futures) :
        \/ futures[f].ans = NotDone(futures[f].oid)
        \/ Right(MayFail, futures[f].kind, futures[f].oid, futures[f].ans)

CompletionsRight ==
    \A i \in 1 .. Len(completions) :
        LET f == completions[i].fut
        IN  Right(MayFail, futures[f].kind, futures[f].oid, completions[i].ans)

CacheRight == Sound(cache) /\ Truthful(cache)

\* Between steps and while clients run the step's variables are empty.
AtRest ==
    /\ pc \in {"idle", "collected", "signalling", "crashed"} => Quiet
    /\ pc \in {"asking", "gets"} => newcols = << >>
    /\ pc \in {"idle", "asking", "crashed"} => completions = << >>

\* Gets and nexts are queued apart, and the columns left are those of the
\* getnext queries in front of their queue.
Queues ==
    /\ \A i \in 1 .. Len(getq) : futures[getq[i]].kind = "get"
    /\ \A i \in 1 .. Len(nextq) : futures[nextq[i]].kind = "next"
    /\ pc \in {"asking", "gets", "first"} =>
          /\ Len(cols) <= Len(nextq)
          /\ \A y \in 1 .. Len(cols) : cols[y] = OidOf(nextq[y])

\* What binding i of an answer was asked after: the gets come first, then the
\* columns left of this row, then those of the next row already known, then
\* the bindings themselves, one row above.
Source(gets, row, nextrow, binds, i) ==
    LET y == i - Len(gets)
    IN  IF y <= 0 THEN gets[i]
        ELSE IF y <= Len(row) THEN row[y]
        ELSE IF y <= Len(row) + Len(nextrow) THEN nextrow[y - Len(row)]
        ELSE binds[i - Len(row) - Len(nextrow)].oid

GetsAsked == IF pc = "asking" THEN Len(BulkGets)
             ELSE IF pc = "gets" THEN Len(getq) ELSE 0

GetsLeft == [x \in 1 .. GetsAsked |-> PrevOid(futures[getq[x]].oid)]

RowsRight ==
    /\ \A i \in 1 .. Len(result) :
          Follows(Source(GetsLeft, cols, newcols, result, i), result[i])
    /\ pc = "asking" => cols = NextColumns /\ Len(result) <= BulkSize

\* A future that is not done is in one place, at one position of it.
Placed ==
    /\ \A i, j \in 1 .. Len(getq) : getq[i] = getq[j] => i = j
    /\ \A i, j \in 1 .. Len(nextq) : nextq[i] = nextq[j] => i = j
    /\ \A i, j \in 1 .. Len(completions) : completions[i].fut = completions[j].fut => i = j
    /\ \A i \in 1 .. Len(completions) :
          /\ \A j \in 1 .. Len(getq) : getq[j] # completions[i].fut
          /\ \A j \in 1 .. Len(nextq) : nextq[j] # completions[i].fut

Queued(f) == \/ \E i \in 1 .. Len(getq) : getq[i] = f
             \/ \E i \in 1 .. Len(nextq) : nextq[i] = f
             \/ \E i \in 1 .. Len(completions) : completions[i].fut = f

Waiting == \A f \in 1 .. Len(futures) : Queued(f) <=> ~ Done(f)

\* pendingnext has the futures of the getnext queries that are under way.
Noted ==
    /\ \A o \in DOMAIN pendingnext :
          futures[pendingnext[o]].kind = "next" /\ OidOf(pendingnext[o]) = o
    /\ Caching =>
          /\ \A i \in 1 .. Len(nextq) :
                /\ OidOf(nextq[i]) \in DOMAIN pendingnext
                /\ pendingnext[OidOf(nextq[i])] = nextq[i]
          /\ \A i \in 1 .. Len(completions) :
                LET f == completions[i].fut
                IN  futures[f].kind = "next" =>
                       OidOf(f) \in DOMAIN pendingnext /\ pendingnext[OidOf(f)] = f

\* Every future was returned by a call.
Called == \A f \in 1 .. Len(futures) : \E i \in 1 .. Len(calls) : calls[i] = f

IInv == /\ Shapes /\ FuturesRight /\ CompletionsRight /\ CacheRight /\ AtRest
        /\ Queues /\ RowsRight /\ Placed /\ Waiting /\ Noted /\ Called

-----------------------------------------------------------------------------
(* Answers.                                                                  *)

\* Clients ask for oids that have a prev_oid.
LEMMA OidsAreOids == \A o \in OIDS : o \in Oid /\ o # << >> /\ PrevOid(o) \in Oid /\ PrevOid(o) \prec o
BY EngineAssumption, PrevOidPrecedes

\* A right answer is one, and completes the future.
LEMMA GetRightTyped ==
    ASSUME NEW fails, NEW o \in Oid, NEW a, GetRight(fails, o, a)
    PROVE  a \in AnyAnswer /\ a.val # Pending /\ a.oid = o
<1>1. CASE a = AgentGet(o)
  <2>1. o \in DOMAIN MIB => MIB[o] \in Value
    BY MIBAssumption
  <2> QED BY <1>1, <2>1, EngineAssumption DEF AgentGet, AnyAnswer, AnyVal
<1>2. CASE a = Answer(o, EndOfMibView)
  BY <1>2, EngineAssumption DEF Answer, AnyAnswer, AnyVal
<1>3. CASE a = Answer(o, BackendError)
  BY <1>3, EngineAssumption DEF Answer, AnyAnswer, AnyVal
<1> QED BY <1>1, <1>2, <1>3 DEF GetRight

\* What follows an oid is an answer that completes a future.
LEMMA FollowsTyped ==
    ASSUME NEW o \in Oid, NEW a, Follows(o, a)
    PROVE  a \in AnyAnswer /\ a.val # Pending /\ a.val # BackendError /\ o \preceq a.oid
<1>1. /\ a.oid \in Oid /\ o \preceq a.oid /\ a.val \in Value \cup {EndOfMibView}
      /\ a = [oid |-> a.oid, val |-> a.val]
  BY FollowsMeans
<1> QED BY <1>1, EngineAssumption DEF AnyAnswer, AnyVal

\* So is what a getnext query may be answered with.
LEMMA NextRightTyped ==
    ASSUME NEW fails, NEW o \in Oid, NEW a, NextRight(fails, o, a)
    PROVE  a \in AnyAnswer /\ a.val # Pending
BY FollowsTyped, EngineAssumption DEF NextRight, Answer, AnyAnswer, AnyVal

\* A right answer completes a future, whatever was asked.
LEMMA RightTyped ==
    ASSUME NEW fails, NEW kind, NEW o \in Oid, NEW a, Right(fails, kind, o, a)
    PROVE  a \in AnyAnswer /\ a.val # Pending
BY GetRightTyped, NextRightTyped DEF Right

\* A backend call yields a right answer.
LEMMA BackendRight ==
    ASSUME NEW o \in Oid
    PROVE  /\ \A a \in BackendGet(o) : GetRight(MayFail, o, a)
           /\ \A a \in BackendNext(o) : NextRight(MayFail, o, a)
BY AgentNextFollows DEF BackendGet, BackendNext, Failures, GetRight, NextRight

(* What the engine's callbacks put into the cache.                           *)
\* The callback _cacheget keeps the cache true, given a right answer.
LEMMA CacheGetKept ==
    ASSUME NEW c, Sound(c), Truthful(c), NEW fails, NEW o \in Oid, NEW a, GetRight(fails, o, a)
    PROVE  Sound(CacheGet(c, o, a)) /\ Truthful(CacheGet(c, o, a))
<1>0. EndOfMibView \notin Value /\ NoSuchObject \notin Value /\ NoSuchObject # EndOfMibView
      /\ BackendError \notin Value /\ BackendError # EndOfMibView
  BY SentinelAssumption, EngineAssumption
<1>1. CASE a.val \in Value
  <2>1. o \in DOMAIN MIB /\ a.val = MIB[o]
    BY <1>0, <1>1 DEF GetRight, AgentGet, Answer
  <2>2. CacheGet(c, o, a) = Set(c, o, MIB[o])
    BY <1>0, <1>1, <2>1 DEF CacheGet
  <2> QED BY <2>1, <2>2, SetTruthful
<1>2. CASE a.val = EndOfMibView
  <2>1. After(o) = {}
    BY <1>0, <1>2, MIBAssumption DEF GetRight, AgentGet, Answer
  <2>2. CacheGet(c, o, a) = SetEnd(c, o)
    BY <1>0, <1>2 DEF CacheGet
  <2> QED BY <2>1, <2>2, SetEndTruthful
<1>3. CASE a.val \notin Value /\ a.val # EndOfMibView
  BY <1>3 DEF CacheGet
<1> QED BY <1>1, <1>2, <1>3

\* So does _cachenext.
LEMMA CacheNextKept ==
    ASSUME NEW c, Sound(c), Truthful(c), NEW fails, NEW o \in Oid, NEW a, NextRight(fails, o, a)
    PROVE  Sound(CacheNext(c, o, a)) /\ Truthful(CacheNext(c, o, a))
<1>0. EndOfMibView \notin Value /\ BackendError \notin Value /\ BackendError # EndOfMibView
  BY SentinelAssumption, EngineAssumption
<1>1. CASE a.val \in Value
  <2>1. Follows(o, a)
    BY <1>0, <1>1 DEF NextRight, Answer
  <2>2. IsNext(o, a.oid) /\ a.val = MIB[a.oid] /\ a.oid \in Oid
    BY <1>1, <2>1, FollowsMeans
  <2>3. CacheNext(c, o, a) = SetNextValue(c, o, a.oid, MIB[a.oid])
    BY <1>0, <1>1, <2>2 DEF CacheNext
  <2> QED BY <2>2, <2>3, SetNextValueTruthful
<1>2. CASE a.val = EndOfMibView
  <2>1. After(o) = {}
    BY <1>0, <1>2, FollowsMeans DEF NextRight, Answer
  <2>2. CacheNext(c, o, a) = SetEnd(c, o)
    BY <1>0, <1>2 DEF CacheNext
  <2> QED BY <2>1, <2>2, SetEndTruthful
<1>3. CASE a.val \notin Value /\ a.val # EndOfMibView
  BY <1>3 DEF CacheNext
<1> QED BY <1>1, <1>2, <1>3

\* What is in the variables, one by one.
LEMMA Elements ==
    ASSUME Shapes
    PROVE  /\ \A f \in 1 .. Len(futures) :
                 /\ futures[f].kind \in {"get", "next"}
                 /\ futures[f].oid \in OIDS /\ futures[f].oid \in Oid
                 /\ futures[f].ans \in AnyAnswer
           /\ \A i \in 1 .. Len(getq) : getq[i] \in 1 .. Len(futures)
           /\ \A i \in 1 .. Len(nextq) : nextq[i] \in 1 .. Len(futures)
           /\ \A i \in 1 .. Len(completions) :
                 /\ completions[i].fut \in 1 .. Len(futures)
                 /\ completions[i].ans \in AnyAnswer
           /\ \A i \in 1 .. Len(result) : result[i] \in AnyAnswer /\ result[i].oid \in Oid
           /\ \A i \in 1 .. Len(cols) : cols[i] \in Oid
           /\ \A i \in 1 .. Len(newcols) : newcols[i] \in Oid
           /\ Len(futures) \in Nat /\ Len(calls) \in Nat /\ Len(getq) \in Nat
           /\ Len(nextq) \in Nat /\ Len(completions) \in Nat /\ Len(result) \in Nat
           /\ Len(cols) \in Nat /\ Len(newcols) \in Nat
<1>1. \A f \in 1 .. Len(futures) :
         /\ futures[f].kind \in {"get", "next"}
         /\ futures[f].oid \in OIDS /\ futures[f].oid \in Oid
         /\ futures[f].ans \in AnyAnswer
  <2>1. \A f \in 1 .. Len(futures) : futures[f] \in AnyFuture
    BY DEF Shapes
  <2> QED BY <2>1, OidsAreOids DEF AnyFuture
<1>2. /\ \A i \in 1 .. Len(getq) : getq[i] \in 1 .. Len(futures)
      /\ \A i \in 1 .. Len(nextq) : nextq[i] \in 1 .. Len(futures)
  BY SMTT(30) DEF Shapes
<1>3. \A i \in 1 .. Len(completions) :
         completions[i].fut \in 1 .. Len(futures) /\ completions[i].ans \in AnyAnswer
  <2> DEFINE C == [fut : 1 .. Len(futures), ans : AnyAnswer]
  <2>1. \A i \in 1 .. Len(completions) : completions[i] \in C
    <3>1. completions \in Seq(C)
      BY DEF Shapes
    <3> HIDE DEF C
    <3> QED BY <3>1
  <2> QED BY <2>1
<1>4. \A i \in 1 .. Len(result) : result[i] \in AnyAnswer /\ result[i].oid \in Oid
  <2>1. \A i \in 1 .. Len(result) : result[i] \in AnyAnswer
    BY DEF Shapes
  <2> QED BY <2>1 DEF AnyAnswer
<1>5. /\ \A i \in 1 .. Len(cols) : cols[i] \in Oid
      /\ \A i \in 1 .. Len(newcols) : newcols[i] \in Oid
  BY DEF Shapes
<1>6. /\ Len(futures) \in Nat /\ Len(calls) \in Nat /\ Len(getq) \in Nat
      /\ Len(nextq) \in Nat /\ Len(completions) \in Nat /\ Len(result) \in Nat
      /\ Len(cols) \in Nat /\ Len(newcols) \in Nat
  BY DEF Shapes
<1> QED BY <1>1, <1>2, <1>3, <1>4, <1>5, <1>6

-----------------------------------------------------------------------------
(* Clients.                                                                  *)

\* The engines start with nothing queued, nothing cached, nothing asked.
LEMMA InitIInv == Init => IInv
<1> SUFFICES ASSUME Init PROVE IInv
  OBVIOUS
<1> USE DEF Init
<1>1. Shapes
  BY DEF Shapes
<1>2. CacheRight
  BY EmptyTruthful DEF CacheRight
<1>3. FuturesRight /\ CompletionsRight /\ Queues /\ RowsRight /\ Placed /\ Waiting /\ Called
  BY DEF FuturesRight, CompletionsRight, Queues, RowsRight, Placed, Waiting, Called
<1>4. AtRest /\ Noted
  BY DEF AtRest, Noted, Quiet
<1> QED BY <1>1, <1>2, <1>3, <1>4 DEF IInv

\* What a call that makes a future does to the lists of futures and calls.
Grown(kind, o, a) ==
    /\ futures' \in Seq(AnyFuture) /\ Len(futures') = Len(futures) + 1
    /\ \A f \in 1 .. Len(futures) : futures'[f] = futures[f]
    /\ futures'[Len(futures) + 1] = [kind |-> kind, oid |-> o, ans |-> a]
    /\ calls' \in Seq(1 .. Len(futures')) /\ Len(calls') = Len(calls) + 1
    /\ \A i \in 1 .. Len(calls) : calls'[i] = calls[i]
    /\ calls'[Len(calls) + 1] = Len(futures) + 1

\* A call that makes a future appends it to both lists.
LEMMA NewFutureGrows ==
    ASSUME Shapes, NEW kind \in {"get", "next"}, NEW o \in OIDS, NEW a \in AnyAnswer,
           NewFuture(kind, o, a)
    PROVE  Grown(kind, o, a)
<1> DEFINE f == Future(kind, o, a)
<1>1. f \in AnyFuture /\ f = [kind |-> kind, oid |-> o, ans |-> a]
  BY DEF AnyFuture, Future
<1>2. futures' = Append(futures, f) /\ calls' = Append(calls, Len(futures) + 1)
  BY DEF NewFuture
<1>3. futures \in Seq(AnyFuture) /\ calls \in Seq(1 .. Len(futures))
  BY DEF Shapes
<1> HIDE DEF f
<1>4. /\ futures' \in Seq(AnyFuture) /\ Len(futures') = Len(futures) + 1
      /\ \A i \in 1 .. Len(futures) : futures'[i] = futures[i]
      /\ futures'[Len(futures) + 1] = f
  BY <1>1, <1>2, <1>3
<1>5. calls \in Seq(1 .. Len(futures')) /\ Len(futures) + 1 \in 1 .. Len(futures')
  BY <1>3, <1>4
<1>6. /\ calls' \in Seq(1 .. Len(futures')) /\ Len(calls') = Len(calls) + 1
      /\ \A i \in 1 .. Len(calls) : calls'[i] = calls[i]
      /\ calls'[Len(calls) + 1] = Len(futures) + 1
  BY <1>2, <1>3, <1>5
<1> QED BY <1>1, <1>4, <1>6 DEF Grown

\* Whatever it answers, a call leaves these parts as they are.
LEMMA NewFutureKeeps ==
    ASSUME IInv, ClientRuns, NEW kind \in {"get", "next"}, NEW o \in OIDS, NEW a,
           a = NotDone(o) \/ Right(MayFail, kind, o, a),
           NewFuture(kind, o, a),
           UNCHANGED <<setup, result, cols, newcols, completions, pc>>
    PROVE  /\ Grown(kind, o, a)
           /\ FuturesRight' /\ CompletionsRight' /\ AtRest' /\ RowsRight' /\ Called'
<1>0. a \in AnyAnswer
  <2>1. o \in Oid
    BY OidsAreOids
  <2>2. NotDone(o) \in AnyAnswer
    BY <2>1 DEF NotDone, Answer, AnyAnswer, AnyVal
  <2> QED BY <2>1, <2>2, RightTyped
<1>1. Grown(kind, o, a)
  BY <1>0, NewFutureGrows DEF IInv
<1>t. futures \in Seq(AnyFuture) /\ Len(futures) \in Nat /\ Len(calls) \in Nat
  BY DEF IInv, Shapes
<1>2. FuturesRight'
  <2> SUFFICES ASSUME NEW f \in 1 .. Len(futures')
               PROVE  \/ futures'[f].ans = NotDone(futures'[f].oid)
                      \/ Right(MayFail, futures'[f].kind, futures'[f].oid, futures'[f].ans)
    BY DEF FuturesRight, MayFail
  <2>1. CASE f \in 1 .. Len(futures)
    BY <2>1, <1>1 DEF Grown, IInv, FuturesRight
  <2>2. CASE f = Len(futures) + 1
    BY <2>2, <1>1 DEF Grown
  <2> QED BY <2>1, <2>2, <1>1, <1>t DEF Grown
<1>3. CompletionsRight'
  <2> SUFFICES ASSUME NEW i \in 1 .. Len(completions)
               PROVE  LET f == completions[i].fut
                      IN  Right(MayFail, futures'[f].kind, futures'[f].oid, completions[i].ans)
    BY DEF CompletionsRight, MayFail
  <2>1. completions[i].fut \in 1 .. Len(futures)
    BY Elements DEF IInv
  <2> QED BY <2>1, <1>1 DEF Grown, IInv, CompletionsRight
<1>4. AtRest' /\ RowsRight'
  <2>1. pc' \in {"idle", "signalling"} /\ result' = << >> /\ cols' = << >> /\ newcols' = << >>
    BY DEF ClientRuns, IInv, AtRest, Quiet
  <2> QED BY <2>1 DEF IInv, AtRest, Quiet, RowsRight
<1>5. Called'
  <2> SUFFICES ASSUME NEW f \in 1 .. Len(futures')
               PROVE  \E i \in 1 .. Len(calls') : calls'[i] = f
    BY DEF Called
  <2>1. CASE f \in 1 .. Len(futures)
    <3>1. PICK i \in 1 .. Len(calls) : calls[i] = f
      BY <2>1 DEF IInv, Called
    <3>2. i \in 1 .. Len(calls') /\ calls'[i] = f
      BY <1>1, <1>t, <3>1 DEF Grown
    <3> QED BY <3>2
  <2>2. CASE f = Len(futures) + 1
    <3>1. Len(calls) + 1 \in 1 .. Len(calls')
      BY <1>1, <1>t DEF Grown
    <3> QED BY <3>1, <2>2, <1>1 DEF Grown
  <2> QED BY <2>1, <2>2, <1>1, <1>t DEF Grown
<1> QED BY <1>1, <1>2, <1>3, <1>4, <1>5

\* Lists of futures stay lists of futures when more futures are made.
LEMMA Wider ==
    ASSUME NEW m \in Nat, NEW n \in Nat, m <= n
    PROVE  /\ \A s \in Seq(1 .. m) : s \in Seq(1 .. n)
           /\ \A A, s : s \in Seq([fut : 1 .. m, ans : A]) => s \in Seq([fut : 1 .. n, ans : A])
<1>1. ASSUME NEW S, NEW T, S \subseteq T, NEW s \in Seq(S) PROVE s \in Seq(T)
  <2>1. s \in [1 .. Len(s) -> T] /\ Len(s) \in Nat
    BY <1>1
  <2> QED BY <2>1
<1>2. 1 .. m \subseteq 1 .. n
  OBVIOUS
<1>3. \A A : [fut : 1 .. m, ans : A] \subseteq [fut : 1 .. n, ans : A]
  BY <1>2
<1> QED BY <1>1, <1>2, <1>3

\* The types, for a call that makes a future.
LEMMA GrownShapes ==
    ASSUME Shapes, NEW kind, NEW o, NEW a, Grown(kind, o, a),
           UNCHANGED <<setup, workleft, pc, result, cols, newcols, completions>>,
           getq' \in {getq, Append(getq, Len(futures) + 1)},
           nextq' \in {nextq, Append(nextq, Len(futures) + 1)},
           DOMAIN pendingnext' \subseteq OIDS,
           pendingnext' \in [DOMAIN pendingnext' -> 1 .. Len(futures')]
    PROVE  Shapes'
<1> DEFINE m == Len(futures)
           n == Len(futures')
<1>1. m \in Nat /\ n = m + 1 /\ n \in Nat /\ m <= n /\ m + 1 \in 1 .. n
  BY Elements DEF Grown
<1>2. getq \in Seq(1 .. m) /\ nextq \in Seq(1 .. m)
  BY DEF Shapes
<1>3. completions \in Seq([fut : 1 .. m, ans : AnyAnswer])
  BY DEF Shapes
<1> HIDE DEF m, n
<1>4. getq \in Seq(1 .. n) /\ nextq \in Seq(1 .. n)
  BY <1>1, <1>2, Wider
<1>5. completions \in Seq([fut : 1 .. n, ans : AnyAnswer])
  BY <1>1, <1>3, Wider
<1>6. getq' \in Seq(1 .. n) /\ nextq' \in Seq(1 .. n)
  <2>1. \A s \in Seq(1 .. n) : Append(s, m + 1) \in Seq(1 .. n)
    BY <1>1
  <2>2. getq' \in {getq, Append(getq, m + 1)} /\ nextq' \in {nextq, Append(nextq, m + 1)}
    BY DEF m
  <2> QED BY <1>4, <2>1, <2>2, Zenon
<1>7. completions' \in Seq([fut : 1 .. n, ans : AnyAnswer])
  BY <1>5
<1>8. futures' \in Seq(AnyFuture) /\ calls' \in Seq(1 .. n)
  BY DEF Grown, n
<1>9. /\ setup' \in Setups /\ workleft' \in BOOLEAN
      /\ pc' \in {"idle", "asking", "gets", "first", "ahead", "collected",
                  "signalling", "crashed"}
      /\ result' \in Seq(AnyAnswer) /\ cols' \in Seq(Oid) /\ newcols' \in Seq(Oid)
  BY DEF Shapes
<1>10. DOMAIN pendingnext' \subseteq OIDS /\ pendingnext' \in [DOMAIN pendingnext' -> 1 .. n]
  BY DEF n
<1>11. /\ futures' \in Seq(AnyFuture) /\ calls' \in Seq(1 .. Len(futures'))
       /\ getq' \in Seq(1 .. Len(futures')) /\ nextq' \in Seq(1 .. Len(futures'))
       /\ completions' \in Seq([fut : 1 .. Len(futures'), ans : AnyAnswer])
       /\ pendingnext' \in [DOMAIN pendingnext' -> 1 .. Len(futures')]
  BY <1>6, <1>7, <1>8, <1>10 DEF n
<1> QED BY <1>9, <1>10, <1>11, Zenon DEF Shapes

\* A future that is made done is in no queue.
LEMMA DoneGrows ==
    ASSUME IInv, ClientRuns, NEW kind, NEW o, NEW a, Grown(kind, o, a), a.val # Pending,
           UNCHANGED <<getq, nextq, completions, pc>>
    PROVE  Queues' /\ Placed' /\ Waiting'
<1> USE DEF IInv
<1>1. /\ \A i \in 1 .. Len(getq) : futures'[getq[i]] = futures[getq[i]]
      /\ \A i \in 1 .. Len(nextq) : futures'[nextq[i]] = futures[nextq[i]]
  BY Elements DEF Grown
<1>2. Queues'
  BY <1>1 DEF Queues, ClientRuns
<1>3. Placed'
  BY DEF Placed
<1>4. Waiting'
  <2> SUFFICES ASSUME NEW f \in 1 .. Len(futures')
               PROVE  Queued(f)' <=> futures'[f].ans.val = Pending
    BY DEF Waiting, Done
  <2>1. Queued(f)' <=> Queued(f)
    BY DEF Queued
  <2>2. CASE f \in 1 .. Len(futures)
    BY <2>1, <2>2 DEF Grown, Waiting, Done
  <2>3. CASE f = Len(futures) + 1
    <3>1. ~ Queued(f)
      BY <2>3, Elements, SMTT(30) DEF Queued
    <3> QED BY <2>1, <2>3, <3>1 DEF Grown
  <2> QED BY <2>2, <2>3, Elements DEF Grown
<1> QED BY <1>2, <1>3, <1>4

\* pendingnext is right about a list of futures that has grown.
LEMMA GrownNoted ==
    ASSUME IInv, NEW kind, NEW o, NEW a, Grown(kind, o, a),
           UNCHANGED <<setup, pendingnext, nextq, completions>>
    PROVE  Noted'
<1> USE DEF IInv
<1>1. /\ \A i \in 1 .. Len(nextq) : futures'[nextq[i]] = futures[nextq[i]]
      /\ \A i \in 1 .. Len(completions) :
            futures'[completions[i].fut] = futures[completions[i].fut]
  BY Elements DEF Grown
<1>2. \A p \in DOMAIN pendingnext : futures'[pendingnext[p]] = futures[pendingnext[p]]
  BY DEF Grown, Shapes
<1> QED BY <1>1, <1>2 DEF Noted, OidOf, Caching

\* pendingnext keeps its type when a future is made.
LEMMA SamePending ==
    ASSUME Shapes, NEW kind, NEW o, NEW a, Grown(kind, o, a), UNCHANGED pendingnext
    PROVE  /\ DOMAIN pendingnext' \subseteq OIDS
           /\ pendingnext' \in [DOMAIN pendingnext' -> 1 .. Len(futures')]
<1>1. Len(futures) \in Nat /\ Len(futures') = Len(futures) + 1
  BY Elements DEF Grown
<1>2. /\ DOMAIN pendingnext \subseteq OIDS
      /\ pendingnext \in [DOMAIN pendingnext -> 1 .. Len(futures)]
  BY DEF Shapes
<1> QED BY <1>1, <1>2

\* get answered by the cache keeps the invariant: the cache is truthful.
LEMMA GetCachedKeeps ==
    ASSUME IInv, NEW o \in OIDS, GetCached(o), UNCHANGED setup
    PROVE  IInv'
<1> DEFINE a == Answer(o, CachedGet(o))
<1> USE DEF GetCached, engineVars
<1>1. Right(MayFail, "get", o, a) /\ a.val # Pending
  <2>1. o \in Oid
    BY OidsAreOids
  <2>2. CachedGet(o) = AgentGet(o).val
    BY <2>1, GetTruthful DEF CachedGet, IInv, CacheRight
  <2>3. a = AgentGet(o)
    BY <2>2 DEF Answer, AgentGet
  <2>4. Right(MayFail, "get", o, AgentGet(o))
    BY DEF Right, GetRight
  <2> HIDE DEF a
  <2> QED BY <2>1, <2>3, <2>4, RightTyped
<1>2. NewFuture("get", o, a) /\ UNCHANGED <<setup, result, cols, newcols, completions, pc>>
  OBVIOUS
<1> HIDE DEF a
<1>3. /\ Grown("get", o, a)
      /\ FuturesRight' /\ CompletionsRight' /\ AtRest' /\ RowsRight' /\ Called'
  BY <1>1, <1>2, NewFutureKeeps
<1>4. Queues' /\ Placed' /\ Waiting'
  BY <1>1, <1>3, DoneGrows
<1>5. Noted'
  BY <1>3, GrownNoted
<1>6. Shapes'
  BY <1>3, SamePending, GrownShapes DEF IInv
<1>7. CacheRight'
  BY DEF IInv, CacheRight
<1> QED BY <1>3, <1>4, <1>5, <1>6, <1>7 DEF IInv

LEMMA NextCachedKeeps ==
    ASSUME IInv, NEW o \in OIDS, NextCached(o), UNCHANGED setup
    PROVE  IInv'
<1> DEFINE a == CachedNext(o)
<1> USE DEF NextCached, engineVars
<1>1. Right(MayFail, "next", o, a) /\ a.val # Pending
  <2>1. o \in Oid
    BY OidsAreOids
  <2>2. Caching
    BY DEF CachedNext, Answer
  <2>3. Follows(o, a)
    BY <2>1, <2>2, GetNextTruthful DEF CachedNext, IInv, CacheRight
  <2> HIDE DEF a
  <2> QED BY <2>1, <2>3, FollowsTyped DEF Right, NextRight
<1>2. NewFuture("next", o, a) /\ UNCHANGED <<setup, result, cols, newcols, completions, pc>>
  OBVIOUS
<1> HIDE DEF a
<1>3. /\ Grown("next", o, a)
      /\ FuturesRight' /\ CompletionsRight' /\ AtRest' /\ RowsRight' /\ Called'
  BY <1>1, <1>2, NewFutureKeeps
<1>4. Queues' /\ Placed' /\ Waiting'
  BY <1>1, <1>3, DoneGrows
<1>5. Noted'
  BY <1>3, GrownNoted
<1>6. Shapes'
  BY <1>3, SamePending, GrownShapes DEF IInv
<1>7. CacheRight'
  BY DEF IInv, CacheRight
<1> QED BY <1>3, <1>4, <1>5, <1>6, <1>7 DEF IInv

\* get asked at once by the SimpleEngine keeps the invariant.
LEMMA GetDirectKeeps ==
    ASSUME IInv, NEW o \in OIDS, GetDirect(o), UNCHANGED setup
    PROVE  IInv'
<1> USE DEF GetDirect, engineVars
<1>0. PICK a \in BackendGet(o) :
         NewFuture("get", o, a) /\ cache' = IF Caching THEN CacheGet(cache, o, a) ELSE cache
  OBVIOUS
<1>t. o \in Oid
  BY OidsAreOids
<1>1. GetRight(MayFail, o, a) /\ Right(MayFail, "get", o, a) /\ a.val # Pending
  BY <1>t, BackendRight, GetRightTyped DEF Right
<1>2. UNCHANGED <<setup, result, cols, newcols, completions, pc>>
  OBVIOUS
<1>3. /\ Grown("get", o, a)
      /\ FuturesRight' /\ CompletionsRight' /\ AtRest' /\ RowsRight' /\ Called'
  BY <1>0, <1>1, <1>2, NewFutureKeeps
<1>4. Queues' /\ Placed' /\ Waiting'
  BY <1>1, <1>3, DoneGrows
<1>5. Noted'
  BY <1>3, GrownNoted
<1>6. Shapes'
  BY <1>3, SamePending, GrownShapes DEF IInv
<1>7. CacheRight'
  BY <1>t, <1>0, <1>1, CacheGetKept DEF IInv, CacheRight
<1> QED BY <1>3, <1>4, <1>5, <1>6, <1>7 DEF IInv

\* pendingnext with one more future in it, and without it again.
LEMMA WithNoted ==
    ASSUME IInv, NEW o \in OIDS, o \notin DOMAIN pendingnext, NEW a, Grown("next", o, a),
           NEW pn, pn \in {pendingnext, With(pendingnext, o, Len(futures) + 1),
                           Without(With(pendingnext, o, Len(futures) + 1), o, a)}
    PROVE  /\ DOMAIN pn \subseteq OIDS
           /\ pn \in [DOMAIN pn -> 1 .. Len(futures')]
           /\ \A p \in DOMAIN pn : futures'[pn[p]].kind = "next" /\ futures'[pn[p]].oid = p
           /\ \A p \in DOMAIN pendingnext : p \in DOMAIN pn /\ pn[p] = pendingnext[p]
<1> DEFINE n == Len(futures) + 1
           w == With(pendingnext, o, n)
           x == Without(w, o, a)
           Good(q) == /\ DOMAIN q \subseteq OIDS
                      /\ q \in [DOMAIN q -> 1 .. Len(futures')]
                      /\ \A p \in DOMAIN q : futures'[q[p]].kind = "next" /\ futures'[q[p]].oid = p
                      /\ \A p \in DOMAIN pendingnext : p \in DOMAIN q /\ q[p] = pendingnext[p]
<1>t. Len(futures) \in Nat /\ Len(futures') = n /\ n \in 1 .. n
  BY Elements DEF IInv, Grown
<1>1. Good(pendingnext)
  <2>1. pendingnext \in [DOMAIN pendingnext -> 1 .. Len(futures)] /\ DOMAIN pendingnext \subseteq OIDS
    BY DEF IInv, Shapes
  <2>2. \A p \in DOMAIN pendingnext : pendingnext[p] \in 1 .. Len(futures)
    BY <2>1
  <2>3. \A p \in DOMAIN pendingnext : futures'[pendingnext[p]] = futures[pendingnext[p]]
    BY <2>2 DEF Grown
  <2>4. pendingnext \in [DOMAIN pendingnext -> 1 .. Len(futures')]
    BY <2>1, <1>t
  <2> QED BY <2>1, <2>3, <2>4 DEF IInv, Noted, OidOf
<1>2. futures'[n].kind = "next" /\ futures'[n].oid = o
  BY DEF Grown
<1> HIDE DEF n
<1>3. /\ DOMAIN w = DOMAIN pendingnext \cup {o}
      /\ \A p \in DOMAIN w : w[p] = IF p = o THEN n ELSE pendingnext[p]
      /\ w = [p \in DOMAIN w |-> w[p]]
  BY DEF With
<1> HIDE DEF w
<1>4. Good(w)
  <2>1. \A p \in DOMAIN w : /\ w[p] \in 1 .. Len(futures')
                           /\ futures'[w[p]].kind = "next" /\ futures'[w[p]].oid = p
    BY <1>1, <1>2, <1>3, <1>t
  <2>2. w \in [DOMAIN w -> 1 .. Len(futures')]
    BY <1>3, <2>1
  <2> QED BY <1>1, <1>3, <2>1, <2>2
<1>5. Good(x)
  <2>1. CASE a.val \in Value
    <3>1. x = [p \in DOMAIN w \ {o} |-> w[p]]
      BY <2>1 DEF Without
    <3>2. DOMAIN x = DOMAIN pendingnext /\ \A p \in DOMAIN x : x[p] = pendingnext[p]
      BY <3>1, <1>3
    <3>3. x = pendingnext
      BY <3>1, <3>2, <1>1
    <3> QED BY <3>3, <1>1
  <2>2. CASE a.val \notin Value
    <3>1. x = w
      BY <2>2 DEF Without
    <3> QED BY <3>1, <1>4
  <2> QED BY <2>1, <2>2
<1>6. pn \in {pendingnext, w, x}
  BY DEF w, n
<1> HIDE DEF x
<1>7. Good(pn)
  <2> HIDE DEF Good
  <2> QED BY <1>1, <1>4, <1>5, <1>6
<1> QED BY <1>7

\* So does getnext asked at once, though a failure stays in pendingnext.
LEMMA NextDirectKeeps ==
    ASSUME IInv, NEW o \in OIDS, NextDirect(o), UNCHANGED setup
    PROVE  IInv'
<1> USE DEF NextDirect, engineVars
<1>0. PICK a \in BackendNext(o) :
         /\ NewFuture("next", o, a)
         /\ cache' = IF Caching THEN CacheNext(cache, o, a) ELSE cache
         /\ pendingnext' =
               IF Caching THEN Without(With(pendingnext, o, Len(futures) + 1), o, a)
                          ELSE pendingnext
  OBVIOUS
<1>t. o \in Oid
  BY OidsAreOids
<1>1. NextRight(MayFail, o, a) /\ Right(MayFail, "next", o, a) /\ a.val # Pending
  BY <1>t, BackendRight, NextRightTyped DEF Right
<1>2. UNCHANGED <<setup, result, cols, newcols, completions, pc>>
  OBVIOUS
<1>3. /\ Grown("next", o, a)
      /\ FuturesRight' /\ CompletionsRight' /\ AtRest' /\ RowsRight' /\ Called'
  BY <1>0, <1>1, <1>2, NewFutureKeeps
<1>4. Queues' /\ Placed' /\ Waiting'
  BY <1>1, <1>3, DoneGrows
<1>5. /\ DOMAIN pendingnext' \subseteq OIDS
      /\ pendingnext' \in [DOMAIN pendingnext' -> 1 .. Len(futures')]
      /\ \A p \in DOMAIN pendingnext' :
            futures'[pendingnext'[p]].kind = "next" /\ futures'[pendingnext'[p]].oid = p
      /\ \A p \in DOMAIN pendingnext :
            p \in DOMAIN pendingnext' /\ pendingnext'[p] = pendingnext[p]
  <2>1. pendingnext' \in {pendingnext, With(pendingnext, o, Len(futures) + 1),
                          Without(With(pendingnext, o, Len(futures) + 1), o, a)}
    BY <1>0
  <2> QED BY <1>3, <2>1, WithNoted
<1>6. Noted'
  <2>1. /\ \A i \in 1 .. Len(nextq) : futures'[nextq[i]] = futures[nextq[i]]
        /\ \A i \in 1 .. Len(completions) :
              futures'[completions[i].fut] = futures[completions[i].fut]
    BY <1>3, Elements DEF Grown, IInv
  <2> QED BY <1>5, <2>1 DEF IInv, Noted, OidOf, Caching
<1>7. Shapes'
  BY <1>3, <1>5, GrownShapes DEF IInv
<1>8. CacheRight'
  BY <1>t, <1>0, <1>1, CacheNextKept DEF IInv, CacheRight
<1> QED BY <1>3, <1>4, <1>6, <1>7, <1>8 DEF IInv

\* So does getnext of what somebody already waits for.
LEMMA NextSharedKeeps ==
    ASSUME IInv, NEW o \in OIDS, NextShared(o), UNCHANGED setup
    PROVE  IInv'
<1> USE DEF NextShared, engineVars
<1>1. /\ UNCHANGED <<setup, cache, pendingnext, futures, pc, workleft>>
      /\ UNCHANGED <<getq, nextq, result, cols, newcols, completions>>
  OBVIOUS
<1>2. pendingnext[o] \in 1 .. Len(futures)
  BY DEF IInv, Shapes
<1>3. calls \in Seq(1 .. Len(futures)) /\ calls' = Append(calls, pendingnext[o])
  BY DEF IInv, Shapes
<1>4. /\ calls' \in Seq(1 .. Len(futures)) /\ Len(calls') = Len(calls) + 1 /\ Len(calls) \in Nat
      /\ \A i \in 1 .. Len(calls) : calls'[i] = calls[i]
  BY <1>2, <1>3
<1>5. Shapes'
  BY <1>1, <1>4 DEF IInv, Shapes
<1>6. Called'
  <2> SUFFICES ASSUME NEW f \in 1 .. Len(futures)
               PROVE  \E i \in 1 .. Len(calls') : calls'[i] = f
    BY <1>1 DEF Called
  <2>1. PICK i \in 1 .. Len(calls) : calls[i] = f
    BY DEF IInv, Called
  <2>2. i \in 1 .. Len(calls') /\ calls'[i] = f
    BY <1>4, <2>1
  <2> QED BY <2>2
<1>7. FuturesRight' /\ CompletionsRight' /\ CacheRight'
  BY <1>1 DEF IInv, FuturesRight, CompletionsRight, CacheRight, MayFail
<1>8. AtRest' /\ Queues'
  BY <1>1 DEF IInv, AtRest, Quiet, Queues, OidOf
<1>9. RowsRight'
  <2>1. pc \in {"idle", "signalling"} /\ result' = << >>
    BY <1>1 DEF ClientRuns, IInv, AtRest, Quiet
  <2> QED BY <1>1, <2>1 DEF RowsRight
<1>10. Placed' /\ Waiting' /\ Noted'
  BY <1>1 DEF IInv, Placed, Waiting, Queued, Done, Noted, OidOf, Caching
<1> QED BY <1>5, <1>6, <1>7, <1>8, <1>9, <1>10 DEF IInv

\* A query put into a queue.
LEMMA QueueGrows ==
    ASSUME IInv, ClientRuns, NEW kind \in {"get", "next"}, NEW o \in OIDS,
           Grown(kind, o, NotDone(o)), UNCHANGED <<completions, pc>>,
           IF kind = "get" THEN getq' = Append(getq, Len(futures) + 1) /\ UNCHANGED nextq
                           ELSE nextq' = Append(nextq, Len(futures) + 1) /\ UNCHANGED getq
    PROVE  Queues' /\ Placed' /\ Waiting'
<1> USE DEF IInv
<1> DEFINE n == Len(futures) + 1
           Grows(q, r) == /\ Len(r) = Len(q) + 1 /\ r[Len(q) + 1] = n
                          /\ \A i \in 1 .. Len(q) : r[i] = q[i]
<1>t. /\ Len(getq) \in Nat /\ Len(nextq) \in Nat /\ Len(futures) \in Nat
      /\ getq \in Seq(1 .. Len(futures)) /\ nextq \in Seq(1 .. Len(futures))
  BY Elements DEF Shapes
<1>a. /\ \A i \in 1 .. Len(getq) : getq[i] \in 1 .. Len(futures)
      /\ \A i \in 1 .. Len(nextq) : nextq[i] \in 1 .. Len(futures)
      /\ \A i \in 1 .. Len(completions) : completions[i].fut \in 1 .. Len(futures)
  BY Elements
<1>b. /\ kind = "get"  => Grows(getq, getq') /\ nextq' = nextq
      /\ kind = "next" => Grows(nextq, nextq') /\ getq' = getq
  <2>1. ASSUME NEW q \in Seq(1 .. Len(futures)) PROVE Grows(q, Append(q, n))
    <3>1. q \in Seq(Nat) /\ n \in Nat
      BY <1>t
    <3> HIDE DEF n
    <3> QED BY <3>1
  <2> HIDE DEF Grows
  <2> QED BY <2>1, <1>t
<1>c. /\ \A f \in 1 .. Len(futures) : futures'[f] = futures[f]
      /\ futures'[n].kind = kind /\ futures'[n].ans.val = Pending
      /\ Len(futures') = n /\ n \in Nat /\ \A f \in 1 .. Len(futures) : f # n
  BY <1>t DEF Grown, NotDone, Answer
<1> HIDE DEF n
<1>d. ASSUME NEW q, NEW r, Grows(q, r), Len(q) \in Nat, NEW i \in 1 .. Len(r)
      PROVE  (i \in 1 .. Len(q) /\ r[i] = q[i]) \/ (i = Len(q) + 1 /\ r[i] = n)
  BY <1>d
<1>e. /\ \A i \in 1 .. Len(getq') :
            \/ (i \in 1 .. Len(getq) /\ getq'[i] = getq[i])
            \/ (kind = "get" /\ i = Len(getq) + 1 /\ getq'[i] = n)
      /\ \A i \in 1 .. Len(nextq') :
            \/ (i \in 1 .. Len(nextq) /\ nextq'[i] = nextq[i])
            \/ (kind = "next" /\ i = Len(nextq) + 1 /\ nextq'[i] = n)
  <2> HIDE DEF Grows
  <2>1. kind \in {"get", "next"}
    OBVIOUS
  <2>2. CASE kind = "get"
    BY <2>2, <1>b, <1>d, <1>t, Zenon
  <2>3. CASE kind = "next"
    BY <2>3, <1>b, <1>d, <1>t, Zenon
  <2> QED BY <2>1, <2>2, <2>3
<1>1. Queues'
  <2>1. pc' \notin {"asking", "gets", "first"}
    BY DEF ClientRuns
  <2>2. \A i \in 1 .. Len(getq') : futures'[getq'[i]].kind = "get"
    BY <1>a, <1>c, <1>e DEF Queues
  <2>3. \A i \in 1 .. Len(nextq') : futures'[nextq'[i]].kind = "next"
    BY <1>a, <1>c, <1>e DEF Queues
  <2> QED BY <2>1, <2>2, <2>3 DEF Queues
<1>2. Placed'
  <2>1. \A i, j \in 1 .. Len(getq') : getq'[i] = getq'[j] => i = j
    BY <1>a, <1>c, <1>e DEF Placed
  <2>2. \A i, j \in 1 .. Len(nextq') : nextq'[i] = nextq'[j] => i = j
    BY <1>a, <1>c, <1>e DEF Placed
  <2>3. \A i \in 1 .. Len(completions) :
           /\ \A j \in 1 .. Len(getq') : getq'[j] # completions[i].fut
           /\ \A j \in 1 .. Len(nextq') : nextq'[j] # completions[i].fut
    BY <1>a, <1>c, <1>e DEF Placed
  <2> QED BY <2>1, <2>2, <2>3 DEF Placed
<1>3. Waiting'
  <2> DEFINE In(q, f) == \E i \in 1 .. Len(q) : q[i] = f
             Due(f) == \E i \in 1 .. Len(completions) : completions[i].fut = f
  <2>0. \A f : /\ Queued(f) <=> In(getq, f) \/ In(nextq, f) \/ Due(f)
               /\ Queued(f)' <=> In(getq', f) \/ In(nextq', f) \/ Due(f)
    BY DEF Queued
  <2>1. ASSUME NEW q, NEW r, Grows(q, r), Len(q) \in Nat
        PROVE  \A f : In(r, f) <=> In(q, f) \/ f = n
    <3> SUFFICES ASSUME NEW f PROVE In(r, f) <=> In(q, f) \/ f = n
      OBVIOUS
    <3>1. ASSUME In(r, f) PROVE In(q, f) \/ f = n
      <4>1. PICK i \in 1 .. Len(r) : r[i] = f
        BY <3>1
      <4> QED BY <4>1, <2>1
    <3>2. ASSUME In(q, f) PROVE In(r, f)
      <4>1. PICK i \in 1 .. Len(q) : q[i] = f
        BY <3>2
      <4>2. i \in 1 .. Len(r) /\ r[i] = f
        BY <4>1, <2>1
      <4> QED BY <4>2
    <3>3. In(r, n)
      <4>1. Len(q) + 1 \in 1 .. Len(r)
        BY <2>1
      <4> QED BY <4>1, <2>1
    <3> QED BY <3>1, <3>2, <3>3
  <2>2. \A f : Queued(f)' <=> Queued(f) \/ f = n
    <3> HIDE DEF In, Due, Grows
    <3>1. CASE kind = "get"
      BY <3>1, <1>t, <1>b, <2>0, <2>1
    <3>2. CASE kind = "next"
      BY <3>2, <1>t, <1>b, <2>0, <2>1
    <3> QED BY <3>1, <3>2
  <2>3. ASSUME NEW f \in 1 .. Len(futures') PROVE Queued(f)' <=> futures'[f].ans.val = Pending
    <3>1. CASE f = n
      BY <3>1, <2>2, <1>c
    <3>2. CASE f \in 1 .. Len(futures)
      BY <3>2, <2>2, <1>c DEF Waiting, Done
    <3> QED BY <3>1, <3>2, <1>c, <1>t DEF n
  <2> QED BY <2>3 DEF Waiting, Done
<1> QED BY <1>1, <1>2, <1>3

\* get handed to the BulkEngine keeps the invariant.
LEMMA GetQueuedKeeps ==
    ASSUME IInv, NEW o \in OIDS, GetQueued(o), UNCHANGED setup
    PROVE  IInv'
<1> USE DEF GetQueued
<1>1. NewFuture("get", o, NotDone(o)) /\ UNCHANGED <<setup, result, cols, newcols, completions, pc>>
  OBVIOUS
<1>2. /\ Grown("get", o, NotDone(o))
      /\ FuturesRight' /\ CompletionsRight' /\ AtRest' /\ RowsRight' /\ Called'
  BY <1>1, NewFutureKeeps
<1>3. Queues' /\ Placed' /\ Waiting'
  BY <1>2, QueueGrows
<1>4. Noted'
  BY <1>2, GrownNoted
<1>5. Shapes'
  BY <1>2, SamePending, GrownShapes DEF IInv
<1>6. CacheRight'
  BY DEF IInv, CacheRight
<1> QED BY <1>2, <1>3, <1>4, <1>5, <1>6 DEF IInv

\* So does getnext, which is noted as it is queued.
LEMMA NextQueuedKeeps ==
    ASSUME IInv, NEW o \in OIDS, NextQueued(o), UNCHANGED setup
    PROVE  IInv'
<1> USE DEF NextQueued
<1> DEFINE a == NotDone(o)
           n == Len(futures) + 1
<1>1. NewFuture("next", o, a) /\ UNCHANGED <<setup, result, cols, newcols, completions, pc>>
  OBVIOUS
<1>2. /\ Grown("next", o, a)
      /\ FuturesRight' /\ CompletionsRight' /\ AtRest' /\ RowsRight' /\ Called'
  BY <1>1, NewFutureKeeps
<1>3. Queues' /\ Placed' /\ Waiting'
  BY <1>2, QueueGrows
<1>4. /\ DOMAIN pendingnext' \subseteq OIDS
      /\ pendingnext' \in [DOMAIN pendingnext' -> 1 .. Len(futures')]
      /\ \A p \in DOMAIN pendingnext' :
            futures'[pendingnext'[p]].kind = "next" /\ futures'[pendingnext'[p]].oid = p
      /\ \A p \in DOMAIN pendingnext :
            p \in DOMAIN pendingnext' /\ pendingnext'[p] = pendingnext[p]
  <2>1. pendingnext' \in {pendingnext, With(pendingnext, o, Len(futures) + 1),
                          Without(With(pendingnext, o, Len(futures) + 1), o, a)}
    OBVIOUS
  <2> HIDE DEF a
  <2> QED BY <1>2, <2>1, WithNoted
<1>5. Noted'
  <2>1. /\ \A i \in 1 .. Len(nextq) : futures'[nextq[i]] = futures[nextq[i]]
        /\ \A i \in 1 .. Len(completions) :
              futures'[completions[i].fut] = futures[completions[i].fut]
        /\ Len(nextq) \in Nat /\ nextq \in Seq(1 .. Len(futures))
    BY <1>2, Elements DEF Grown, IInv, Shapes
  <2>2. futures'[n].oid = o
    BY <1>2 DEF Grown
  <2>3. Caching => o \in DOMAIN pendingnext' /\ pendingnext'[o] = n
    BY DEF With
  <2>4. /\ Len(nextq') = Len(nextq) + 1 /\ nextq'[Len(nextq) + 1] = n
        /\ \A i \in 1 .. Len(nextq) : nextq'[i] = nextq[i]
    BY <2>1
  <2> HIDE DEF n
  <2>5. ASSUME Caching, NEW i \in 1 .. Len(nextq')
        PROVE  /\ futures'[nextq'[i]].oid \in DOMAIN pendingnext'
               /\ pendingnext'[futures'[nextq'[i]].oid] = nextq'[i]
    <3>1. CASE i = Len(nextq) + 1
      BY <3>1, <2>2, <2>3, <2>4, <2>5
    <3>2. CASE i \in 1 .. Len(nextq)
      BY <3>2, <2>1, <2>4, <2>5, <1>4 DEF IInv, Noted, OidOf
    <3> QED BY <3>1, <3>2, <2>1, <2>4
  <2>6. ASSUME Caching, NEW i \in 1 .. Len(completions), futures'[completions[i].fut].kind = "next"
        PROVE  /\ futures'[completions[i].fut].oid \in DOMAIN pendingnext'
               /\ pendingnext'[futures'[completions[i].fut].oid] = completions[i].fut
    BY <2>1, <2>6, <1>4, SMTT(30) DEF IInv, Noted, OidOf
  <2>7. Caching' = Caching
    BY DEF Caching
  <2> QED BY <2>5, <2>6, <2>7, <1>1, <1>4 DEF Noted, OidOf
<1>6. Shapes'
  BY <1>2, <1>4, GrownShapes DEF IInv
<1>7. CacheRight'
  BY DEF IInv, CacheRight
<1> QED BY <1>2, <1>3, <1>5, <1>6, <1>7 DEF IInv

-----------------------------------------------------------------------------
(* Steps.                                                                    *)

\* Head and Tail of a list, element by element.
LEMMA TailIs ==
    ASSUME NEW S, NEW q \in Seq(S), q # << >>
    PROVE  /\ Tail(q) \in Seq(S) /\ Len(q) \in Nat /\ Len(q) >= 1 /\ Len(Tail(q)) = Len(q) - 1
           /\ \A i \in 1 .. Len(Tail(q)) : Tail(q)[i] = q[i + 1] /\ i + 1 \in 1 .. Len(q)
           /\ Head(q) = q[1] /\ q[1] \in S
OBVIOUS

\* A list of one element.
LEMMA Single ==
    ASSUME NEW S, NEW q \in Seq(S), Len(q) = 1
    PROVE  q # << >> /\ Head(q) = q[1] /\ Tail(q) = << >> /\ 1 \in 1 .. Len(q)
<1>1. q # << >>
  OBVIOUS
<1>2. Tail(q) \in Seq(S) /\ Len(Tail(q)) = 0
  BY <1>1, TailIs
<1>3. Tail(q) = << >>
  BY <1>2, EmptySeq
<1>4. Head(q) = q[1]
  BY <1>1, TailIs
<1>5. 1 \in 1 .. Len(q)
  OBVIOUS
<1> QED BY <1>1, <1>3, <1>4, <1>5

\* The first future of a queue goes to the completions, with its answer.
Moves(kind, f, a) ==
    /\ \/ kind = "get" /\ getq # << >> /\ f = Head(getq) /\ getq' = Tail(getq) /\ nextq' = nextq
       \/ kind = "next" /\ nextq # << >> /\ f = Head(nextq) /\ nextq' = Tail(nextq) /\ getq' = getq
    /\ completions' = Append(completions, [fut |-> f, ans |-> a])
    /\ UNCHANGED <<setup, pendingnext, futures, calls>>

\* Taking the first future of a queue to the completions loses none and
\* duplicates none, and keeps pendingnext right.
LEMMA MovesKeeps ==
    ASSUME IInv, NEW kind, NEW f, NEW a, Moves(kind, f, a),
           Right(MayFail, kind, futures[f].oid, a)
    PROVE  /\ getq' \in Seq(1 .. Len(futures')) /\ nextq' \in Seq(1 .. Len(futures'))
           /\ completions' \in Seq([fut : 1 .. Len(futures'), ans : AnyAnswer])
           /\ \A i \in 1 .. Len(getq') : futures'[getq'[i]].kind = "get"
           /\ \A i \in 1 .. Len(nextq') : futures'[nextq'[i]].kind = "next"
           /\ FuturesRight' /\ CompletionsRight' /\ Placed' /\ Waiting' /\ Noted' /\ Called'
<1> USE DEF IInv
<1> DEFINE n == Len(completions)
           d == IF kind = "get" THEN 1 ELSE 0
           C == [fut : 1 .. Len(futures), ans : AnyAnswer]
           c == [fut |-> f, ans |-> a]
<1>t. /\ Len(getq) \in Nat /\ Len(nextq) \in Nat /\ Len(futures) \in Nat /\ n \in Nat
      /\ getq \in Seq(1 .. Len(futures)) /\ nextq \in Seq(1 .. Len(futures))
      /\ completions \in Seq(C)
  BY Elements DEF Shapes
<1>a. /\ \A i \in 1 .. Len(getq) : getq[i] \in 1 .. Len(futures)
      /\ \A i \in 1 .. Len(nextq) : nextq[i] \in 1 .. Len(futures)
      /\ \A i \in 1 .. n : completions[i].fut \in 1 .. Len(futures)
      /\ \A i \in 1 .. Len(futures) : futures[i].oid \in Oid
  BY Elements
<1>u. setup' = setup /\ pendingnext' = pendingnext /\ futures' = futures /\ calls' = calls
  BY DEF Moves
<1>b. d \in 0 .. 1 /\ (d = 1 <=> kind = "get")
  OBVIOUS
<1>c. /\ kind \in {"get", "next"}
      /\ getq' \in Seq(1 .. Len(futures)) /\ nextq' \in Seq(1 .. Len(futures))
      /\ Len(getq') = Len(getq) - d /\ Len(nextq') = Len(nextq) - (1 - d)
      /\ \A i \in 1 .. Len(getq') : getq'[i] = getq[i + d]
      /\ \A i \in 1 .. Len(nextq') : nextq'[i] = nextq[i + (1 - d)]
      /\ kind = "get" => Len(getq) >= 1 /\ f = getq[1]
      /\ kind = "next" => Len(nextq) >= 1 /\ f = nextq[1]
  <2> DEFINE S == 1 .. Len(futures)
  <2>0. \A q \in Seq(S) : \A i \in 1 .. Len(q) : q[i] = q[i + 0]
    OBVIOUS
  <2>1. CASE kind = "get"
    <3>1. getq # << >> /\ f = Head(getq) /\ getq' = Tail(getq) /\ nextq' = nextq
      BY <2>1 DEF Moves
    <3>2. d = 1 /\ 1 - d = 0
      BY <2>1
    <3> HIDE DEF d, S
    <3>3. getq \in Seq(S) /\ nextq \in Seq(S)
      BY <1>t DEF S
    <3>4. /\ getq' \in Seq(S) /\ Len(getq') = Len(getq) - 1 /\ f = getq[1] /\ Len(getq) >= 1
          /\ \A i \in 1 .. Len(getq') : getq'[i] = getq[i + 1]
      BY <3>1, <3>3, TailIs
    <3> QED BY <2>0, <2>1, <3>1, <3>2, <3>3, <3>4, <1>t DEF S
  <2>2. CASE kind = "next"
    <3>1. nextq # << >> /\ f = Head(nextq) /\ nextq' = Tail(nextq) /\ getq' = getq
      BY <2>2 DEF Moves
    <3>2. d = 0 /\ 1 - d = 1
      BY <2>2
    <3> HIDE DEF d, S
    <3>3. getq \in Seq(S) /\ nextq \in Seq(S)
      BY <1>t DEF S
    <3>4. /\ nextq' \in Seq(S) /\ Len(nextq') = Len(nextq) - 1 /\ f = nextq[1] /\ Len(nextq) >= 1
          /\ \A i \in 1 .. Len(nextq') : nextq'[i] = nextq[i + 1]
      BY <3>1, <3>3, TailIs
    <3> QED BY <2>0, <2>2, <3>1, <3>2, <3>3, <3>4, <1>t DEF S
  <2> QED BY <2>1, <2>2 DEF Moves
<1> HIDE DEF d
<1>f. f \in 1 .. Len(futures) /\ futures[f].kind = kind
  <2>1. CASE kind = "get"
    <3>1. f = getq[1] /\ 1 \in 1 .. Len(getq)
      BY <2>1, <1>c
    <3>2. getq[1] \in 1 .. Len(futures)
      BY <3>1, <1>t
    <3>3. futures[getq[1]].kind = "get"
      BY <3>1 DEF Queues
    <3> QED BY <2>1, <3>1, <3>2, <3>3
  <2>2. CASE kind = "next"
    <3>1. f = nextq[1] /\ 1 \in 1 .. Len(nextq)
      BY <2>2, <1>c
    <3>2. nextq[1] \in 1 .. Len(futures)
      BY <3>1, <1>t
    <3>3. futures[nextq[1]].kind = "next"
      BY <3>1 DEF Queues
    <3> QED BY <2>2, <3>1, <3>2, <3>3
  <2> QED BY <2>1, <2>2, <1>c
<1>g. c \in C /\ completions' = Append(completions, c)
  BY <1>a, <1>f, RightTyped DEF Moves
<1>h. /\ completions' \in Seq(C) /\ Len(completions') = n + 1 /\ completions'[n + 1] = c
      /\ \A i \in 1 .. n : completions'[i] = completions[i]
  <2> HIDE DEF c, C
  <2> QED BY <1>g, <1>t
<1>i. \A i \in 1 .. Len(completions') :
         \/ (i \in 1 .. n /\ completions'[i] = completions[i])
         \/ (i = n + 1 /\ completions'[i].fut = f /\ completions'[i].ans = a)
  BY <1>h, <1>t
<1>j. /\ \A i \in 1 .. Len(getq') : i + d \in 1 .. Len(getq) /\ getq'[i] = getq[i + d]
      /\ \A i \in 1 .. Len(nextq') :
            i + (1 - d) \in 1 .. Len(nextq) /\ nextq'[i] = nextq[i + (1 - d)]
  BY <1>b, <1>c, <1>t
<1> HIDE DEF C, c, n
<1>1. /\ \A i \in 1 .. Len(getq') : futures[getq'[i]].kind = "get"
      /\ \A i \in 1 .. Len(nextq') : futures[nextq'[i]].kind = "next"
  BY <1>j DEF Queues
<1>2. FuturesRight' /\ Called'
  BY <1>u DEF FuturesRight, Called, MayFail
<1>3. CompletionsRight'
  <2>1. MayFail' = MayFail
    BY <1>u DEF MayFail
  <2> SUFFICES ASSUME NEW i \in 1 .. Len(completions')
               PROVE  Right(MayFail, futures[completions'[i].fut].kind,
                            futures[completions'[i].fut].oid, completions'[i].ans)
    BY <2>1, <1>u DEF CompletionsRight
  <2>2. CASE i \in 1 .. n /\ completions'[i] = completions[i]
    BY <2>2 DEF CompletionsRight, n
  <2>3. CASE completions'[i].fut = f /\ completions'[i].ans = a
    BY <2>3, <1>f
  <2> QED BY <1>i, <2>2, <2>3
<1>4. Placed'
  <2>1. \A i, j \in 1 .. Len(getq') : getq'[i] = getq'[j] => i = j
    <3> SUFFICES ASSUME NEW i \in 1 .. Len(getq'), NEW j \in 1 .. Len(getq'), getq'[i] = getq'[j]
                 PROVE  i = j
      OBVIOUS
    <3>1. i + d = j + d
      BY <1>j DEF Placed
    <3> QED BY <3>1, <1>b
  <2>2. \A i, j \in 1 .. Len(nextq') : nextq'[i] = nextq'[j] => i = j
    <3> SUFFICES ASSUME NEW i \in 1 .. Len(nextq'), NEW j \in 1 .. Len(nextq'), nextq'[i] = nextq'[j]
                 PROVE  i = j
      OBVIOUS
    <3>1. i + (1 - d) = j + (1 - d)
      BY <1>j DEF Placed
    <3> QED BY <3>1, <1>b
  <2>3. \A i \in 1 .. n : completions[i].fut # f
    <3>1. \/ 1 \in 1 .. Len(getq) /\ f = getq[1]
          \/ 1 \in 1 .. Len(nextq) /\ f = nextq[1]
      BY <1>c, <1>t
    <3> QED BY <3>1 DEF Placed, n
  <2>4. \A i, j \in 1 .. Len(completions') : completions'[i].fut = completions'[j].fut => i = j
    BY <1>i, <2>3 DEF Placed, n
  <2>5. \A j \in 1 .. Len(getq') : getq'[j] # f
    <3> SUFFICES ASSUME NEW j \in 1 .. Len(getq'), getq'[j] = f PROVE FALSE
      OBVIOUS
    <3>1. CASE kind = "get"
      <4>1. j + 1 \in 1 .. Len(getq) /\ getq[j + 1] = getq[1] /\ 1 \in 1 .. Len(getq)
        BY <3>1, <1>b, <1>c, <1>j, <1>t, SMTT(30)
      <4>2. j + 1 = 1
        BY <4>1 DEF Placed
      <4> QED BY <4>2
    <3>2. CASE kind = "next"
      BY <3>2, <1>f, <1>1
    <3> QED BY <3>1, <3>2, <1>c
  <2>6. \A j \in 1 .. Len(nextq') : nextq'[j] # f
    <3> SUFFICES ASSUME NEW j \in 1 .. Len(nextq'), nextq'[j] = f PROVE FALSE
      OBVIOUS
    <3>1. CASE kind = "next"
      <4>1. j + 1 \in 1 .. Len(nextq) /\ nextq[j + 1] = nextq[1] /\ 1 \in 1 .. Len(nextq)
        BY <3>1, <1>b, <1>c, <1>j, <1>t
      <4>2. j + 1 = 1
        BY <4>1 DEF Placed
      <4> QED BY <4>2
    <3>2. CASE kind = "get"
      BY <3>2, <1>f, <1>1
    <3> QED BY <3>1, <3>2, <1>c
  <2>7. ASSUME NEW i \in 1 .. Len(completions')
        PROVE  /\ \A j \in 1 .. Len(getq') : getq'[j] # completions'[i].fut
               /\ \A j \in 1 .. Len(nextq') : nextq'[j] # completions'[i].fut
    <3>1. CASE i \in 1 .. n /\ completions'[i] = completions[i]
      BY <3>1, <1>j, SMTT(30) DEF Placed, n
    <3>2. CASE completions'[i].fut = f
      BY <3>2, <2>5, <2>6
    <3> QED BY <3>1, <3>2, <1>i
  <2> QED BY <2>1, <2>2, <2>4, <2>7 DEF Placed
<1>5. Waiting'
  <2> DEFINE In(q, g) == \E i \in 1 .. Len(q) : q[i] = g
             Due(g)  == \E i \in 1 .. Len(completions) : completions[i].fut = g
             Due2(g) == \E i \in 1 .. Len(completions') : completions'[i].fut = g
  <2>0. \A g : /\ Queued(g) <=> In(getq, g) \/ In(nextq, g) \/ Due(g)
               /\ Queued(g)' <=> In(getq', g) \/ In(nextq', g) \/ Due2(g)
    BY DEF Queued
  <2>1. ASSUME NEW q, NEW r, NEW e \in 0 .. 1, Len(q) \in Nat, Len(r) = Len(q) - e,
               \A i \in 1 .. Len(r) : r[i] = q[i + e]
        PROVE  \A g : In(q, g) <=> In(r, g) \/ (e = 1 /\ Len(q) >= 1 /\ g = q[1])
    <3> SUFFICES ASSUME NEW g
                 PROVE  In(q, g) <=> In(r, g) \/ (e = 1 /\ Len(q) >= 1 /\ g = q[1])
      OBVIOUS
    <3>1. ASSUME In(q, g) PROVE In(r, g) \/ (e = 1 /\ Len(q) >= 1 /\ g = q[1])
      <4>1. PICK i \in 1 .. Len(q) : q[i] = g
        BY <3>1
      <4>2. CASE i - e \in 1 .. Len(r)
        <5>1. r[i - e] = q[(i - e) + e] /\ (i - e) + e = i
          BY <4>2, <2>1
        <5> QED BY <4>1, <4>2, <5>1
      <4>3. CASE i - e \notin 1 .. Len(r)
        BY <4>1, <4>3, <2>1
      <4> QED BY <4>2, <4>3
    <3>2. ASSUME In(r, g) PROVE In(q, g)
      <4>1. PICK i \in 1 .. Len(r) : r[i] = g
        BY <3>2
      <4>2. i + e \in 1 .. Len(q) /\ q[i + e] = g
        BY <4>1, <2>1
      <4> QED BY <4>2
    <3>3. ASSUME Len(q) >= 1 PROVE In(q, q[1])
      <4>1. 1 \in 1 .. Len(q)
        BY <3>3, <2>1
      <4> QED BY <4>1
    <3> QED BY <3>1, <3>2, <3>3
  <2>2. \A g : Due2(g) <=> Due(g) \/ g = f
    <3>1. \A g : Due2(g) => Due(g) \/ g = f
      BY <1>i DEF n
    <3>2. \A g : Due(g) => Due2(g)
      <4> SUFFICES ASSUME NEW i \in 1 .. n PROVE Due2(completions[i].fut)
        BY DEF n
      <4>1. i \in 1 .. Len(completions') /\ completions'[i] = completions[i]
        BY <1>h, <1>t
      <4> QED BY <4>1
    <3>3. Due2(f)
      <4>1. n + 1 \in 1 .. Len(completions') /\ completions'[n + 1].fut = f
        BY <1>h, <1>t DEF c
      <4> QED BY <4>1
    <3> QED BY <3>1, <3>2, <3>3
  <2>3. \A g : In(getq, g) <=> In(getq', g) \/ (d = 1 /\ Len(getq) >= 1 /\ g = getq[1])
    <3> HIDE DEF In
    <3> QED BY <2>1, <1>b, <1>c, <1>t
  <2>4. \A g : In(nextq, g) <=> In(nextq', g) \/ (1 - d = 1 /\ Len(nextq) >= 1 /\ g = nextq[1])
    <3> HIDE DEF In
    <3>1. 1 - d \in 0 .. 1
      BY <1>b
    <3> QED BY <2>1, <3>1, <1>c, <1>t, ZenonT(30)
  <2>5. \A g : Queued(g)' <=> Queued(g)
    <3> HIDE DEF In, Due, Due2
    <3>1. CASE kind = "get"
      <4>1. d = 1 /\ 1 - d # 1 /\ Len(getq) >= 1 /\ f = getq[1]
        BY <3>1, <1>b, <1>c
      <4> QED BY <4>1, <2>0, <2>2, <2>3, <2>4
    <3>2. CASE kind = "next"
      <4>1. d # 1 /\ 1 - d = 1 /\ Len(nextq) >= 1 /\ f = nextq[1]
        BY <3>2, <1>b, <1>c
      <4> QED BY <4>1, <2>0, <2>2, <2>3, <2>4
    <3> QED BY <3>1, <3>2, <1>c
  <2> QED BY <2>5, <1>u DEF Waiting, Done
<1>6. Noted'
  <2>1. Caching' = Caching
    BY <1>u DEF Caching
  <2>2. ASSUME Caching, NEW i \in 1 .. Len(completions'), futures[completions'[i].fut].kind = "next"
        PROVE  /\ futures[completions'[i].fut].oid \in DOMAIN pendingnext
               /\ pendingnext[futures[completions'[i].fut].oid] = completions'[i].fut
    <3>1. CASE i \in 1 .. n /\ completions'[i] = completions[i]
      BY <3>1, <2>2 DEF Noted, OidOf, n
    <3>2. CASE completions'[i].fut = f
      <4>1. 1 \in 1 .. Len(nextq) /\ f = nextq[1]
        BY <3>2, <2>2, <1>c, <1>f, <1>t
      <4> QED BY <3>2, <4>1, <2>2 DEF Noted, OidOf
    <3> QED BY <3>1, <3>2, <1>i
  <2>3. ASSUME Caching, NEW i \in 1 .. Len(nextq')
        PROVE  /\ futures[nextq'[i]].oid \in DOMAIN pendingnext
               /\ pendingnext[futures[nextq'[i]].oid] = nextq'[i]
    BY <2>3, <1>j DEF Noted, OidOf
  <2> QED BY <2>1, <2>2, <2>3, <1>u DEF Noted, OidOf
<1> QED BY <1>c, <1>h, <1>1, <1>2, <1>3, <1>4, <1>5, <1>6, <1>u DEF C

\* Steps that only move on, with the queues and futures as they are.
LEMMA PassesOn ==
    ASSUME IInv, UNCHANGED <<setup, cache, pendingnext, futures, calls, getq, nextq, completions>>
    PROVE  /\ FuturesRight' /\ CompletionsRight' /\ CacheRight' /\ Placed' /\ Waiting'
           /\ Noted' /\ Called'
           /\ \A i \in 1 .. Len(getq') : futures'[getq'[i]].kind = "get"
           /\ \A i \in 1 .. Len(nextq') : futures'[nextq'[i]].kind = "next"
<1> USE DEF IInv
<1>1. FuturesRight' /\ CompletionsRight' /\ CacheRight' /\ Called'
  BY DEF FuturesRight, CompletionsRight, CacheRight, MayFail, Called
<1>2. Placed' /\ Waiting'
  BY DEF Placed, Waiting, Queued, Done
<1>3. Noted'
  BY DEF Noted, OidOf, Caching
<1> QED BY <1>1, <1>2, <1>3 DEF Queues

\* A step that finds nothing to do, one that returns and one that raises
\* keep the invariant.
LEMMA IdleStepsKeep ==
    ASSUME IInv, StepNothing \/ StepReturns \/ StepBulkFails, UNCHANGED setup
    PROVE  IInv'
<1> USE DEF IInv, StepNothing, StepReturns, StepBulkFails, engineVars
<1>1. /\ UNCHANGED <<setup, cache, pendingnext, futures, calls, getq, nextq, completions>>
      /\ UNCHANGED <<result, cols, newcols>>
      /\ pc \in {"idle", "collected", "signalling"}
      /\ pc' \in {"idle", "crashed"} /\ workleft' \in BOOLEAN /\ completions = << >>
  BY DEF AtRest, HasWork, Shapes
<1>2. Quiet
  BY <1>1 DEF AtRest
<1>3. Shapes'
  BY <1>1 DEF Shapes
<1>4. AtRest' /\ RowsRight'
  BY <1>1, <1>2 DEF AtRest, Quiet, RowsRight
<1>5. Queues'
  BY <1>1, PassesOn DEF Queues
<1> QED BY <1>1, <1>3, <1>4, <1>5, PassesOn

\* The end of the loop over the gets keeps the invariant.
LEMMA GetsTakenKeeps ==
    ASSUME IInv, GetsTaken, UNCHANGED setup
    PROVE  IInv'
<1> USE DEF IInv, GetsTaken, engineVars
<1>1. /\ UNCHANGED <<setup, cache, pendingnext, futures, calls, getq, nextq, completions>>
      /\ UNCHANGED <<result, cols, newcols, workleft>>
      /\ pc = "gets" /\ pc' = "first" /\ (result = << >> \/ getq = << >>)
  OBVIOUS
<1>2. Shapes'
  BY <1>1 DEF Shapes
<1>3. AtRest'
  BY <1>1 DEF AtRest
<1>4. Queues'
  BY <1>1 DEF Queues, OidOf
<1>5. RowsRight'
  <2>1. CASE result = << >>
    BY <1>1, <2>1 DEF RowsRight
  <2>2. CASE getq = << >>
    <3>1. GetsAsked = 0 /\ GetsAsked' = 0
      BY <1>1, <2>2 DEF GetsAsked
    <3>2. GetsLeft' = GetsLeft
      BY <1>1, <3>1 DEF GetsLeft
    <3> QED BY <1>1, <3>2 DEF RowsRight
  <2> QED BY <1>1, <2>1, <2>2
<1> QED BY <1>1, <1>2, <1>3, <1>4, <1>5, PassesOn

\* So does answering the only query there is.
LEMMA CollectedKeeps ==
    ASSUME IInv, NEW kind, NEW f, NEW a, Moves(kind, f, a),
           Right(MayFail, kind, futures[f].oid, a),
           UNCHANGED <<cache, result, cols, newcols, workleft>>, Quiet, pc' = "collected"
    PROVE  IInv'
<1> USE DEF IInv
<1>1. UNCHANGED <<setup, pendingnext, futures, calls>>
  BY DEF Moves
<1>2. Shapes'
  <2>1. /\ getq' \in Seq(1 .. Len(futures')) /\ nextq' \in Seq(1 .. Len(futures'))
        /\ completions' \in Seq([fut : 1 .. Len(futures'), ans : AnyAnswer])
    BY MovesKeeps
  <2> QED BY <1>1, <2>1 DEF Shapes
<1>3. Queues'
  BY MovesKeeps DEF Queues
<1>4. AtRest' /\ RowsRight' /\ CacheRight'
  BY DEF AtRest, Quiet, RowsRight, CacheRight
<1> QED BY <1>2, <1>3, <1>4, MovesKeeps

\* A plain GET or GETNEXT keeps the invariant.
LEMMA PlainStepsKeep ==
    ASSUME IInv, StepGet \/ StepNext, UNCHANGED setup
    PROVE  IInv'
<1> USE DEF IInv
<1>t. /\ getq \in Seq(1 .. Len(futures)) /\ nextq \in Seq(1 .. Len(futures))
      /\ \A i \in 1 .. Len(getq) : getq[i] \in 1 .. Len(futures)
      /\ \A i \in 1 .. Len(nextq) : nextq[i] \in 1 .. Len(futures)
      /\ \A f \in 1 .. Len(futures) : futures[f].oid \in Oid
  BY Elements DEF Shapes
<1>q. \A c : << c >> = Append(<< >>, c)
  OBVIOUS
<1>1. CASE StepGet
  <2> USE DEF StepGet
  <2>0. PICK a \in BackendGet(OidOf(getq[1])) : completions' = << [fut |-> getq[1], ans |-> a] >>
    BY <1>1
  <2>1. pc = "idle" /\ Len(getq) = 1
    BY <1>1 DEF OnlyGet
  <2>2. getq # << >> /\ Head(getq) = getq[1] /\ Tail(getq) = << >> /\ 1 \in 1 .. Len(getq)
    BY <2>1, <1>t, Single
  <2>3. Quiet /\ completions = << >>
    BY <2>1 DEF AtRest
  <2>4. Moves("get", getq[1], a)
    BY <1>1, <1>q, <2>0, <2>1, <2>2, <2>3 DEF Moves
  <2>5. Right(MayFail, "get", futures[getq[1]].oid, a)
    BY <1>t, <2>0, <2>2, BackendRight DEF Right, OidOf
  <2>6. UNCHANGED <<cache, result, cols, newcols, workleft>> /\ pc' = "collected"
    BY <1>1
  <2> QED BY <2>3, <2>4, <2>5, <2>6, CollectedKeeps
<1>2. CASE StepNext
  <2> USE DEF StepNext
  <2>0. PICK a \in BackendNext(OidOf(nextq[1])) : completions' = << [fut |-> nextq[1], ans |-> a] >>
    BY <1>2
  <2>1. pc = "idle" /\ Len(nextq) = 1
    BY <1>2 DEF OnlyNext
  <2>2. nextq # << >> /\ Head(nextq) = nextq[1] /\ Tail(nextq) = << >> /\ 1 \in 1 .. Len(nextq)
    BY <2>1, <1>t, Single
  <2>3. Quiet /\ completions = << >>
    BY <2>1 DEF AtRest
  <2>4. Moves("next", nextq[1], a)
    BY <1>2, <1>q, <2>0, <2>1, <2>2, <2>3 DEF Moves
  <2>5. Right(MayFail, "next", futures[nextq[1]].oid, a)
    BY <1>t, <2>0, <2>2, BackendRight DEF Right, OidOf
  <2>6. UNCHANGED <<cache, result, cols, newcols, workleft>> /\ pc' = "collected"
    BY <1>2
  <2> QED BY <2>3, <2>4, <2>5, <2>6, CollectedKeeps
<1> QED BY <1>1, <1>2

-----------------------------------------------------------------------------
(* Bulk queries.                                                             *)

\* The first n elements of a queue, as q[:n] takes them.
LEMMA FirstOfIs ==
    ASSUME NEW S, NEW q \in Seq(S), NEW n \in Nat
    PROVE  /\ FirstOf(q, n) \in Seq(S)
           /\ Len(FirstOf(q, n)) = Least(n, Len(q)) /\ Len(FirstOf(q, n)) \in 0 .. Len(q)
           /\ \A i \in 1 .. Len(FirstOf(q, n)) : FirstOf(q, n)[i] = q[i]
<1> DEFINE l == Least(n, Len(q))
<1>1. l \in 0 .. Len(q) /\ Len(q) \in Nat
  BY DEF Least
<1> HIDE DEF l
<1>2. /\ SubSeq(q, 1, l) \in Seq(S) /\ Len(SubSeq(q, 1, l)) = l
      /\ \A i \in 1 .. l : SubSeq(q, 1, l)[i] = q[i]
  BY <1>1, SubSeqProperties
<1> QED BY <1>1, <1>2 DEF FirstOf, l

\* What a bulk query asks for.
LEMMA Columns ==
    ASSUME Shapes
    PROVE  /\ Len(BulkGets) \in 0 .. Len(getq) /\ Len(BulkGets) = Least(BulkMax, Len(getq))
           /\ \A i \in 1 .. Len(BulkGets) : BulkGets[i] = getq[i]
           /\ GetColumns \in Seq(Oid) /\ Len(GetColumns) = Len(BulkGets)
           /\ \A i \in 1 .. Len(GetColumns) : GetColumns[i] = PrevOid(futures[getq[i]].oid)
           /\ NextColumns \in Seq(Oid) /\ Len(NextColumns) \in 0 .. Len(nextq)
           /\ \A i \in 1 .. Len(NextColumns) : NextColumns[i] = futures[nextq[i]].oid
           /\ Len(BulkGets) = BulkMax => NextColumns = << >>
           /\ MaxRep \in Nat
<1>t. /\ getq \in Seq(1 .. Len(futures)) /\ nextq \in Seq(1 .. Len(futures))
      /\ Len(getq) \in Nat /\ Len(nextq) \in Nat /\ BulkMax \in Nat \ {0}
  BY Elements, EngineAssumption DEF Shapes
<1>1. /\ Len(BulkGets) \in 0 .. Len(getq) /\ Len(BulkGets) = Least(BulkMax, Len(getq))
      /\ \A i \in 1 .. Len(BulkGets) : BulkGets[i] = getq[i]
      /\ BulkGets \in Seq(1 .. Len(futures))
  BY <1>t, FirstOfIs DEF BulkGets
<1>2. BulkMax - Len(BulkGets) \in Nat
  BY <1>t, <1>1 DEF Least
<1>3. /\ Len(BulkNexts) \in 0 .. Len(nextq)
      /\ Len(BulkNexts) = Least(BulkMax - Len(BulkGets), Len(nextq))
      /\ \A i \in 1 .. Len(BulkNexts) : BulkNexts[i] = nextq[i]
      /\ BulkNexts \in Seq(1 .. Len(futures))
  <2> HIDE DEF BulkGets
  <2> QED BY <1>t, <1>2, FirstOfIs DEF BulkNexts
<1>4. /\ GetColumns \in Seq(Oid) /\ Len(GetColumns) = Len(BulkGets)
      /\ \A i \in 1 .. Len(GetColumns) : GetColumns[i] = PrevOid(futures[getq[i]].oid)
  <2>1. DOMAIN BulkGets = 1 .. Len(BulkGets) /\ Len(BulkGets) \in Nat
    BY <1>1
  <2>2. GetColumns = [x \in 1 .. Len(BulkGets) |-> PrevOid(OidOf(BulkGets[x]))]
    BY <2>1 DEF GetColumns
  <2>3. \A x \in 1 .. Len(BulkGets) : /\ PrevOid(OidOf(BulkGets[x])) = PrevOid(futures[getq[x]].oid)
                                     /\ PrevOid(futures[getq[x]].oid) \in Oid
    <3> SUFFICES ASSUME NEW x \in 1 .. Len(BulkGets)
                 PROVE  /\ PrevOid(OidOf(BulkGets[x])) = PrevOid(futures[getq[x]].oid)
                        /\ PrevOid(futures[getq[x]].oid) \in Oid
      OBVIOUS
    <3>1. BulkGets[x] = getq[x] /\ x \in 1 .. Len(getq)
      BY <1>1, <1>t
    <3>2. futures[getq[x]].oid \in OIDS
      BY <3>1, Elements
    <3> QED BY <3>1, <3>2, OidsAreOids DEF OidOf
  <2> QED BY <2>1, <2>2, <2>3
<1>5. /\ NextColumns \in Seq(Oid) /\ Len(NextColumns) = Len(BulkNexts)
      /\ \A i \in 1 .. Len(NextColumns) : NextColumns[i] = futures[nextq[i]].oid
  <2>1. DOMAIN BulkNexts = 1 .. Len(BulkNexts) /\ Len(BulkNexts) \in Nat
    BY <1>3
  <2>2. NextColumns = [x \in 1 .. Len(BulkNexts) |-> OidOf(BulkNexts[x])]
    BY <2>1 DEF NextColumns
  <2>3. \A x \in 1 .. Len(BulkNexts) : /\ OidOf(BulkNexts[x]) = futures[nextq[x]].oid
                                      /\ futures[nextq[x]].oid \in Oid
    <3> SUFFICES ASSUME NEW x \in 1 .. Len(BulkNexts)
                 PROVE  /\ OidOf(BulkNexts[x]) = futures[nextq[x]].oid
                        /\ futures[nextq[x]].oid \in Oid
      OBVIOUS
    <3>1. BulkNexts[x] = nextq[x] /\ x \in 1 .. Len(nextq)
      BY <1>3, <1>t
    <3> QED BY <3>1, Elements DEF OidOf
  <2> QED BY <2>1, <2>2, <2>3
<1>6. Len(BulkGets) = BulkMax => NextColumns = << >>
  <2> HIDE DEF BulkGets, BulkNexts, NextColumns
  <2>1. Len(BulkGets) = BulkMax => Len(NextColumns) = 0
    BY <1>t, <1>3, <1>5 DEF Least
  <2> QED BY <2>1, <1>5
<1>7. MaxRep \in Nat
  <2>1. setup.bulk \in Nat \cup {-1}
    BY EngineAssumption DEF Shapes
  <2> QED BY <2>1 DEF MaxRep, Lookahead
<1> HIDE DEF BulkGets, BulkNexts, NextColumns, GetColumns, MaxRep
<1> QED BY <1>1, <1>3, <1>4, <1>5, <1>6, <1>7

\* Building a bulk query keeps the invariant.
LEMMA StepBulkKeeps ==
    ASSUME IInv, StepBulk, UNCHANGED setup
    PROVE  IInv'
<1> USE DEF IInv
<1>1. /\ UNCHANGED <<setup, cache, pendingnext, futures, calls, getq, nextq, completions>>
      /\ UNCHANGED <<result, newcols, workleft>>
      /\ pc = "idle" /\ pc' = "asking" /\ cols' = NextColumns
  BY DEF StepBulk
<1>2. result = << >> /\ newcols = << >> /\ completions = << >>
  BY <1>1 DEF AtRest, Quiet
<1>3. Shapes'
  BY <1>1, Columns DEF Shapes
<1>4. AtRest'
  BY <1>1, <1>2 DEF AtRest
<1>5. Queues'
  <2>1. Len(cols') <= Len(nextq')
    <3>1. Len(NextColumns) \in 0 .. Len(nextq) /\ Len(nextq) \in Nat
      BY Columns, Elements
    <3> HIDE DEF NextColumns
    <3> QED BY <1>1, <3>1
  <2>2. \A y \in 1 .. Len(cols') : cols'[y] = futures'[nextq'[y]].oid
    BY <1>1, Columns
  <2>3. /\ \A i \in 1 .. Len(getq') : futures'[getq'[i]].kind = "get"
        /\ \A i \in 1 .. Len(nextq') : futures'[nextq'[i]].kind = "next"
    BY <1>1, PassesOn
  <2> QED BY <2>1, <2>2, <2>3 DEF Queues, OidOf
<1>6. RowsRight'
  <2>1. NextColumns' = NextColumns /\ GetColumns' = GetColumns /\ MaxRep' = MaxRep
    BY <1>1 DEF NextColumns, GetColumns, BulkNexts, BulkGets, OidOf, MaxRep, Caching, Lookahead
  <2>2. BulkSize' \in Nat
    <3> DEFINE x == Len(GetColumns)
               y == Len(NextColumns)
    <3>1. x \in Nat /\ y \in Nat /\ MaxRep \in Nat
      BY Columns
    <3>2. BulkSize' = x + MaxRep * y
      BY <1>1, <2>1 DEF BulkSize
    <3> HIDE DEF x, y, MaxRep
    <3>3. MaxRep * y \in Nat
      BY <3>1
    <3> QED BY <3>1, <3>2, <3>3
  <2>3. Len(result') = 0
    BY <1>1, <1>2
  <2> QED BY <1>1, <2>1, <2>2, <2>3 DEF RowsRight
<1> QED BY <1>1, <1>3, <1>4, <1>5, <1>6, PassesOn

\* What the gets still to be answered were asked after.
LEMMA Lefts ==
    ASSUME Shapes
    PROVE  /\ GetsLeft \in Seq(Oid) /\ Len(GetsLeft) = GetsAsked /\ GetsAsked \in 0 .. Len(getq)
           /\ \A x \in 1 .. Len(GetsLeft) :
                 GetsLeft[x] = PrevOid(futures[getq[x]].oid) /\ GetsLeft[x] \in Oid
           /\ pc = "asking" => GetsLeft = GetColumns
<1>1. GetsAsked \in 0 .. Len(getq) /\ Len(getq) \in Nat
  BY Columns, Elements DEF GetsAsked
<1>2. \A x \in 1 .. GetsAsked : PrevOid(futures[getq[x]].oid) \in Oid
  BY <1>1, Elements, OidsAreOids
<1>3. pc = "asking" => GetsAsked = Len(GetColumns)
  BY Columns DEF GetsAsked
<1> HIDE DEF GetsAsked
<1>4. /\ GetsLeft \in Seq(Oid) /\ Len(GetsLeft) = GetsAsked
      /\ \A x \in 1 .. Len(GetsLeft) :
            GetsLeft[x] = PrevOid(futures[getq[x]].oid) /\ GetsLeft[x] \in Oid
  BY <1>1, <1>2 DEF GetsLeft
<1>5. pc = "asking" => GetsLeft = GetColumns
  <2>1. /\ GetColumns \in Seq(Oid)
        /\ \A i \in 1 .. Len(GetColumns) : GetColumns[i] = PrevOid(futures[getq[i]].oid)
    BY Columns
  <2> HIDE DEF GetColumns, GetsLeft
  <2> QED BY <2>1, <1>3, <1>4, SeqEqual
<1> QED BY <1>1, <1>4, <1>5

\* One more binding does not change what those up to it were asked after.
LEMMA SourceOfMore ==
    ASSUME NEW G \in Seq(Oid), NEW r \in Seq(Oid), NEW R \in Seq(AnyAnswer), NEW b,
           NEW i \in 1 .. Len(R) + 1, r = << >> => Len(R) < Len(G)
    PROVE  /\ Source(G, r, << >>, Append(R, b), i) = Source(G, r, << >>, R, i)
           /\ Source(G, r, << >>, R, i) \in Oid
           /\ Source(G, r, << >>, R, i) = IF i - Len(G) <= 0 THEN G[i]
                                          ELSE IF i - Len(G) <= Len(r) THEN r[i - Len(G)]
                                          ELSE R[i - Len(r)].oid
<1> DEFINE g == Len(G)
           k == Len(r)
           l == Len(R)
           e == << >>
           B == Append(R, b)
<1>t. g \in Nat /\ k \in Nat /\ l \in Nat /\ Len(e) = 0
  OBVIOUS
<1>1. i - g > k => i - k \in 1 .. l /\ R[i - k].oid \in Oid /\ B[i - k] = R[i - k]
  <2> SUFFICES ASSUME i - g > k
               PROVE  i - k \in 1 .. l /\ R[i - k].oid \in Oid /\ B[i - k] = R[i - k]
    OBVIOUS
  <2>1. k # 0
    BY EmptySeq
  <2>2. i - k \in 1 .. l
    <3> HIDE DEF g, k
    <3> QED BY <1>t, <2>1
  <2>3. R[i - k] \in AnyAnswer /\ B[i - k] = R[i - k]
    BY <2>2
  <2> QED BY <2>2, <2>3 DEF AnyAnswer
<1>2. /\ i - g <= 0 => i \in 1 .. g /\ G[i] \in Oid
      /\ i - g > 0 /\ i - g <= k => i - g \in 1 .. k /\ r[i - g] \in Oid
  BY <1>t
<1>3. \A X : Source(G, r, e, X, i) = IF i - g <= 0 THEN G[i]
                                      ELSE IF i - g <= k THEN r[i - g]
                                      ELSE X[i - k].oid
  <2>1. k + Len(e) = k /\ i - k - Len(e) = i - k
    BY <1>t
  <2> HIDE DEF e
  <2> QED BY <2>1, <1>t DEF Source
<1> HIDE DEF g, k, l, B, e
<1>5. /\ Source(G, r, e, B, i) = Source(G, r, e, R, i)
      /\ Source(G, r, e, R, i) \in Oid
  <2>1. CASE i - g <= 0
    BY <2>1, <1>2, <1>3, Zenon
  <2>2. CASE ~ (i - g <= 0) /\ i - g <= k
    <3>1. i - g > 0
      BY <2>2, <1>t
    <3> QED BY <2>2, <3>1, <1>2, <1>3, Zenon
  <2>3. CASE ~ (i - g <= 0) /\ ~ (i - g <= k)
    <3>1. i - g > k
      BY <2>3, <1>t
    <3> QED BY <2>3, <3>1, <1>1, <1>3, Zenon
  <2> QED BY <2>1, <2>2, <2>3
<1> USE DEF B
<1> QED BY <1>3, <1>5 DEF e, g, k

\* One more binding of the answer keeps the invariant.
LEMMA BulkBindsKeeps ==
    ASSUME IInv, BulkBinds, UNCHANGED setup
    PROVE  IInv'
<1> USE DEF IInv
<1> DEFINE l == Len(result)
           g == Len(GetColumns)
           k == Len(cols)
           b == AgentNext(BulkColumn(l + 1))
<1>1. /\ UNCHANGED <<setup, cache, pendingnext, futures, calls, getq, nextq, completions>>
      /\ UNCHANGED <<cols, newcols, pc, workleft>>
      /\ pc = "asking" /\ l < BulkSize /\ result' = Append(result, b)
  BY DEF BulkBinds
<1>2. newcols = << >> /\ cols = NextColumns /\ GetsLeft = GetColumns
  BY <1>1, Lefts DEF AtRest, RowsRight
<1>t. /\ l \in Nat /\ k \in Nat /\ g \in Nat /\ MaxRep \in Nat
      /\ GetColumns \in Seq(Oid) /\ cols \in Seq(Oid) /\ result \in Seq(AnyAnswer)
  BY Columns, Elements DEF Shapes
<1>b. BulkSize \in Nat /\ (cols = << >> => l < g)
  <2>1. BulkSize = g + MaxRep * k
    BY DEF BulkSize
  <2>2. cols = << >> => k = 0
    BY EmptySeq
  <2> HIDE DEF l, g, k, MaxRep
  <2>3. MaxRep * k \in Nat /\ (k = 0 => MaxRep * k = 0)
    BY <1>t
  <2> HIDE DEF BulkSize
  <2> QED BY <1>1, <1>t, <2>1, <2>2, <2>3
<1>3. ASSUME NEW i \in 1 .. l + 1
      PROVE  /\ Source(GetColumns, cols, << >>, result', i) = Source(GetColumns, cols, << >>, result, i)
             /\ Source(GetColumns, cols, << >>, result, i) \in Oid
             /\ i = l + 1 => Source(GetColumns, cols, << >>, result, i) = BulkColumn(i)
  <2>0. result' = Append(result, b) /\ i \in 1 .. Len(result) + 1
    BY <1>1
  <2> HIDE DEF b, GetColumns
  <2>1. /\ Source(GetColumns, cols, << >>, result', i) = Source(GetColumns, cols, << >>, result, i)
        /\ Source(GetColumns, cols, << >>, result, i) \in Oid
        /\ Source(GetColumns, cols, << >>, result, i)
              = IF i - Len(GetColumns) <= 0 THEN GetColumns[i]
                ELSE IF i - Len(GetColumns) <= Len(cols) THEN cols[i - Len(GetColumns)]
                ELSE result[i - Len(cols)].oid
    BY <2>0, <1>t, <1>b, SourceOfMore
  <2> QED BY <2>1 DEF BulkColumn
<1>4. Follows(BulkColumn(l + 1), b) /\ b \in AnyAnswer
  <2>1. l + 1 \in 1 .. l + 1
    BY <1>t
  <2>2. BulkColumn(l + 1) \in Oid
    BY <1>3, <2>1
  <2> QED BY <2>2, AgentNextFollows, FollowsTyped
<1>5. /\ result' \in Seq(AnyAnswer) /\ Len(result') = l + 1 /\ result'[l + 1] = b
      /\ \A i \in 1 .. l : result'[i] = result[i]
  <2> HIDE DEF b
  <2> QED BY <1>1, <1>4, <1>t
<1>6. Shapes'
  BY <1>1, <1>5 DEF Shapes
<1>7. AtRest'
  BY <1>1 DEF AtRest
<1>8. Queues'
  BY <1>1 DEF Queues, OidOf
<1>9. RowsRight'
  <2>1. BulkSize' = BulkSize /\ NextColumns' = NextColumns /\ BulkGets' = BulkGets
    BY <1>1 DEF BulkSize, NextColumns, GetColumns, BulkNexts, BulkGets, OidOf, MaxRep,
               Caching, Lookahead
  <2>2. GetsLeft' = GetsLeft
    BY <1>1, <2>1 DEF GetsLeft, GetsAsked
  <2>3. ASSUME NEW i \in 1 .. l + 1
        PROVE  Follows(Source(GetColumns, cols, << >>, result', i), result'[i])
    <3>1. CASE i = l + 1
      <4> HIDE DEF l, b, GetColumns
      <4> QED BY <3>1, <1>3, <1>4, <1>5
    <3>2. CASE i \in 1 .. l
      <4>1. Follows(Source(GetColumns, cols, << >>, result, i), result[i])
        BY <3>2, <1>2 DEF RowsRight
      <4> HIDE DEF l, GetColumns
      <4> QED BY <3>2, <4>1, <1>3, <1>5
    <3> QED BY <3>1, <3>2, <1>t
  <2>4. l + 1 <= BulkSize
    <3> HIDE DEF l, BulkSize
    <3> QED BY <1>1, <1>t, <1>b
  <2> HIDE DEF BulkSize, NextColumns, GetColumns
  <2> QED BY <1>1, <1>2, <1>5, <2>1, <2>2, <2>3, <2>4 DEF RowsRight
<1> QED BY <1>1, <1>6, <1>7, <1>8, <1>9, PassesOn

\* An answer of any length, arranged in rows by pysnmp and joined again by
\* handle_bulk_result, keeps the invariant: Joined gives back the bindings.
LEMMA BulkEndsKeeps ==
    ASSUME IInv, BulkEnds, UNCHANGED setup
    PROVE  IInv'
<1> USE DEF IInv
<1> DEFINE l == Len(result)
           g == Len(GetColumns)
           k == Len(cols)
<1>t. /\ l \in Nat /\ k \in Nat /\ g \in 0 .. Len(getq) /\ Len(getq) \in Nat /\ MaxRep \in Nat
      /\ g = Least(BulkMax, Len(getq)) /\ g = Len(BulkGets)
      /\ GetColumns \in Seq(Oid) /\ cols \in Seq(Oid) /\ result \in Seq(AnyAnswer)
  BY Columns, Elements DEF Shapes
<1>1. /\ UNCHANGED <<setup, cache, pendingnext, futures, calls, getq, nextq, completions>>
      /\ UNCHANGED <<cols, newcols, workleft>>
      /\ pc = "asking" /\ pc' = "gets" /\ result' = Joined(Rows(result, g, k), g, k)
  BY DEF BulkEnds
<1>2. result' = result
  <2> HIDE DEF g, k
  <2> QED BY <1>1, <1>t, JoinedRows
<1>3. newcols = << >> /\ cols = NextColumns /\ GetsLeft = GetColumns /\ l <= BulkSize
  BY <1>1, Lefts DEF AtRest, RowsRight
<1>4. Shapes'
  BY <1>1, <1>2 DEF Shapes
<1>5. AtRest'
  BY <1>1, <1>3 DEF AtRest
<1>6. Queues'
  BY <1>1 DEF Queues, OidOf
<1>7. RowsRight'
  <2> DEFINE G == GetsLeft'
  <2>1. /\ G = [x \in 1 .. Len(getq) |-> PrevOid(futures[getq[x]].oid)]
        /\ Len(G) = Len(getq) /\ G \in Seq(Oid)
        /\ \A x \in 1 .. g : G[x] = GetColumns[x]
    <3>1. G = [x \in 1 .. Len(getq) |-> PrevOid(futures[getq[x]].oid)]
      BY <1>1 DEF GetsLeft, GetsAsked
    <3>2. \A x \in 1 .. Len(getq) : PrevOid(futures[getq[x]].oid) \in Oid
      BY Elements, OidsAreOids
    <3>3. \A x \in 1 .. g : x \in 1 .. Len(getq)
      BY <1>t
    <3> HIDE DEF G
    <3> QED BY <3>1, <3>2, <3>3, <1>t, Columns
  <2>2. ASSUME NEW i \in 1 .. l
        PROVE  Follows(Source(G, cols, newcols, result, i), result[i])
    <3>0. Follows(Source(GetColumns, cols, newcols, result, i), result[i])
      BY <1>3 DEF RowsRight
    <3>1. CASE g = Len(getq)
      <4>1. G = GetColumns
        <5> HIDE DEF G
        <5> QED BY <2>1, <1>t, <3>1, SeqEqual
      <4> QED BY <3>0, <4>1
    <3>2. CASE g # Len(getq)
      <4>1. g = BulkMax
        <5> HIDE DEF g
        <5> QED BY <3>2, <1>t DEF Least
      <4>2. k = 0
        <5>1. cols = << >>
          BY <4>1, <1>t, <1>3, Columns
        <5> QED BY <5>1
      <4>3. BulkSize = g
        <5>1. BulkSize = g + MaxRep * k
          BY DEF BulkSize
        <5> HIDE DEF g, k, MaxRep, BulkSize
        <5>2. MaxRep * k = 0
          BY <1>t, <4>2
        <5> QED BY <1>t, <5>1, <5>2
      <4>4. i <= g /\ i - g <= 0 /\ i - Len(getq) <= 0 /\ i \in 1 .. g
        <5> HIDE DEF g, l, BulkSize
        <5> QED BY <1>3, <1>t, <4>3
      <4>5. Source(GetColumns, cols, newcols, result, i) = GetColumns[i]
        BY <4>4 DEF Source
      <4>6. Source(G, cols, newcols, result, i) = G[i]
        <5> HIDE DEF G
        <5> QED BY <2>1, <4>4 DEF Source
      <4> HIDE DEF G
      <4> QED BY <3>0, <4>4, <4>5, <4>6, <2>1
    <3> QED BY <3>1, <3>2
  <2> QED BY <1>1, <1>2, <2>2 DEF RowsRight
<1> QED BY <1>1, <1>4, <1>5, <1>6, <1>7, PassesOn

\* What the rest of an answer was asked after, when a get has been taken.
LEMMA SourceOfTail ==
    ASSUME NEW G \in Seq(Oid), NEW r \in Seq(Oid), NEW n \in Seq(Oid),
           NEW R \in Seq(AnyAnswer), R # << >>, G # << >>, NEW i \in 1 .. Len(Tail(R))
    PROVE  Source(Tail(G), r, n, Tail(R), i) = Source(G, r, n, R, i + 1) /\ i + 1 \in 1 .. Len(R)
<1> DEFINE g == Len(G)
           k == Len(r)
           m == Len(n)
           l == Len(R)
           T == Tail(R)
           H == Tail(G)
           y == i - (g - 1)
<1>t. /\ g \in Nat /\ k \in Nat /\ m \in Nat /\ l \in Nat /\ g >= 1 /\ l >= 1
      /\ Len(T) = l - 1 /\ Len(H) = g - 1
      /\ \A x \in 1 .. l - 1 : T[x] = R[x + 1]
      /\ \A x \in 1 .. g - 1 : H[x] = G[x + 1]
  BY TailIs
<1> HIDE DEF g, k, m, l, T, H
<1>1. i \in 1 .. l - 1 /\ i + 1 \in 1 .. l /\ i + 1 - g = y /\ y \in Int
  BY <1>t DEF T
<1>2. y <= 0 => H[i] = G[i + 1]
  BY <1>t, <1>1
<1>3. y > k + m => T[i - k - m] = R[i + 1 - k - m]
  <2> SUFFICES ASSUME y > k + m PROVE T[i - k - m] = R[i + 1 - k - m]
    OBVIOUS
  <2>1. i - k - m \in 1 .. l - 1 /\ (i - k - m) + 1 = i + 1 - k - m
    BY <1>1, <1>t
  <2> QED BY <2>1, <1>t
<1>4. Source(H, r, n, T, i) = IF y <= 0 THEN H[i]
                              ELSE IF y <= k THEN r[y]
                              ELSE IF y <= k + m THEN n[y - k]
                              ELSE T[i - k - m].oid
  BY <1>t DEF Source, k, m
<1>5. Source(G, r, n, R, i + 1) = IF y <= 0 THEN G[i + 1]
                                  ELSE IF y <= k THEN r[y]
                                  ELSE IF y <= k + m THEN n[y - k]
                                  ELSE R[i + 1 - k - m].oid
  <2>1. i + 1 - Len(G) = y
    BY <1>1 DEF g
  <2> HIDE DEF y
  <2> QED BY <2>1 DEF Source, k, m
<1>6. y > k + m \/ y <= k + m
  BY <1>1, <1>t
<1> HIDE DEF y
<1>7. Source(H, r, n, T, i) = Source(G, r, n, R, i + 1)
  BY <1>2, <1>3, <1>4, <1>5, <1>6
<1> QED BY <1>1, <1>7 DEF H, T, l

\* The same when a column has been taken: the next row continues with o.
LEMMA SourceOfRest ==
    ASSUME NEW r \in Seq(Oid), NEW n \in Seq(Oid), NEW R \in Seq(AnyAnswer),
           R # << >>, r # << >>, NEW r2, NEW n2,
           \/ r2 = Tail(r) /\ n2 = Append(n, R[1].oid)
           \/ Len(r) = 1 /\ r2 = Append(n, R[1].oid) /\ n2 = << >>
    PROVE  /\ r2 \in Seq(Oid) /\ n2 \in Seq(Oid)
           /\ Source(<< >>, r, n, R, 1) = r[1]
           /\ \A i \in 1 .. Len(Tail(R)) :
                 /\ Source(<< >>, r2, n2, Tail(R), i) = Source(<< >>, r, n, R, i + 1)
                 /\ i + 1 \in 1 .. Len(R)
<1> DEFINE k == Len(r)
           m == Len(n)
           l == Len(R)
           T == Tail(R)
           o == R[1].oid
           e == << >>
           k2 == Len(r2)
           m2 == Len(n2)
<1>t. /\ k \in Nat /\ m \in Nat /\ l \in Nat /\ k >= 1 /\ l >= 1
      /\ Len(T) = l - 1 /\ \A x \in 1 .. l - 1 : T[x] = R[x + 1]
      /\ Len(e) = 0
  BY TailIs
<1>o. o \in Oid
  <2>1. R[1] \in AnyAnswer
    BY TailIs
  <2> QED BY <2>1 DEF AnyAnswer
<1>a. /\ Append(n, o) \in Seq(Oid) /\ Len(Append(n, o)) = m + 1 /\ Append(n, o)[m + 1] = o
      /\ \A x \in 1 .. m : Append(n, o)[x] = n[x]
  <2> HIDE DEF o
  <2> QED BY <1>o
<1>b. Tail(r) \in Seq(Oid) /\ Len(Tail(r)) = k - 1 /\ \A x \in 1 .. k - 1 : Tail(r)[x] = r[x + 1]
  BY TailIs
<1> DEFINE at(p, q, y) == IF y <= Len(p) THEN p[y] ELSE q[y - Len(p)]
<1> HIDE DEF o, e, T
<1>c. e \in Seq(Oid)
  BY DEF e
<1>1. /\ r2 \in Seq(Oid) /\ n2 \in Seq(Oid) /\ k2 \in Nat /\ m2 \in Nat /\ k2 + m2 = k + m
      /\ at(r2, n2, k + m) = o
      /\ \A y \in 1 .. k + m - 1 : at(r2, n2, y) = at(r, n, y + 1)
  <2>1. CASE r2 = Tail(r) /\ n2 = Append(n, o)
    <3>1. k2 = k - 1 /\ m2 = m + 1 /\ r2 \in Seq(Oid) /\ n2 \in Seq(Oid)
      BY <2>1, <1>a, <1>b
    <3>2. at(r2, n2, k + m) = o
      <4>1. ~ (k + m <= k2) /\ k + m - k2 = m + 1
        BY <3>1, <1>t
      <4> QED BY <4>1, <2>1, <1>a
    <3>3. ASSUME NEW y \in 1 .. k + m - 1 PROVE at(r2, n2, y) = at(r, n, y + 1)
      <4>1. CASE y <= k - 1
        <5>1. y <= k2 /\ y + 1 <= k /\ y \in 1 .. k - 1
          BY <4>1, <3>1, <1>t
        <5> QED BY <5>1, <2>1, <1>b
      <4>2. CASE ~ (y <= k - 1)
        <5>1. /\ ~ (y <= k2) /\ ~ (y + 1 <= k) /\ y - k2 = y + 1 - k /\ y + 1 - k \in 1 .. m
          BY <4>2, <3>1, <1>t
        <5> QED BY <5>1, <2>1, <1>a
      <4> QED BY <4>1, <4>2
    <3> QED BY <3>1, <3>2, <3>3, <1>t
  <2>2. CASE k = 1 /\ r2 = Append(n, o) /\ n2 = e
    <3>1. k2 = m + 1 /\ m2 = 0 /\ r2 \in Seq(Oid) /\ n2 \in Seq(Oid)
      BY <2>2, <1>a, <1>c, <1>t
    <3>2. at(r2, n2, k + m) = o
      <4>1. k + m <= k2 /\ k + m = m + 1
        BY <2>2, <3>1, <1>t
      <4> QED BY <4>1, <2>2, <1>a
    <3>3. ASSUME NEW y \in 1 .. k + m - 1 PROVE at(r2, n2, y) = at(r, n, y + 1)
      <4>1. y <= k2 /\ ~ (y + 1 <= k) /\ y + 1 - k = y /\ y \in 1 .. m
        BY <2>2, <3>1, <1>t
      <4> QED BY <4>1, <2>2, <1>a
    <3> QED BY <2>2, <3>1, <3>2, <3>3, <1>t
  <2> QED BY <2>1, <2>2 DEF o, e
<1>2. ASSUME NEW p \in Seq(Oid), NEW q \in Seq(Oid), NEW X, NEW y \in Nat \ {0}
      PROVE  Source(e, p, q, X, y) = IF y <= Len(p) + Len(q) THEN at(p, q, y)
                                     ELSE X[y - (Len(p) + Len(q))].oid
  <2>1. Len(p) \in Nat /\ Len(q) \in Nat
    OBVIOUS
  <2>2. y - Len(e) = y /\ ~ (y <= 0)
    BY <1>t
  <2>3. y - (Len(p) + Len(q)) = y - Len(p) - Len(q)
    BY <2>1
  <2>4. y <= Len(p) => y <= Len(p) + Len(q)
    BY <2>1
  <2> QED BY <2>2, <2>3, <2>4 DEF Source
<1>3. Source(e, r, n, R, 1) = r[1]
  <2>1. 1 \in Nat \ {0} /\ 1 <= k /\ 1 <= k + m
    BY <1>t
  <2> QED BY <2>1, <1>2
<1>4. ASSUME NEW i \in 1 .. Len(T)
      PROVE  /\ Source(e, r2, n2, T, i) = Source(e, r, n, R, i + 1)
             /\ i + 1 \in 1 .. l
  <2>1. i \in Nat \ {0} /\ i + 1 \in Nat \ {0} /\ i \in 1 .. l - 1 /\ i + 1 \in 1 .. l
    BY <1>t
  <2> HIDE DEF at, k, m, l, k2, m2
  <2>2. Source(e, r2, n2, T, i) = IF i <= k + m THEN at(r2, n2, i) ELSE T[i - (k + m)].oid
    <3>1. r2 \in Seq(Oid) /\ n2 \in Seq(Oid) /\ Len(r2) + Len(n2) = k + m
      BY <1>1 DEF k2, m2
    <3>2. Source(e, r2, n2, T, i) = IF i <= Len(r2) + Len(n2) THEN at(r2, n2, i)
                                    ELSE T[i - (Len(r2) + Len(n2))].oid
      BY <1>2, <2>1, <3>1, SMTT(30)
    <3> QED BY <3>1, <3>2
  <2>3. Source(e, r, n, R, i + 1)
           = IF i + 1 <= k + m THEN at(r, n, i + 1) ELSE R[i + 1 - (k + m)].oid
    <3>1. r \in Seq(Oid) /\ n \in Seq(Oid) /\ Len(r) + Len(n) = k + m
      BY DEF k, m
    <3>2. Source(e, r, n, R, i + 1) = IF i + 1 <= Len(r) + Len(n) THEN at(r, n, i + 1)
                                      ELSE R[i + 1 - (Len(r) + Len(n))].oid
      BY <1>2, <2>1, <3>1
    <3> QED BY <3>1, <3>2
  <2>4. CASE i <= k + m - 1
    <3>1. i <= k + m /\ i + 1 <= k + m /\ i \in 1 .. k + m - 1
      BY <2>4, <2>1, <1>t
    <3> QED BY <3>1, <2>1, <2>2, <2>3, <1>1
  <2>5. CASE i = k + m
    <3>1. i <= k + m /\ ~ (i + 1 <= k + m) /\ i + 1 - (k + m) = 1
      BY <2>5, <2>1, <1>t
    <3> QED BY <3>1, <2>1, <2>2, <2>3, <2>5, <1>1 DEF o
  <2>6. CASE i > k + m
    <3>1. /\ ~ (i <= k + m) /\ ~ (i + 1 <= k + m) /\ i - (k + m) \in 1 .. l - 1
          /\ (i - (k + m)) + 1 = i + 1 - (k + m)
      BY <2>6, <2>1, <1>t
    <3> QED BY <3>1, <2>1, <2>2, <2>3, <1>t
  <2> QED BY <2>1, <2>4, <2>5, <2>6, <1>t
<1> QED BY <1>1, <1>3, <1>4 DEF e, T

\* What a query turned into one for the object after prev_oid is answered.
LEMMA GetAnswered ==
    ASSUME NEW fails, NEW q \in OIDS, NEW b, Follows(PrevOid(q), b),
           NEW c, Sound(c), Truthful(c)
    PROVE  /\ q \prec b.oid => GetRight(fails, q, Answer(q, NoSuchObject))
           /\ b.val = EndOfMibView =>
                 /\ GetRight(fails, q, Answer(q, EndOfMibView))
                 /\ Sound(SetEnd(c, b.oid)) /\ Truthful(SetEnd(c, b.oid))
                 /\ ~ (q \prec b.oid) /\ q # b.oid
           /\ b.val # EndOfMibView =>
                 /\ ~ (q \prec b.oid) /\ q # b.oid => GetRight(fails, q, Answer(q, BackendError))
                 /\ q = b.oid => GetRight(fails, q, Answer(q, b.val))
                 /\ Sound(SetNextValue(c, PrevOid(q), b.oid, b.val))
                 /\ Truthful(SetNextValue(c, PrevOid(q), b.oid, b.val))
<1> DEFINE p == PrevOid(q)
<1>1. q \in Oid /\ p \in Oid /\ p \prec q
  BY OidsAreOids
<1> HIDE DEF p
<1>2. /\ b.oid \in Oid /\ p \preceq b.oid
      /\ b.val \in Value \cup {EndOfMibView}
      /\ b.val = EndOfMibView => After(p) = {} /\ b.oid = p
      /\ b.val \in Value => /\ IsNext(p, b.oid) /\ p \prec b.oid
                            /\ b.oid \in DOMAIN MIB /\ b.val = MIB[b.oid]
  BY <1>1, FollowsMeans DEF p
<1>3. q \in DOMAIN MIB => q \in After(p)
  BY <1>1 DEF After
<1>4. ASSUME b.val = EndOfMibView
      PROVE  /\ GetRight(fails, q, Answer(q, EndOfMibView))
             /\ Sound(SetEnd(c, b.oid)) /\ Truthful(SetEnd(c, b.oid))
             /\ ~ (q \prec b.oid) /\ q # b.oid
  <2>1. After(p) = {} /\ b.oid = p
    BY <1>2, <1>4
  <2>2. After(q) = {} /\ q \notin DOMAIN MIB
    BY <2>1, <1>1, <1>3, NoneAfterLater DEF \preceq
  <2>3. ~ (q \prec p) /\ q # p
    BY <1>1, PrecTransitive, PrecIrreflexive
  <2> QED BY <2>1, <2>2, <2>3, <1>1, SetEndTruthful DEF GetRight
<1>5. ASSUME q \prec b.oid PROVE GetRight(fails, q, Answer(q, NoSuchObject))
  <2>1. b.val \in Value
    BY <1>2, <1>4, <1>5
  <2>2. q \notin DOMAIN MIB
    <3> SUFFICES ASSUME q \in DOMAIN MIB PROVE FALSE
      OBVIOUS
    <3>1. b.oid \preceq q
      BY <2>1, <1>2, <1>3 DEF IsNext
    <3> QED BY <3>1, <1>1, <1>2, <1>5, PrecTransitive, PrecIrreflexive DEF \preceq
  <2> QED BY <2>2 DEF GetRight, AgentGet, Answer
<1>6. ASSUME b.val # EndOfMibView
      PROVE  /\ ~ (q \prec b.oid) /\ q # b.oid => GetRight(fails, q, Answer(q, BackendError))
             /\ q = b.oid => GetRight(fails, q, Answer(q, b.val))
             /\ Sound(SetNextValue(c, p, b.oid, b.val))
             /\ Truthful(SetNextValue(c, p, b.oid, b.val))
  <2>1. /\ IsNext(p, b.oid) /\ b.oid \in DOMAIN MIB /\ b.val = MIB[b.oid]
    BY <1>2, <1>6
  <2>2. ASSUME ~ (q \prec b.oid), q # b.oid PROVE GetRight(fails, q, Answer(q, BackendError))
    <3>1. b.oid \prec q
      BY <2>2, <1>1, <1>2, PrecTotal
    <3> QED BY <3>1, <2>1 DEF GetRight, IsNext, p
  <2>3. ASSUME q = b.oid PROVE GetRight(fails, q, Answer(q, b.val))
    BY <2>1, <2>3 DEF GetRight, AgentGet, Answer
  <2> QED BY <2>1, <2>2, <2>3, <1>1, <1>2, SetNextValueTruthful
<1> QED BY <1>4, <1>5, <1>6 DEF p

\* The first binding answers the first get: it was asked for after its prev_oid.
LEMMA FirstGetFollows ==
    ASSUME IInv, TakeGet
    PROVE  /\ Follows(PrevOid(OidOf(Head(getq))), Head(result))
           /\ OidOf(Head(getq)) \in OIDS
<1> USE DEF IInv
<1>1. pc = "gets" /\ result # << >> /\ getq # << >>
  BY DEF TakeGet
<1>2. /\ Head(getq) = getq[1] /\ Len(getq) >= 1 /\ Len(getq) \in Nat
      /\ Head(result) = result[1] /\ Len(result) >= 1 /\ Len(result) \in Nat
  <2>1. getq \in Seq(1 .. Len(futures)) /\ result \in Seq(AnyAnswer)
    BY DEF Shapes
  <2> QED BY <1>1, <2>1, TailIs
<1>3. 1 \in 1 .. Len(result) /\ 1 \in 1 .. Len(getq) /\ 1 - Len(getq) <= 0
  BY <1>2
<1>4. OidOf(getq[1]) \in OIDS
  BY <1>3, Elements DEF OidOf
<1>5. Len(GetsLeft) = Len(getq) /\ GetsLeft[1] = PrevOid(OidOf(getq[1]))
  <2>1. GetsAsked = Len(getq)
    BY <1>1 DEF GetsAsked
  <2> QED BY <1>3, <2>1, Lefts DEF OidOf
<1>6. Follows(Source(GetsLeft, cols, newcols, result, 1), result[1])
  BY <1>3 DEF RowsRight
<1>7. Source(GetsLeft, cols, newcols, result, 1) = GetsLeft[1]
  <2> HIDE DEF GetsLeft
  <2> QED BY <1>3, <1>5 DEF Source
<1> QED BY <1>2, <1>4, <1>5, <1>6, <1>7

\* One pass of the loop over the gets keeps the invariant.
LEMMA TakeGetKeeps ==
    ASSUME IInv, TakeGet, UNCHANGED setup
    PROVE  IInv'
<1> USE DEF IInv
<1> DEFINE f == Head(getq)
           q == OidOf(f)
           b == Head(result)
<1>1. /\ pc = "gets" /\ result # << >> /\ getq # << >>
      /\ getq' = Tail(getq) /\ result' = Tail(result)
      /\ UNCHANGED <<setup, pendingnext, futures, calls, nextq, cols, newcols, pc, workleft>>
  BY DEF TakeGet
<1>t. /\ getq \in Seq(1 .. Len(futures)) /\ result \in Seq(AnyAnswer)
      /\ cols \in Seq(Oid) /\ newcols \in Seq(Oid)
      /\ f = getq[1] /\ f \in 1 .. Len(futures) /\ q \in OIDS /\ q = futures[f].oid
      /\ futures[f].kind = "get" /\ b = result[1] /\ Len(result) >= 1 /\ Len(getq) >= 1
      /\ Len(result) \in Nat /\ Len(getq) \in Nat
  <2>1. getq \in Seq(1 .. Len(futures)) /\ result \in Seq(AnyAnswer)
        /\ cols \in Seq(Oid) /\ newcols \in Seq(Oid)
    BY DEF Shapes
  <2>2. f = getq[1] /\ Len(getq) >= 1 /\ Len(getq) \in Nat
    BY <2>1, <1>1, TailIs
  <2>3. b = result[1] /\ Len(result) >= 1 /\ Len(result) \in Nat
    BY <2>1, <1>1, TailIs
  <2>4. 1 \in 1 .. Len(getq)
    BY <2>2
  <2>5. f \in 1 .. Len(futures) /\ futures[f].kind = "get"
    BY <2>2, <2>4, Elements DEF Queues
  <2>6. q \in OIDS /\ q = futures[f].oid
    BY <2>5, Elements DEF OidOf
  <2> HIDE DEF f, q, b
  <2> QED BY <2>1, <2>2, <2>3, <2>5, <2>6
<1>2. /\ GetsLeft \in Seq(Oid) /\ Len(GetsLeft) = Len(getq) /\ GetsLeft # << >>
      /\ GetsLeft = [x \in 1 .. Len(getq) |-> PrevOid(futures[getq[x]].oid)]
      /\ \A x \in 1 .. Len(getq) : GetsLeft[x] = PrevOid(futures[getq[x]].oid)
  <2>1. GetsAsked = Len(getq)
    BY <1>1 DEF GetsAsked
  <2>2. /\ GetsLeft \in Seq(Oid) /\ Len(GetsLeft) = Len(getq)
        /\ \A x \in 1 .. Len(getq) : GetsLeft[x] = PrevOid(futures[getq[x]].oid)
    BY <2>1, Lefts
  <2>3. GetsLeft = [x \in 1 .. Len(getq) |-> PrevOid(futures[getq[x]].oid)]
    BY <2>1 DEF GetsLeft
  <2>4. GetsLeft # << >>
    <3> HIDE DEF GetsLeft
    <3> QED BY <1>t, <2>2
  <2> QED BY <2>2, <2>3, <2>4
<1>3. Follows(PrevOid(q), b)
  BY FirstGetFollows
<1>4. PICK a : /\ completions' = Append(completions, [fut |-> f, ans |-> a])
               /\ GetRight(MayFail, q, a)
               /\ Sound(cache') /\ Truthful(cache')
  <2>1. Sound(cache) /\ Truthful(cache)
    BY DEF CacheRight
  <2>2. /\ q \prec b.oid => GetRight(MayFail, q, Answer(q, NoSuchObject))
        /\ b.val = EndOfMibView =>
              /\ GetRight(MayFail, q, Answer(q, EndOfMibView))
              /\ Sound(SetEnd(cache, b.oid)) /\ Truthful(SetEnd(cache, b.oid))
              /\ ~ (q \prec b.oid) /\ q # b.oid
        /\ b.val # EndOfMibView =>
              /\ ~ (q \prec b.oid) /\ q # b.oid => GetRight(MayFail, q, Answer(q, BackendError))
              /\ q = b.oid => GetRight(MayFail, q, Answer(q, b.val))
              /\ Sound(SetNextValue(cache, PrevOid(q), b.oid, b.val))
              /\ Truthful(SetNextValue(cache, PrevOid(q), b.oid, b.val))
    <3> HIDE DEF q, b
    <3> QED BY <2>1, <1>3, <1>t, GetAnswered
  <2>3. \/ /\ q \prec b.oid
           /\ Complete(f, Answer(q, NoSuchObject))
           /\ cache' = IF Caching THEN SetNextValue(cache, PrevOid(q), b.oid, b.val) ELSE cache
        \/ /\ ~ (q \prec b.oid) /\ b.val = EndOfMibView
           /\ Complete(f, Answer(q, EndOfMibView))
           /\ cache' = IF Caching THEN SetEnd(cache, b.oid) ELSE cache
        \/ /\ ~ (q \prec b.oid) /\ b.val # EndOfMibView /\ q # b.oid
           /\ Complete(f, Answer(q, BackendError))
           /\ UNCHANGED cache
        \/ /\ q = b.oid /\ b.val # EndOfMibView
           /\ Complete(f, Answer(q, b.val))
           /\ cache' = IF Caching THEN SetNextValue(cache, PrevOid(q), b.oid, b.val) ELSE cache
    BY DEF TakeGet
  <2> HIDE DEF f, q, b
  <2> QED BY <2>1, <2>2, <2>3 DEF Complete
<1>5. Moves("get", f, a) /\ Right(MayFail, "get", futures[f].oid, a)
  BY <1>1, <1>4, <1>t DEF Moves, Right
<1>6. Shapes'
  <2>1. /\ getq' \in Seq(1 .. Len(futures')) /\ nextq' \in Seq(1 .. Len(futures'))
        /\ completions' \in Seq([fut : 1 .. Len(futures'), ans : AnyAnswer])
    BY <1>5, MovesKeeps
  <2>2. result' \in Seq(AnyAnswer)
    BY <1>1, <1>t, TailIs
  <2> QED BY <1>1, <2>1, <2>2 DEF Shapes
<1>7. AtRest' /\ CacheRight'
  BY <1>1, <1>4 DEF AtRest, CacheRight
<1>8. Queues'
  <2>1. /\ \A i \in 1 .. Len(getq') : futures'[getq'[i]].kind = "get"
        /\ \A i \in 1 .. Len(nextq') : futures'[nextq'[i]].kind = "next"
    BY <1>5, MovesKeeps
  <2> QED BY <1>1, <2>1 DEF Queues, OidOf
<1>9. RowsRight'
  <2>1. GetsLeft' = Tail(GetsLeft)
    <3>1. GetsLeft' = [x \in 1 .. Len(Tail(getq)) |-> PrevOid(futures[Tail(getq)[x]].oid)]
      BY <1>1 DEF GetsLeft, GetsAsked
    <3>2. /\ Len(Tail(getq)) = Len(getq) - 1
          /\ \A x \in 1 .. Len(getq) - 1 : Tail(getq)[x] = getq[x + 1] /\ x + 1 \in 1 .. Len(getq)
      BY <1>1, <1>t, TailIs
    <3>3. /\ Tail(GetsLeft) \in Seq(Oid) /\ Len(Tail(GetsLeft)) = Len(getq) - 1
          /\ \A x \in 1 .. Len(getq) - 1 : Tail(GetsLeft)[x] = GetsLeft[x + 1]
      <4> HIDE DEF GetsLeft
      <4> QED BY <1>2, TailIs
    <3> DEFINE G == GetsLeft
               H == GetsLeft'
    <3> HIDE DEF G, H
    <3>4. \A x \in 1 .. Len(getq) - 1 : H[x] = Tail(G)[x]
      BY <3>1, <3>2, <3>3, <1>2 DEF G, H
    <3>5. H \in Seq(Oid) /\ Len(H) = Len(getq) - 1
      <4>1. Len(getq) - 1 \in Nat
        BY <1>t
      <4>2. \A x \in 1 .. Len(getq) - 1 : PrevOid(futures[Tail(getq)[x]].oid) \in Oid
        BY <3>2, Elements, OidsAreOids
      <4> QED BY <3>1, <3>2, <4>1, <4>2 DEF H
    <3>6. H = Tail(G)
      BY <3>3, <3>4, <3>5, SeqEqual DEF G
    <3> QED BY <3>6 DEF G, H
  <2>2. ASSUME NEW i \in 1 .. Len(Tail(result))
        PROVE  Follows(Source(Tail(GetsLeft), cols, newcols, Tail(result), i), Tail(result)[i])
    <3>1. /\ Source(Tail(GetsLeft), cols, newcols, Tail(result), i)
                = Source(GetsLeft, cols, newcols, result, i + 1)
          /\ i + 1 \in 1 .. Len(result)
      <4>1. /\ cols \in Seq(Oid) /\ newcols \in Seq(Oid) /\ result \in Seq(AnyAnswer)
            /\ result # << >> /\ GetsLeft \in Seq(Oid) /\ GetsLeft # << >>
        BY <1>1, <1>2, <1>t
      <4> HIDE DEF GetsLeft, IInv, f, q, b
      <4> QED BY <4>1, SourceOfTail
    <3>2. Tail(result)[i] = result[i + 1]
      BY <1>1, <1>t, TailIs
    <3>3. Follows(Source(GetsLeft, cols, newcols, result, i + 1), result[i + 1])
      BY <3>1 DEF RowsRight
    <3> QED BY <3>1, <3>2, <3>3
  <2> QED BY <1>1, <2>1, <2>2 DEF RowsRight
<1> QED BY <1>5, <1>6, <1>7, <1>8, <1>9, MovesKeeps

\* Once the gets are taken, the columns come first.
LEMMA RowsWithoutGets ==
    ASSUME IInv, pc \in {"first", "ahead"}
    PROVE  /\ GetsLeft = << >>
           /\ \A i \in 1 .. Len(result) :
                 Follows(Source(<< >>, cols, newcols, result, i), result[i])
<1>1. GetsAsked = 0
  BY DEF GetsAsked
<1>2. GetsLeft = << >>
  BY <1>1 DEF GetsLeft
<1> QED BY <1>2 DEF IInv, RowsRight

\* The first binding answers the first column.
LEMMA FirstColumnFollows ==
    ASSUME IInv, pc \in {"first", "ahead"}, result # << >>, cols # << >>
    PROVE  Follows(Head(cols), Head(result)) /\ Head(cols) \in Oid
<1>1. result \in Seq(AnyAnswer) /\ cols \in Seq(Oid)
  BY DEF IInv, Shapes
<1>2. /\ Head(result) = result[1] /\ Len(result) >= 1 /\ Len(result) \in Nat
      /\ Head(cols) = cols[1] /\ cols[1] \in Oid /\ Len(cols) >= 1
  BY <1>1, TailIs
<1>3. Source(<< >>, cols, newcols, result, 1) = cols[1]
  BY <1>2 DEF Source
<1>4. 1 \in 1 .. Len(result)
  BY <1>2
<1>5. Follows(Source(<< >>, cols, newcols, result, 1), result[1])
  BY <1>4, RowsWithoutGets
<1> QED BY <1>2, <1>3, <1>5

\* Taking a column keeps what the rest of the answer is right about.
LEMMA ColumnTaken ==
    ASSUME IInv, pc \in {"first", "ahead"}, pc' = pc, result # << >>, cols # << >>,
           result' = Tail(result),
           \/ cols' = Tail(cols) /\ newcols' = Append(newcols, Head(result).oid)
           \/ Len(cols) = 1 /\ cols' = Append(newcols, Head(result).oid) /\ newcols' = << >>
    PROVE  /\ Follows(Head(cols), Head(result)) /\ Head(cols) = cols[1] /\ cols[1] \in Oid
           /\ result' \in Seq(AnyAnswer) /\ cols' \in Seq(Oid) /\ newcols' \in Seq(Oid)
           /\ RowsRight'
<1>t. result \in Seq(AnyAnswer) /\ cols \in Seq(Oid) /\ newcols \in Seq(Oid)
  BY DEF IInv, Shapes
<1>h. /\ Head(result) = result[1] /\ Len(result) >= 1 /\ Len(result) \in Nat
      /\ Tail(result) \in Seq(AnyAnswer)
      /\ \A i \in 1 .. Len(Tail(result)) : Tail(result)[i] = result[i + 1]
      /\ Head(cols) = cols[1] /\ cols[1] \in Oid
  BY <1>t, TailIs
<1>1. /\ cols' \in Seq(Oid) /\ newcols' \in Seq(Oid)
      /\ Source(<< >>, cols, newcols, result, 1) = cols[1]
      /\ \A i \in 1 .. Len(Tail(result)) :
            /\ Source(<< >>, cols', newcols', Tail(result), i)
                  = Source(<< >>, cols, newcols, result, i + 1)
            /\ i + 1 \in 1 .. Len(result)
  <2> DEFINE o == result[1].oid
  <2>1. \/ cols' = Tail(cols) /\ newcols' = Append(newcols, o)
        \/ Len(cols) = 1 /\ cols' = Append(newcols, o) /\ newcols' = << >>
    BY <1>h
  <2>2. \A r2, n2 :
           \/ r2 = Tail(cols) /\ n2 = Append(newcols, o)
           \/ Len(cols) = 1 /\ r2 = Append(newcols, o) /\ n2 = << >>
           => /\ r2 \in Seq(Oid) /\ n2 \in Seq(Oid)
              /\ Source(<< >>, cols, newcols, result, 1) = cols[1]
              /\ \A i \in 1 .. Len(Tail(result)) :
                    /\ Source(<< >>, r2, n2, Tail(result), i)
                          = Source(<< >>, cols, newcols, result, i + 1)
                    /\ i + 1 \in 1 .. Len(result)
    BY <1>t, SourceOfRest
  <2> HIDE DEF o
  <2> QED BY <2>1, <2>2
<1>2. Follows(cols[1], result[1])
  <2>1. 1 \in 1 .. Len(result)
    BY <1>h
  <2> QED BY <2>1, <1>1, RowsWithoutGets
<1>3. RowsRight'
  <2>1. GetsLeft' = << >>
    BY DEF GetsLeft, GetsAsked
  <2>2. ASSUME NEW i \in 1 .. Len(Tail(result))
        PROVE  Follows(Source(<< >>, cols', newcols', Tail(result), i), Tail(result)[i])
    <3>1. Follows(Source(<< >>, cols, newcols, result, i + 1), result[i + 1])
      BY <1>1, RowsWithoutGets
    <3> QED BY <3>1, <1>1, <1>h
  <2> QED BY <2>1, <2>2 DEF RowsRight
<1> QED BY <1>h, <1>1, <1>2, <1>3

\* One pass of the loop over the first row keeps the invariant.
LEMMA TakeFirstKeeps ==
    ASSUME IInv, TakeFirst, UNCHANGED setup
    PROVE  IInv'
<1> USE DEF IInv
<1> DEFINE f == Head(nextq)
           b == Head(result)
<1>1. /\ pc = "first" /\ pc' = pc /\ result # << >> /\ cols # << >>
      /\ nextq' = Tail(nextq) /\ result' = Tail(result)
      /\ cols' = Tail(cols) /\ newcols' = Append(newcols, b.oid)
      /\ completions' = Append(completions, [fut |-> f, ans |-> b])
      /\ UNCHANGED <<setup, cache, pendingnext, futures, calls, getq, workleft>>
  BY DEF TakeFirst, Complete
<1>t. /\ nextq \in Seq(1 .. Len(futures)) /\ cols \in Seq(Oid)
      /\ Len(nextq) \in Nat /\ Len(cols) \in Nat
      /\ Len(cols) <= Len(nextq) /\ \A y \in 1 .. Len(cols) : cols[y] = futures[nextq[y]].oid
  BY <1>1, Elements DEF Shapes, Queues, OidOf
<1>2. /\ Follows(Head(cols), b) /\ Head(cols) = cols[1]
      /\ result' \in Seq(AnyAnswer) /\ cols' \in Seq(Oid) /\ newcols' \in Seq(Oid)
      /\ RowsRight'
  BY <1>1, ColumnTaken
<1>3. /\ nextq # << >> /\ f = nextq[1] /\ Len(cols) >= 1 /\ Len(nextq) >= 1
      /\ Len(Tail(cols)) = Len(cols) - 1 /\ Len(Tail(nextq)) = Len(nextq) - 1
      /\ \A y \in 1 .. Len(cols) - 1 : Tail(cols)[y] = cols[y + 1]
      /\ \A y \in 1 .. Len(nextq) - 1 : Tail(nextq)[y] = nextq[y + 1]
  <2>1. /\ Len(cols) >= 1 /\ Len(Tail(cols)) = Len(cols) - 1
        /\ \A y \in 1 .. Len(cols) - 1 : Tail(cols)[y] = cols[y + 1]
    BY <1>1, <1>t, TailIs
  <2>2. nextq # << >>
    BY <1>t, <2>1
  <2>3. /\ f = nextq[1] /\ Len(nextq) >= 1 /\ Len(Tail(nextq)) = Len(nextq) - 1
        /\ \A y \in 1 .. Len(nextq) - 1 : Tail(nextq)[y] = nextq[y + 1]
    BY <1>t, <2>2, TailIs
  <2> HIDE DEF f
  <2> QED BY <2>1, <2>2, <2>3
<1>4. Right(MayFail, "next", futures[f].oid, b)
  <2>1. cols[1] = futures[f].oid
    BY <1>t, <1>3
  <2> QED BY <2>1, <1>2 DEF Right, NextRight
<1>5. Moves("next", f, b)
  BY <1>1, <1>3 DEF Moves
<1>6. Shapes'
  <2>1. /\ getq' \in Seq(1 .. Len(futures')) /\ nextq' \in Seq(1 .. Len(futures'))
        /\ completions' \in Seq([fut : 1 .. Len(futures'), ans : AnyAnswer])
    BY <1>4, <1>5, MovesKeeps
  <2> QED BY <1>1, <1>2, <2>1 DEF Shapes
<1>7. AtRest' /\ CacheRight'
  BY <1>1 DEF AtRest, CacheRight
<1>8. Queues'
  <2>1. /\ \A i \in 1 .. Len(getq') : futures'[getq'[i]].kind = "get"
        /\ \A i \in 1 .. Len(nextq') : futures'[nextq'[i]].kind = "next"
    BY <1>4, <1>5, MovesKeeps
  <2>2. Len(cols') <= Len(nextq')
    BY <1>1, <1>t, <1>3
  <2>3. \A y \in 1 .. Len(cols') : cols'[y] = futures'[nextq'[y]].oid
    <3> SUFFICES ASSUME NEW y \in 1 .. Len(cols) - 1 PROVE Tail(cols)[y] = futures[Tail(nextq)[y]].oid
      BY <1>1, <1>3
    <3>1. y + 1 \in 1 .. Len(cols) /\ y \in 1 .. Len(nextq) - 1
      BY <1>t
    <3> QED BY <3>1, <1>t, <1>3
  <2> QED BY <2>1, <2>2, <2>3 DEF Queues, OidOf
<1> QED BY <1>2, <1>4, <1>5, <1>6, <1>7, <1>8, MovesKeeps

\* The end of that loop keeps the invariant: what the answer did not cover
\* stays queued.
LEMMA FirstTakenKeeps ==
    ASSUME IInv, FirstTaken, UNCHANGED setup
    PROVE  IInv'
<1> USE DEF IInv
<1>1. /\ UNCHANGED <<setup, cache, pendingnext, futures, calls, getq, nextq, completions>>
      /\ UNCHANGED workleft
      /\ pc = "first" /\ (result = << >> \/ cols = << >>) /\ newcols' = << >>
      /\ \/ Caching /\ pc' = "ahead" /\ result' = result /\ cols' = newcols
         \/ ~ Caching /\ pc' = "collected" /\ result' = << >> /\ cols' = << >>
  BY DEF FirstTaken
<1>2. Shapes'
  BY <1>1 DEF Shapes
<1>3. AtRest'
  BY <1>1 DEF AtRest, Quiet
<1>4. Queues'
  BY <1>1 DEF Queues, OidOf
<1>5. RowsRight'
  <2>1. CASE result' = << >>
    BY <1>1, <2>1 DEF RowsRight
  <2>2. CASE cols = << >> /\ pc' = "ahead" /\ result' = result /\ cols' = newcols
    <3>1. GetsLeft' = << >>
      BY <2>2 DEF GetsLeft, GetsAsked
    <3>2. ASSUME NEW i \in 1 .. Len(result)
          PROVE  Source(<< >>, newcols, << >>, result, i) = Source(<< >>, << >>, newcols, result, i)
      <4> DEFINE m == Len(newcols)
                 e == << >>
      <4>1. m \in Nat /\ Len(e) = 0 /\ i \in Nat
        BY Elements
      <4>2. /\ i - Len(e) = i /\ ~ (i <= 0) /\ ~ (i <= Len(e)) /\ Len(e) + m = m /\ m + Len(e) = m
            /\ i - Len(e) - m = i - m /\ i - m - Len(e) = i - m
        BY <4>1
      <4> HIDE DEF m, e
      <4>3. Source(e, newcols, e, result, i) = IF i <= m THEN newcols[i] ELSE result[i - m].oid
        BY <4>2 DEF Source, m
      <4>4. Source(e, e, newcols, result, i) = IF i <= m THEN newcols[i] ELSE result[i - m].oid
        BY <4>2 DEF Source, m
      <4>5. Source(e, newcols, e, result, i) = Source(e, e, newcols, result, i)
        BY <4>3, <4>4
      <4> QED BY <4>5 DEF e
    <3>3. ASSUME NEW i \in 1 .. Len(result)
          PROVE  Follows(Source(<< >>, newcols, << >>, result, i), result[i])
      BY <1>1, <2>2, <3>2, RowsWithoutGets
    <3> QED BY <1>1, <2>2, <3>1, <3>3 DEF RowsRight
  <2> QED BY <1>1, <2>1, <2>2
<1> QED BY <1>1, <1>2, <1>3, <1>4, <1>5, PassesOn

\* One pass over the look-ahead rows keeps the invariant: the column of each
\* binding is the binding one row above.
LEMMA TakeAheadKeeps ==
    ASSUME IInv, TakeAhead, UNCHANGED setup
    PROVE  IInv'
<1> USE DEF IInv
<1> DEFINE o == Head(cols)
           b == Head(result)
<1>1. /\ pc = "ahead" /\ pc' = pc /\ result # << >> /\ cols # << >> /\ result' = Tail(result)
      /\ cache' = IF b.val = EndOfMibView THEN SetEnd(cache, b.oid)
                  ELSE SetNextValue(cache, o, b.oid, b.val)
      /\ cols' = IF Len(cols) > 1 THEN Tail(cols) ELSE Append(newcols, b.oid)
      /\ newcols' = IF Len(cols) > 1 THEN Append(newcols, b.oid) ELSE << >>
      /\ UNCHANGED <<setup, pendingnext, futures, calls, getq, nextq, completions, workleft>>
  BY DEF TakeAhead
<1>2. \/ cols' = Tail(cols) /\ newcols' = Append(newcols, b.oid)
      \/ Len(cols) = 1 /\ cols' = Append(newcols, b.oid) /\ newcols' = << >>
  <2>1. Len(cols) \in Nat /\ Len(cols) # 0
    BY <1>1, Elements, EmptySeq DEF Shapes
  <2> HIDE DEF b
  <2>2. CASE Len(cols) > 1
    BY <1>1, <2>2
  <2>3. CASE ~ (Len(cols) > 1)
    <3>1. Len(cols) = 1
      <4> DEFINE n == Len(cols)
      <4>1. n \in Nat /\ n # 0 /\ ~ (n > 1)
        BY <2>1, <2>3
      <4> HIDE DEF n
      <4>2. n = 1
        BY <4>1
      <4> QED BY <4>2 DEF n
    <3> QED BY <1>1, <2>3, <3>1, Zenon
  <2> QED BY <2>2, <2>3
<1>3. /\ Follows(o, b) /\ o \in Oid
      /\ result' \in Seq(AnyAnswer) /\ cols' \in Seq(Oid) /\ newcols' \in Seq(Oid)
      /\ RowsRight'
  BY <1>1, <1>2, ColumnTaken
<1>4. CacheRight'
  <2>1. Sound(cache) /\ Truthful(cache)
    BY DEF CacheRight
  <2>2. /\ b.oid \in Oid /\ o \preceq b.oid /\ b.val \in Value \cup {EndOfMibView}
        /\ b.val = EndOfMibView => After(o) = {} /\ b.oid = o
        /\ b.val \in Value => IsNext(o, b.oid) /\ b.val = MIB[b.oid]
    BY <1>3, FollowsMeans
  <2> HIDE DEF o, b
  <2>3. CASE b.val = EndOfMibView
    BY <1>1, <1>3, <2>1, <2>2, <2>3, SetEndTruthful DEF CacheRight
  <2>4. CASE b.val # EndOfMibView
    BY <1>1, <1>3, <2>1, <2>2, <2>4, SetNextValueTruthful DEF CacheRight
  <2> QED BY <2>3, <2>4
<1>5. Shapes'
  BY <1>1, <1>3 DEF Shapes
<1>6. AtRest' /\ Queues'
  BY <1>1 DEF AtRest, Queues
<1>7. FuturesRight' /\ CompletionsRight' /\ Called' /\ Placed' /\ Waiting' /\ Noted'
  <2>1. UNCHANGED <<setup, pendingnext, futures, calls, getq, nextq, completions>>
    BY <1>1
  <2>2. FuturesRight' /\ CompletionsRight' /\ Called'
    BY <2>1 DEF FuturesRight, CompletionsRight, MayFail, Called
  <2>3. Placed' /\ Waiting'
    BY <2>1 DEF Placed, Waiting, Queued, Done
  <2>4. Noted'
    BY <2>1 DEF Noted, OidOf, Caching
  <2> QED BY <2>2, <2>3, <2>4
<1> QED BY <1>3, <1>4, <1>5, <1>6, <1>7

\* The end of the look-ahead keeps the invariant.
LEMMA AheadTakenKeeps ==
    ASSUME IInv, AheadTaken, UNCHANGED setup
    PROVE  IInv'
<1> USE DEF IInv
<1>1. /\ UNCHANGED <<setup, cache, pendingnext, futures, calls, getq, nextq, completions>>
      /\ UNCHANGED workleft
      /\ pc = "ahead" /\ pc' = "collected" /\ result' = << >> /\ cols' = << >> /\ newcols' = << >>
  BY DEF AheadTaken
<1>2. Shapes'
  BY <1>1 DEF Shapes
<1>3. AtRest' /\ RowsRight'
  BY <1>1 DEF AtRest, Quiet, RowsRight
<1>4. Queues'
  BY <1>1 DEF Queues
<1> QED BY <1>1, <1>2, <1>3, <1>4, PassesOn

-----------------------------------------------------------------------------
(* Callbacks.                                                                *)

\* A signalled future is done; all others are as they were.
LEMMA Signalled ==
    ASSUME IInv, Signal, UNCHANGED setup
    PROVE  LET c == completions[1]
               k == futures[c.fut].kind
               o == futures[c.fut].oid
           IN  /\ Len(completions) >= 1 /\ c.fut \in 1 .. Len(futures)
               /\ k \in {"get", "next"} /\ o \in OIDS
               /\ Right(MayFail, k, o, c.ans) /\ c.ans \in AnyAnswer /\ c.ans.val # Pending
               /\ futures[c.fut].ans = NotDone(o)
               /\ futures' \in Seq(AnyFuture) /\ Len(futures') = Len(futures)
               /\ \A f \in 1 .. Len(futures) :
                     futures'[f] = IF f = c.fut THEN [kind |-> k, oid |-> o, ans |-> c.ans]
                                   ELSE futures[f]
               /\ completions' \in Seq([fut : 1 .. Len(futures), ans : AnyAnswer])
               /\ Len(completions') = Len(completions) - 1
               /\ \A i \in 1 .. Len(completions') :
                     completions'[i] = completions[i + 1] /\ i + 1 \in 1 .. Len(completions)
               /\ pc \in {"collected", "signalling"} /\ pc' = "signalling"
               /\ UNCHANGED <<setup, calls, getq, nextq, result, cols, newcols, workleft>>
<1> USE DEF IInv
<1> DEFINE C == [fut : 1 .. Len(futures), ans : AnyAnswer]
           c == completions[1]
           g == c.fut
           k == futures[g].kind
           o == futures[g].oid
<1>1. /\ completions # << >> /\ completions' = Tail(completions)
      /\ futures' = [futures EXCEPT ![g].ans = c.ans]
      /\ pc \in {"collected", "signalling"} /\ pc' = "signalling"
      /\ UNCHANGED <<setup, calls, getq, nextq, result, cols, newcols, workleft>>
  BY DEF Signal
<1>2. /\ Len(completions) >= 1 /\ Len(completions) \in Nat
      /\ completions' \in Seq(C) /\ Len(completions') = Len(completions) - 1
      /\ \A i \in 1 .. Len(completions') :
            completions'[i] = completions[i + 1] /\ i + 1 \in 1 .. Len(completions)
      /\ c \in C
  <2>1. completions \in Seq(C)
    BY DEF Shapes
  <2> HIDE DEF C
  <2> QED BY <1>1, <2>1, TailIs
<1>3. 1 \in 1 .. Len(completions) /\ g \in 1 .. Len(futures)
  BY <1>2
<1>4. k \in {"get", "next"} /\ o \in OIDS /\ o \in Oid
  BY <1>3, Elements
<1>5. Right(MayFail, k, o, c.ans)
  BY <1>3 DEF CompletionsRight
<1>6. c.ans \in AnyAnswer /\ c.ans.val # Pending
  <2> HIDE DEF k, o
  <2> QED BY <1>4, <1>5, RightTyped
<1>7. futures[g].ans = NotDone(o)
  <2>1. ~ Done(g)
    BY <1>3 DEF Waiting, Queued
  <2>2. \/ futures[g].ans = NotDone(o)
        \/ Right(MayFail, k, o, futures[g].ans)
    BY <1>3 DEF FuturesRight
  <2> HIDE DEF k, o
  <2> QED BY <2>1, <2>2, <1>4, RightTyped DEF Done
<1>8. /\ futures' \in Seq(AnyFuture) /\ Len(futures') = Len(futures)
      /\ \A f \in 1 .. Len(futures) :
            futures'[f] = IF f = g THEN [kind |-> k, oid |-> o, ans |-> c.ans] ELSE futures[f]
  <2>0. futures \in Seq(AnyFuture)
    BY DEF Shapes
  <2>1. futures[g] = [kind |-> k, oid |-> o, ans |-> futures[g].ans]
    <3>1. futures[g] \in AnyFuture
      BY <1>3, <2>0
    <3> HIDE DEF g
    <3> QED BY <3>1 DEF AnyFuture
  <2> DEFINE F == [kind |-> k, oid |-> o, ans |-> c.ans]
  <2>2. [futures[g] EXCEPT !.ans = c.ans] = F
    <3> DEFINE x == futures[g]
               a == c.ans
    <3>1. x = [kind |-> k, oid |-> o, ans |-> x.ans]
      BY <2>1
    <3> HIDE DEF x, a, k, o
    <3>2. [x EXCEPT !.ans = a] = [kind |-> k, oid |-> o, ans |-> a]
      BY <3>1
    <3> QED BY <3>2 DEF x, a
  <2>3. F \in AnyFuture
    <3> HIDE DEF k, o, c
    <3> QED BY <1>4, <1>6 DEF AnyFuture
  <2>4. futures' = [futures EXCEPT ![g] = F]
    <3>1. [futures EXCEPT ![g].ans = c.ans] = [futures EXCEPT ![g] = [futures[g] EXCEPT !.ans = c.ans]]
      OBVIOUS
    <3> QED BY <1>1, <2>2, <3>1
  <2> HIDE DEF F, g, c
  <2> QED BY <2>0, <2>3, <2>4, <1>3, ExceptSeq DEF F
<1> QED BY <1>1, <1>2, <1>3, <1>4, <1>5, <1>6, <1>7, <1>8

\* Signalling a future keeps the invariant.
LEMMA SignalKeeps ==
    ASSUME IInv, Signal, UNCHANGED setup
    PROVE  IInv'
<1> USE DEF IInv
<1> DEFINE c == completions[1]
           g == c.fut
           a == c.ans
           k == futures[g].kind
           o == futures[g].oid
           n == Len(completions)
           F == [kind |-> k, oid |-> o, ans |-> a]
<1>0. /\ n >= 1 /\ n \in Nat /\ 1 \in 1 .. n /\ g \in 1 .. Len(futures)
      /\ k \in {"get", "next"} /\ o \in OIDS /\ o \in Oid
      /\ Right(MayFail, k, o, a) /\ a \in AnyAnswer /\ a.val # Pending
      /\ futures' \in Seq(AnyFuture) /\ Len(futures') = Len(futures)
      /\ \A f \in 1 .. Len(futures) : futures'[f] = IF f = g THEN F ELSE futures[f]
      /\ completions' \in Seq([fut : 1 .. Len(futures), ans : AnyAnswer])
      /\ Len(completions') = n - 1
      /\ \A i \in 1 .. Len(completions') : completions'[i] = completions[i + 1] /\ i + 1 \in 1 .. n
      /\ pc \in {"collected", "signalling"} /\ pc' = "signalling"
      /\ UNCHANGED <<setup, calls, getq, nextq, result, cols, newcols, workleft>>
  <2>1. n \in Nat
    BY Elements
  <2>2. n >= 1 /\ o \in OIDS
    BY Signalled
  <2>3. 1 \in 1 .. n /\ o \in Oid
    BY <2>1, <2>2, OidsAreOids
  <2> QED BY <2>1, <2>2, <2>3, Signalled
<1>f. \A f \in 1 .. Len(futures) :
         /\ futures'[f].kind = futures[f].kind /\ futures'[f].oid = futures[f].oid
         /\ f # g => futures'[f] = futures[f]
  BY <1>0
<1>g. futures'[g].ans = a /\ futures'[g].kind = k /\ futures'[g].oid = o
  BY <1>0
<1>e. /\ \A i \in 1 .. Len(getq) : getq[i] \in 1 .. Len(futures)
      /\ \A i \in 1 .. Len(nextq) : nextq[i] \in 1 .. Len(futures)
      /\ \A i \in 1 .. n : completions[i].fut \in 1 .. Len(futures)
  BY Elements
<1>s. /\ cache' = IF k = "get" THEN (IF Caching THEN CacheGet(cache, o, a) ELSE cache)
                  ELSE (IF Caching THEN CacheNext(cache, o, a) ELSE cache)
      /\ pendingnext' = IF k = "get" \/ ~ Caching THEN pendingnext ELSE Without(pendingnext, o, a)
  BY DEF Signal, OidOf
<1> HIDE DEF c, g, a, k, o, F, n
<1>1. CacheRight'
  <2>1. Sound(cache) /\ Truthful(cache)
    BY DEF CacheRight
  <2>2. CASE k = "get"
    <3>1. GetRight(MayFail, o, a)
      BY <1>0, <2>2 DEF Right
    <3> QED BY <2>1, <2>2, <3>1, <1>0, <1>s, CacheGetKept DEF CacheRight
  <2>3. CASE k # "get"
    <3>1. NextRight(MayFail, o, a)
      BY <1>0, <2>3 DEF Right
    <3> QED BY <2>1, <2>3, <3>1, <1>0, <1>s, CacheNextKept DEF CacheRight
  <2> QED BY <2>2, <2>3
<1>2. FuturesRight'
  <2> SUFFICES ASSUME NEW f \in 1 .. Len(futures)
               PROVE  \/ futures'[f].ans = NotDone(futures'[f].oid)
                      \/ Right(MayFail, futures'[f].kind, futures'[f].oid, futures'[f].ans)
    BY <1>0 DEF FuturesRight, MayFail
  <2>1. CASE f = g
    BY <2>1, <1>0, <1>g
  <2>2. CASE f # g
    BY <2>2, <1>f DEF FuturesRight
  <2> QED BY <2>1, <2>2
<1>3. CompletionsRight'
  <2> SUFFICES ASSUME NEW i \in 1 .. Len(completions')
               PROVE  Right(MayFail, futures'[completions'[i].fut].kind,
                            futures'[completions'[i].fut].oid, completions'[i].ans)
    BY <1>0 DEF CompletionsRight, MayFail
  <2>1. completions'[i] = completions[i + 1] /\ i + 1 \in 1 .. n
    BY <1>0
  <2> QED BY <2>1, <1>e, <1>f DEF CompletionsRight, n
<1>4. AtRest' /\ RowsRight'
  <2>1. result' = << >> /\ cols' = << >> /\ newcols' = << >>
    BY <1>0 DEF AtRest, Quiet
  <2> QED BY <1>0, <2>1 DEF AtRest, Quiet, RowsRight
<1>5. Queues'
  BY <1>0, <1>e, <1>f, ZenonT(30) DEF Queues
<1>6. Placed'
  <2>1. \A i, j \in 1 .. Len(completions') : completions'[i].fut = completions'[j].fut => i = j
    <3> SUFFICES ASSUME NEW i \in 1 .. Len(completions'), NEW j \in 1 .. Len(completions'),
                        completions'[i].fut = completions'[j].fut
                 PROVE  i = j
      OBVIOUS
    <3>1. /\ completions'[i] = completions[i + 1] /\ i + 1 \in 1 .. Len(completions)
          /\ completions'[j] = completions[j + 1] /\ j + 1 \in 1 .. Len(completions)
      BY <1>0 DEF n
    <3>2. completions[i + 1].fut = completions[j + 1].fut
      BY <3>1
    <3>3. i + 1 = j + 1
      BY <3>1, <3>2, Zenon DEF Placed
    <3> QED BY <3>3
  <2>2. \A i \in 1 .. Len(completions') :
           /\ \A j \in 1 .. Len(getq) : getq[j] # completions'[i].fut
           /\ \A j \in 1 .. Len(nextq) : nextq[j] # completions'[i].fut
    <3> SUFFICES ASSUME NEW i \in 1 .. Len(completions')
                 PROVE  /\ \A j \in 1 .. Len(getq) : getq[j] # completions'[i].fut
                        /\ \A j \in 1 .. Len(nextq) : nextq[j] # completions'[i].fut
      OBVIOUS
    <3>1. completions'[i] = completions[i + 1] /\ i + 1 \in 1 .. Len(completions)
      BY <1>0 DEF n
    <3>2. /\ \A j \in 1 .. Len(getq) : getq[j] # completions[i + 1].fut
          /\ \A j \in 1 .. Len(nextq) : nextq[j] # completions[i + 1].fut
      BY <3>1 DEF Placed
    <3> QED BY <3>1, <3>2
  <2> QED BY <1>0, <2>1, <2>2 DEF Placed
<1>7. Waiting'
  <2> SUFFICES ASSUME NEW f \in 1 .. Len(futures)
               PROVE  Queued(f)' <=> futures'[f].ans.val = Pending
    BY <1>0 DEF Waiting, Done
  <2> DEFINE In(h) == \/ \E i \in 1 .. Len(getq) : getq[i] = h
                      \/ \E i \in 1 .. Len(nextq) : nextq[i] = h
             Due(h) == \E i \in 1 .. n : completions[i].fut = h
             Due2(h) == \E i \in 1 .. Len(completions') : completions'[i].fut = h
  <2>0. (Queued(f) <=> In(f) \/ Due(f)) /\ (Queued(f)' <=> In(f) \/ Due2(f))
    BY <1>0 DEF Queued, n
  <2>1. CASE f = g
    <3>1. ~ In(f)
      BY <2>1, <1>0 DEF Placed, n, g, c
    <3>2. ~ Due2(f)
      <4> SUFFICES ASSUME NEW i \in 1 .. Len(completions'), completions'[i].fut = g PROVE FALSE
        BY <2>1
      <4>1. i + 1 \in 1 .. n /\ completions[i + 1].fut = completions[1].fut
        BY <1>0 DEF g, c
      <4>2. i + 1 = 1
        BY <4>1, <1>0 DEF Placed, n
      <4> QED BY <4>2
    <3> QED BY <2>0, <2>1, <3>1, <3>2, <1>0, <1>g
  <2>2. CASE f # g
    <3>1. Due2(f) => Due(f)
      BY <1>0
    <3>2. Due(f) => Due2(f)
      <4> SUFFICES ASSUME NEW i \in 1 .. n, completions[i].fut = f PROVE Due2(f)
        OBVIOUS
      <4>1. i # 1
        BY <2>2 DEF g, c
      <4>2. i - 1 \in 1 .. Len(completions') /\ (i - 1) + 1 = i
        BY <4>1, <1>0
      <4>3. completions'[i - 1].fut = f
        BY <4>2, <1>0
      <4> QED BY <4>2, <4>3
    <3> QED BY <2>0, <2>2, <3>1, <3>2, <1>f DEF Waiting, Done
  <2> QED BY <2>1, <2>2
<1>8. /\ DOMAIN pendingnext' \subseteq DOMAIN pendingnext
      /\ pendingnext' = [p \in DOMAIN pendingnext' |-> pendingnext[p]]
      /\ \A p \in DOMAIN pendingnext :
            p \notin DOMAIN pendingnext' => Caching /\ k = "next" /\ p = o
  <2>1. pendingnext = [p \in DOMAIN pendingnext |-> pendingnext[p]]
    BY DEF Shapes
  <2>2. CASE pendingnext' = pendingnext
    BY <2>1, <2>2
  <2>3. CASE pendingnext' = [p \in DOMAIN pendingnext \ {o} |-> pendingnext[p]] /\ Caching /\ k = "next"
    BY <2>3
  <2> QED BY <2>2, <2>3, <1>0, <1>s DEF Without
<1>9. Noted'
  <2>1. Caching' = Caching
    BY <1>0 DEF Caching
  <2>2. \A p \in DOMAIN pendingnext' :
           futures'[pendingnext'[p]].kind = "next" /\ futures'[pendingnext'[p]].oid = p
    <3>1. \A p \in DOMAIN pendingnext : pendingnext[p] \in 1 .. Len(futures)
      BY DEF Shapes
    <3> QED BY <3>1, <1>8, <1>f DEF Noted, OidOf
  <2>n. Caching /\ k = "next" => pendingnext[o] = g
    BY <1>0 DEF Noted, OidOf, n, g, c, o, k
  <2>3. ASSUME Caching, NEW i \in 1 .. Len(nextq)
        PROVE  /\ futures'[nextq[i]].oid \in DOMAIN pendingnext'
               /\ pendingnext'[futures'[nextq[i]].oid] = nextq[i]
    <3>1. /\ futures'[nextq[i]].oid = futures[nextq[i]].oid
          /\ futures[nextq[i]].oid \in DOMAIN pendingnext
          /\ pendingnext[futures[nextq[i]].oid] = nextq[i]
      BY <2>3, <1>e, <1>f DEF Noted, OidOf
    <3>2. nextq[i] # g
      BY <1>0 DEF Placed, n, g, c
    <3> QED BY <3>1, <3>2, <2>n, <1>8
  <2>4. ASSUME Caching, NEW i \in 1 .. Len(completions'), futures'[completions'[i].fut].kind = "next"
        PROVE  /\ futures'[completions'[i].fut].oid \in DOMAIN pendingnext'
               /\ pendingnext'[futures'[completions'[i].fut].oid] = completions'[i].fut
    <3> DEFINE h == completions[i + 1].fut
    <3>0. completions'[i].fut = h /\ i + 1 \in 1 .. n /\ h \in 1 .. Len(futures)
      BY <1>0, <1>e
    <3>1. /\ futures'[h].oid = futures[h].oid
          /\ futures[h].oid \in DOMAIN pendingnext
          /\ pendingnext[futures[h].oid] = h
      BY <2>4, <3>0, <1>f DEF Noted, OidOf, n
    <3>2. h # g
      <4> SUFFICES ASSUME h = g PROVE FALSE
        OBVIOUS
      <4>1. i + 1 = 1
        BY <1>0, <3>0 DEF Placed, n, g, c
      <4> QED BY <4>1
    <3> HIDE DEF h
    <3> QED BY <3>0, <3>1, <3>2, <2>n, <1>8
  <2> QED BY <2>1, <2>2, <2>3, <2>4, <1>0 DEF Noted, OidOf
<1>10. Shapes'
  <2>1. pendingnext \in [DOMAIN pendingnext -> 1 .. Len(futures)] /\ DOMAIN pendingnext \subseteq OIDS
    BY DEF Shapes
  <2>2. /\ DOMAIN pendingnext' \subseteq OIDS
        /\ pendingnext' \in [DOMAIN pendingnext' -> 1 .. Len(futures)]
    BY <2>1, <1>8
  <2> QED BY <1>0, <2>2 DEF Shapes
<1>11. Called'
  BY <1>0 DEF Called
<1> QED BY <1>1, <1>2, <1>3, <1>4, <1>5, <1>6, <1>7, <1>9, <1>10, <1>11

-----------------------------------------------------------------------------
(* The invariant, and what follows from it.                                  *)

\* Every step keeps the invariant.
LEMMA NextKeeps == IInv /\ [Next]_vars => IInv'
<1> SUFFICES ASSUME IInv, [Next]_vars PROVE IInv'
  OBVIOUS
<1>1. CASE Client
  <2>1. PICK o \in OIDS : \/ GetCached(o) \/ GetQueued(o) \/ GetDirect(o)
                          \/ NextShared(o) \/ NextCached(o) \/ NextQueued(o) \/ NextDirect(o)
    BY <1>1 DEF Client
  <2>2. UNCHANGED setup
    BY <1>1 DEF Client
  <2> QED BY <2>1, <2>2, GetCachedKeeps, GetQueuedKeeps, GetDirectKeeps, NextSharedKeeps,
             NextCachedKeeps, NextQueuedKeeps, NextDirectKeeps
<1>2. CASE Step
  BY <1>2, IdleStepsKeep, PlainStepsKeep, StepBulkKeeps, BulkBindsKeeps, BulkEndsKeeps,
     TakeGetKeeps, GetsTakenKeeps, TakeFirstKeeps, FirstTakenKeeps, TakeAheadKeeps,
     AheadTakenKeeps, SignalKeeps DEF Step
<1>3. CASE UNCHANGED vars
  <2>1. /\ UNCHANGED <<setup, cache, pendingnext, futures, calls, getq, nextq, completions>>
        /\ UNCHANGED <<result, cols, newcols, pc, workleft>>
    BY <1>3 DEF vars, engineVars
  <2>2. Shapes' /\ AtRest' /\ Queues'
    BY <2>1 DEF IInv, Shapes, AtRest, Quiet, Queues, OidOf
  <2>3. RowsRight'
    <3>1. /\ BulkSize' = BulkSize /\ NextColumns' = NextColumns /\ BulkGets' = BulkGets
      BY <2>1 DEF BulkSize, NextColumns, GetColumns, BulkNexts, BulkGets, OidOf, MaxRep,
                 Caching, Lookahead
    <3>2. GetsLeft' = GetsLeft
      BY <2>1, <3>1 DEF GetsLeft, GetsAsked
    <3> QED BY <2>1, <3>1, <3>2 DEF IInv, RowsRight
  <2> QED BY <2>1, <2>2, <2>3, PassesOn DEF IInv
<1> QED BY <1>1, <1>2, <1>3 DEF Next

\* The inductive invariant.
LEMMA Invariant == Spec => []IInv
<1>1. Init => IInv
  BY InitIInv
<1>2. IInv /\ [Next]_vars => IInv'
  BY NextKeeps
<1> QED BY <1>1, <1>2, PTL DEF Spec

\* The types of main()'s arguments, the cache, the futures and the queues: a
\* queued, shared or completed future is one that an engine made.
THEOREM TypeCorrect == Spec => []TypeOK
<1>1. IInv => TypeOK
  <2> SUFFICES ASSUME IInv PROVE TypeOK
    OBVIOUS
  <2>1. Shapes /\ IsCache(cache)
    BY DEF IInv, CacheRight, Sound
  <2>2. /\ DOMAIN futures = 1 .. Len(futures) /\ DOMAIN calls = 1 .. Len(calls)
        /\ DOMAIN completions = 1 .. Len(completions)
        /\ \A f \in 1 .. Len(futures) : futures[f] \in AnyFuture
        /\ \A i \in 1 .. Len(calls) : calls[i] \in 1 .. Len(futures)
        /\ \A i \in 1 .. Len(completions) : completions[i].fut \in 1 .. Len(futures)
    <3>1. /\ DOMAIN futures = 1 .. Len(futures) /\ DOMAIN calls = 1 .. Len(calls)
          /\ DOMAIN completions = 1 .. Len(completions)
          /\ \A i \in 1 .. Len(calls) : calls[i] \in 1 .. Len(futures)
      BY <2>1 DEF Shapes
    <3>2. \A f \in 1 .. Len(futures) : futures[f] \in AnyFuture
      BY <2>1 DEF Shapes
    <3> QED BY <2>1, <3>1, <3>2, Elements
  <2>3. Range(getq) \cup Range(nextq) \subseteq 1 .. Len(futures)
    BY <2>1 DEF Shapes, Range
  <2>4. \A o \in DOMAIN pendingnext : pendingnext[o] \in 1 .. Len(futures)
    BY <2>1 DEF Shapes
  <2>5. \A f \in 1 .. Len(futures) : futures[f].kind \in {"get", "next"}
    BY <2>2 DEF AnyFuture
  <2> QED BY <2>1, <2>2, <2>3, <2>4, <2>5 DEF TypeOK, Shapes
<1> QED BY <1>1, Invariant, PTL

\* What step puts into the cache is true of the agent: the values, the gaps
\* that are known from prev_oid queries and from the look-ahead rows of a bulk
\* answer of any length, wherever the device cut it, and the end of the MIB.
THEOREM CacheIsTrue == Spec => []CacheIsTruthful
<1>1. IInv => CacheIsTruthful
  <2> SUFFICES ASSUME CacheRight PROVE CacheIsTruthful
    BY DEF IInv
  <2>1. IsCache(cache)
    BY DEF CacheRight, Sound
  <2>2. DOMAIN cache.nexts = 1 .. Len(cache.nexts)
    BY <2>1 DEF IsCache
  <2> QED BY <2>2 DEF CacheRight, Truthful, CacheIsTruthful, ValuesTrue, NextsTrue, EndTrue
<1> QED BY <1>1, Invariant, PTL

-----------------------------------------------------------------------------
(* Getnext queries are asked once: what pendingnext lets go, the cache knows.*)

\* The callback _cacheget makes the cache know more.
LEMMA CacheGetLearns ==
    ASSUME DOMAIN MIB # {}, NEW c, Sound(c), Truthful(c), NEW fails, NEW o \in Oid, NEW a,
           GetRight(fails, o, a)
    PROVE  Learns(c, CacheGet(c, o, a))
<1>0. EndOfMibView \notin Value /\ NoSuchObject # EndOfMibView /\ BackendError # EndOfMibView
  BY SentinelAssumption, EngineAssumption
<1>1. CASE a.val \in Value
  <2>1. CacheGet(c, o, a) = Set(c, o, a.val)
    BY <1>0, <1>1 DEF CacheGet
  <2> QED BY <2>1, SetLearns
<1>2. CASE a.val = EndOfMibView
  <2>1. After(o) = {}
    BY <1>0, <1>2, MIBAssumption DEF GetRight, AgentGet, Answer
  <2>2. CacheGet(c, o, a) = SetEnd(c, o)
    BY <1>0, <1>2 DEF CacheGet
  <2> QED BY <2>1, <2>2, SetEndLearns
<1>3. CASE a.val \notin Value /\ a.val # EndOfMibView
  BY <1>3 DEF CacheGet, Learns
<1> QED BY <1>1, <1>2, <1>3

\* So does _cachenext, and the cache knows the answer itself if it is a value.
LEMMA CacheNextLearns ==
    ASSUME DOMAIN MIB # {}, NEW c, Sound(c), Truthful(c), NEW fails, NEW o \in Oid, NEW a,
           NextRight(fails, o, a)
    PROVE  /\ Learns(c, CacheNext(c, o, a))
           /\ a.val \in Value => Covered(CacheNext(c, o, a), o)
<1>0. EndOfMibView \notin Value /\ BackendError \notin Value /\ BackendError # EndOfMibView
  BY SentinelAssumption, EngineAssumption
<1>1. CASE a.val \in Value
  <2>1. Follows(o, a)
    BY <1>0, <1>1 DEF NextRight, Answer
  <2>2. IsNext(o, a.oid) /\ a.oid \in Oid
    BY <1>1, <2>1, FollowsMeans
  <2>3. CacheNext(c, o, a) = SetNextValue(c, o, a.oid, a.val)
    BY <1>0, <1>1 DEF CacheNext
  <2> QED BY <2>2, <2>3, SetNextValueLearns
<1>2. CASE a.val = EndOfMibView
  <2>1. After(o) = {}
    BY <1>0, <1>2, FollowsMeans DEF NextRight, Answer
  <2>2. CacheNext(c, o, a) = SetEnd(c, o)
    BY <1>0, <1>2 DEF CacheNext
  <2> QED BY <1>0, <1>2, <2>1, <2>2, SetEndLearns
<1>3. CASE a.val \notin Value /\ a.val # EndOfMibView
  BY <1>3 DEF CacheNext, Learns
<1> QED BY <1>1, <1>2, <1>3

\* A binding that answers a query about o makes the cache know more.
LEMMA BindingLearns ==
    ASSUME DOMAIN MIB # {}, NEW c, Sound(c), Truthful(c), NEW o \in Oid, NEW b, Follows(o, b)
    PROVE  /\ b.val = EndOfMibView => Learns(c, SetEnd(c, b.oid))
           /\ b.val # EndOfMibView => Learns(c, SetNextValue(c, o, b.oid, b.val))
<1>1. /\ b.oid \in Oid /\ b.val \in Value \cup {EndOfMibView}
      /\ b.val = EndOfMibView => After(o) = {} /\ b.oid = o
      /\ b.val \in Value => IsNext(o, b.oid)
  BY FollowsMeans
<1> QED BY <1>1, SetEndLearns, SetNextValueLearns

\* No step makes the cache forget.
LEMMA StepLearns ==
    ASSUME DOMAIN MIB # {}, IInv, [Next]_vars
    PROVE  Learns(cache, cache')
<1>0. Sound(cache) /\ Truthful(cache)
  BY DEF IInv, CacheRight
<1>1. CASE UNCHANGED cache
  BY <1>1 DEF Learns, Valued, Covered
<1>2. ASSUME NEW o \in OIDS, GetDirect(o) PROVE Learns(cache, cache')
  <2>1. PICK a \in BackendGet(o) : cache' = IF Caching THEN CacheGet(cache, o, a) ELSE cache
    BY <1>2 DEF GetDirect
  <2>2. o \in Oid /\ GetRight(MayFail, o, a)
    BY OidsAreOids, BackendRight
  <2> QED BY <1>0, <1>1, <2>1, <2>2, CacheGetLearns
<1>3. ASSUME NEW o \in OIDS, NextDirect(o) PROVE Learns(cache, cache')
  <2>1. PICK a \in BackendNext(o) : cache' = IF Caching THEN CacheNext(cache, o, a) ELSE cache
    BY <1>3 DEF NextDirect
  <2>2. o \in Oid /\ NextRight(MayFail, o, a)
    BY OidsAreOids, BackendRight
  <2> QED BY <1>0, <1>1, <2>1, <2>2, CacheNextLearns
<1>4. CASE TakeGet
  <2> DEFINE q == OidOf(Head(getq))
             b == Head(result)
  <2>1. Follows(PrevOid(q), b) /\ PrevOid(q) \in Oid
    BY <1>4, FirstGetFollows, OidsAreOids
  <2>2. \/ b.val = EndOfMibView /\ cache' = SetEnd(cache, b.oid)
        \/ b.val # EndOfMibView /\ cache' = SetNextValue(cache, PrevOid(q), b.oid, b.val)
        \/ UNCHANGED cache
    <3>1. q \prec b.oid => b.val # EndOfMibView
      <4>1. q \in OIDS /\ q \in Oid /\ PrevOid(q) \prec q
        BY <1>4, FirstGetFollows, OidsAreOids
      <4>2. b.val = EndOfMibView => b.oid = PrevOid(q)
        BY <2>1, FollowsMeans
      <4> HIDE DEF q, b
      <4> QED BY <2>1, <4>1, <4>2, PrecTransitive, PrecIrreflexive
    <3> QED BY <1>4, <3>1 DEF TakeGet
  <2> HIDE DEF q, b
  <2> QED BY <1>0, <1>1, <2>1, <2>2, BindingLearns
<1>5. CASE TakeAhead
  <2> DEFINE o == Head(cols)
             b == Head(result)
  <2>1. /\ pc = "ahead" /\ result # << >> /\ cols # << >>
        /\ cache' = IF b.val = EndOfMibView THEN SetEnd(cache, b.oid)
                    ELSE SetNextValue(cache, o, b.oid, b.val)
    BY <1>5 DEF TakeAhead
  <2>2. Follows(o, b) /\ o \in Oid
    BY <2>1, FirstColumnFollows
  <2> HIDE DEF o, b
  <2> QED BY <1>0, <2>1, <2>2, BindingLearns
<1>6. CASE Signal /\ UNCHANGED setup
  <2> DEFINE a == completions[1].ans
             k == futures[completions[1].fut].kind
             o == futures[completions[1].fut].oid
  <2>1. k \in {"get", "next"} /\ o \in OIDS /\ Right(MayFail, k, o, a)
    BY <1>6, Signalled
  <2>2. \/ k = "get" /\ cache' = CacheGet(cache, o, a)
        \/ k # "get" /\ cache' = CacheNext(cache, o, a)
        \/ UNCHANGED cache
    BY <1>6 DEF Signal, OidOf
  <2>3. o \in Oid
    BY <2>1, OidsAreOids
  <2> HIDE DEF a, k, o
  <2> QED BY <1>0, <1>1, <2>1, <2>2, <2>3, CacheGetLearns, CacheNextLearns DEF Right
<1>7. CASE Client
  BY <1>1, <1>2, <1>3, <1>7 DEF Client, GetCached, GetQueued, NextShared, NextCached, NextQueued
<1>8. CASE Step
  BY <1>1, <1>4, <1>5, <1>6, <1>8 DEF Step, StepNothing, StepGet, StepNext, StepBulk,
     StepBulkFails, BulkBinds, BulkEnds, GetsTaken, TakeFirst, FirstTaken, AheadTaken, StepReturns
<1> QED BY <1>1, <1>7, <1>8 DEF Next, vars

\* A further call for f's oid shares a future or is answered by the cache.
Remembered(f) ==
    futures[f].kind = "next" /\ futures[f].ans.val \in Value \cup {EndOfMibView}
        => futures[f].oid \in DOMAIN pendingnext \/ Covered(cache, futures[f].oid)

Recalled == /\ Valued(cache)
            /\ Caching => \A f \in 1 .. Len(futures) : Remembered(f)

\* It stays so if each future is old or remembered and the cache knows what
\* leaves pendingnext.
LEMMA RecalledStays ==
    ASSUME IInv, Recalled, Learns(cache, cache'), UNCHANGED setup,
           Caching => /\ \A f \in 1 .. Len(futures') :
                            \/ f \in 1 .. Len(futures) /\ futures'[f] = futures[f]
                            \/ Remembered(f)'
                      /\ \A o \in DOMAIN pendingnext :
                            o \in DOMAIN pendingnext' \/ Covered(cache', o)
    PROVE  Recalled'
<1>1. Valued(cache')
  BY DEF Recalled, Learns
<1>2. ASSUME Caching, NEW f \in 1 .. Len(futures'), f \in 1 .. Len(futures),
             futures'[f] = futures[f]
      PROVE  Remembered(f)'
  <2>1. Remembered(f)
    BY <1>2 DEF Recalled
  <2>2. futures[f].oid \in Oid
    BY <1>2, Elements DEF IInv
  <2>3. Covered(cache, futures[f].oid) => Covered(cache', futures[f].oid)
    BY <2>2 DEF Learns
  <2> QED BY <1>2, <2>1, <2>3 DEF Remembered
<1>3. Caching' <=> Caching
  BY DEF Caching
<1> QED BY <1>1, <1>2, <1>3 DEF Recalled

\* The futures after a call that makes one.
LEMMA NewFutureIs ==
    ASSUME IInv, NEW kind, NEW o, NEW a, NewFuture(kind, o, a)
    PROVE  \A f \in 1 .. Len(futures') :
              \/ f \in 1 .. Len(futures) /\ futures'[f] = futures[f]
              \/ futures'[f] = [kind |-> kind, oid |-> o, ans |-> a]
<1> DEFINE F == Future(kind, o, a)
           T == AnyFuture \cup {F}
<1>1. futures' = Append(futures, F) /\ F = [kind |-> kind, oid |-> o, ans |-> a]
  BY DEF NewFuture, Future
<1>2. futures \in Seq(T) /\ F \in T
  <2>1. futures \in Seq(AnyFuture)
    BY DEF IInv, Shapes
  <2>2. futures \in [1 .. Len(futures) -> AnyFuture] /\ Len(futures) \in Nat
    BY <2>1
  <2> HIDE DEF F
  <2>3. futures \in [1 .. Len(futures) -> T]
    BY <2>2
  <2> HIDE DEF T
  <2>4. futures \in Seq(T)
    BY <2>2, <2>3
  <2> QED BY <2>4 DEF T
<1> HIDE DEF F, T
<1>3. Len(futures') = Len(futures) + 1 /\ Len(futures) \in Nat
      /\ futures'[Len(futures) + 1] = F
      /\ \A f \in 1 .. Len(futures) : futures'[f] = futures[f]
  BY <1>1, <1>2
<1> QED BY <1>1, <1>3

LEMMA RecalledKeeps ==
    ASSUME DOMAIN MIB # {}, IInv, Recalled, [Next]_vars
    PROVE  Recalled'
<1>0. Learns(cache, cache') /\ Sound(cache) /\ Truthful(cache)
  BY StepLearns DEF IInv, CacheRight
<1>s. UNCHANGED setup
  BY DEF Next, Client, Step, vars
<1>v. /\ EndOfMibView \notin Value /\ Pending \notin Value \cup {EndOfMibView}
      /\ BackendError \notin Value \cup {EndOfMibView}
  BY SentinelAssumption, EngineAssumption
<1>1. CASE UNCHANGED <<futures, pendingnext>>
  BY <1>0, <1>1, <1>s, RecalledStays
<1>2. ASSUME NEW o \in OIDS, NEW a, NewFuture("get", o, a), UNCHANGED pendingnext
      PROVE  Recalled'
  <2>1. ASSUME NEW f \in 1 .. Len(futures'),
               futures'[f] = [kind |-> "get", oid |-> o, ans |-> a]
        PROVE  Remembered(f)'
    <3>1. futures'[f].kind = "get"
      BY <2>1
    <3> QED BY <3>1 DEF Remembered
  <2>2. \A f \in 1 .. Len(futures') :
           \/ f \in 1 .. Len(futures) /\ futures'[f] = futures[f]
           \/ futures'[f] = [kind |-> "get", oid |-> o, ans |-> a]
    BY <1>2, NewFutureIs
  <2>3. \A p \in DOMAIN pendingnext : p \in DOMAIN pendingnext'
    BY <1>2
  <2> QED BY <1>0, <1>s, <2>1, <2>2, <2>3, RecalledStays
<1>3. ASSUME NEW o \in OIDS, NextCached(o) PROVE Recalled'
  <2>1. NewFuture("next", o, CachedNext(o)) /\ UNCHANGED <<cache, pendingnext>>
        /\ CachedNext(o).val # NotCached
    BY <1>3 DEF NextCached
  <2>2. ASSUME Caching PROVE Covered(cache', o)
    <3>1. GetNext(cache, o) # [oid |-> o, val |-> NotCached] /\ o \in Oid
      BY <2>1, <2>2, OidsAreOids DEF CachedNext
    <3> QED BY <1>0, <2>1, <3>1, AnsweredIsCovered
  <2>3. ASSUME Caching, NEW f \in 1 .. Len(futures'),
               futures'[f] = [kind |-> "next", oid |-> o, ans |-> CachedNext(o)]
        PROVE  Remembered(f)'
    <3>1. futures'[f].oid = o
      BY <2>3
    <3> QED BY <2>2, <2>3, <3>1 DEF Remembered
  <2> QED BY <1>0, <1>s, <2>1, <2>3, NewFutureIs, RecalledStays
<1>4. ASSUME NEW o \in OIDS, NextQueued(o) PROVE Recalled'
  <2>1. NewFuture("next", o, NotDone(o))
        /\ pendingnext' = IF Caching THEN With(pendingnext, o, Len(futures) + 1)
                                      ELSE pendingnext
    BY <1>4 DEF NextQueued
  <2>2. \A p \in DOMAIN pendingnext : p \in DOMAIN pendingnext'
    BY <2>1 DEF With
  <2>3. ASSUME NEW f \in 1 .. Len(futures'),
               futures'[f] = [kind |-> "next", oid |-> o, ans |-> NotDone(o)]
        PROVE  Remembered(f)'
    <3>1. futures'[f].ans.val = Pending
      BY <2>3 DEF NotDone, Answer
    <3> QED BY <1>v, <3>1 DEF Remembered
  <2> QED BY <1>0, <1>s, <2>1, <2>2, <2>3, NewFutureIs, RecalledStays
<1>5. ASSUME NEW o \in OIDS, NextDirect(o) PROVE Recalled'
  <2>1. PICK a \in BackendNext(o) :
           /\ NewFuture("next", o, a)
           /\ cache' = IF Caching THEN CacheNext(cache, o, a) ELSE cache
           /\ pendingnext' =
                 IF Caching THEN Without(With(pendingnext, o, Len(futures) + 1), o, a)
                            ELSE pendingnext
    BY <1>5 DEF NextDirect
  <2>2. o \in Oid /\ NextRight(MayFail, o, a)
    BY OidsAreOids, BackendRight
  <2>3. ASSUME Caching PROVE o \in DOMAIN pendingnext' \/ Covered(cache', o)
    <3>1. CASE a.val \in Value
      BY <1>0, <2>1, <2>2, <2>3, <3>1, CacheNextLearns
    <3>2. CASE a.val \notin Value
      BY <2>1, <2>3, <3>2 DEF Without, With
    <3> QED BY <3>1, <3>2
  <2>4. \A p \in DOMAIN pendingnext : p = o \/ p \in DOMAIN pendingnext'
    BY <2>1 DEF Without, With
  <2>5. ASSUME Caching, NEW f \in 1 .. Len(futures'),
               futures'[f] = [kind |-> "next", oid |-> o, ans |-> a]
        PROVE  Remembered(f)'
    <3>1. futures'[f].oid = o
      BY <2>5
    <3> QED BY <2>3, <2>5, <3>1 DEF Remembered
  <2> QED BY <1>0, <1>s, <2>1, <2>3, <2>4, <2>5, NewFutureIs, RecalledStays
<1>6. CASE Signal
  <2> DEFINE g == completions[1].fut
             a == completions[1].ans
             k == futures[g].kind
             o == futures[g].oid
  <2>1. /\ 1 \in 1 .. Len(completions) /\ g \in 1 .. Len(futures)
        /\ o \in OIDS /\ k \in {"get", "next"} /\ Right(MayFail, k, o, a)
        /\ Len(futures') = Len(futures)
        /\ \A f \in 1 .. Len(futures) :
              futures'[f] = IF f = g THEN [kind |-> k, oid |-> o, ans |-> a] ELSE futures[f]
    <3>1. Len(completions) \in Nat
      BY DEF IInv, Shapes
    <3>2. Len(completions) >= 1
      BY <1>6, <1>s, Signalled
    <3>3. 1 \in 1 .. Len(completions)
      BY <3>1, <3>2
    <3>4. /\ g \in 1 .. Len(futures)
          /\ o \in OIDS /\ k \in {"get", "next"} /\ Right(MayFail, k, o, a)
          /\ Len(futures') = Len(futures)
      BY <1>6, <1>s, Signalled
    <3>5. \A f \in 1 .. Len(futures) :
            futures'[f] = IF f = g THEN [kind |-> k, oid |-> o, ans |-> a] ELSE futures[f]
      BY <1>6, <1>s, Signalled
    <3> HIDE DEF g, a, k, o
    <3> QED BY <3>3, <3>4, <3>5
  <2>2. /\ k = "get" => UNCHANGED pendingnext
        /\ k # "get" => /\ cache' = IF Caching THEN CacheNext(cache, o, a) ELSE cache
                        /\ pendingnext' = IF Caching THEN Without(pendingnext, o, a)
                                                     ELSE pendingnext
    BY <1>6 DEF Signal, OidOf
  <2>3. Caching /\ k = "next" => o \in DOMAIN pendingnext
    BY <2>1 DEF IInv, Noted, OidOf
  <2>4. o \in Oid
    BY <2>1, OidsAreOids
  <2> HIDE DEF g, a, k, o
  <2>5. ASSUME Caching, k = "next" PROVE o \in DOMAIN pendingnext' \/ Covered(cache', o)
    <3>1. CASE a.val \in Value
      BY <1>0, <2>1, <2>2, <2>4, <2>5, <3>1, CacheNextLearns DEF Right
    <3>2. CASE a.val \notin Value
      BY <2>2, <2>3, <2>5, <3>2 DEF Without
    <3> QED BY <3>1, <3>2
  <2>6. ASSUME Caching PROVE \A p \in DOMAIN pendingnext : p \in DOMAIN pendingnext' \/ Covered(cache', p)
    <3> SUFFICES ASSUME NEW p \in DOMAIN pendingnext, p \notin DOMAIN pendingnext'
                 PROVE  Covered(cache', p)
      OBVIOUS
    <3>1. k = "next" /\ p = o
      BY <2>1, <2>2 DEF Without
    <3> QED BY <2>5, <2>6, <3>1
  <2>7. ASSUME Caching, NEW f \in 1 .. Len(futures'), futures'[f] # futures[f]
        PROVE  Remembered(f)'
    <3>1. f = g /\ futures'[f].kind = k /\ futures'[f].oid = o
      BY <2>1, <2>7
    <3> QED BY <2>5, <2>7, <3>1 DEF Remembered
  <2> QED BY <1>0, <1>s, <2>1, <2>6, <2>7, RecalledStays
<1>7. CASE Client
  <2>1. PICK o \in OIDS : \/ GetCached(o) \/ GetQueued(o) \/ GetDirect(o)
                          \/ NextShared(o) \/ NextCached(o) \/ NextQueued(o) \/ NextDirect(o)
    BY <1>7 DEF Client
  <2>2. CASE GetCached(o) \/ GetQueued(o) \/ GetDirect(o)
    BY <1>2, <2>2 DEF GetCached, GetQueued, GetDirect
  <2>3. CASE NextShared(o)
    BY <1>1, <2>3 DEF NextShared
  <2> QED BY <1>3, <1>4, <1>5, <2>1, <2>2, <2>3
<1>8. CASE Step
  <2>1. CASE ~ Signal
    <3>1. UNCHANGED <<futures, pendingnext>>
      BY <1>8, <2>1 DEF Step, StepNothing, StepGet, StepNext, StepBulk, StepBulkFails,
         BulkBinds, BulkEnds, TakeGet, GetsTaken, TakeFirst, FirstTaken, TakeAhead, AheadTaken,
         StepReturns
    <3> QED BY <1>1, <3>1
  <2> QED BY <1>6, <2>1
<1>9. CASE UNCHANGED vars
  BY <1>1, <1>9 DEF vars
<1> QED BY <1>7, <1>8, <1>9 DEF Next

\* With --cache the agent is asked for the object after an oid once: while its
\* future is not done, _getnext hands it to every further caller (pendingnext),
\* also between the arrival of the answer and the last callback, and from then
\* on the cache answers, because it never forgets what the agent said.  (An
\* agent without any object is left out: setend of the empty oid, the prev_oid
\* of (0,), would make the cache forget the end it knew.)
THEOREM AskedOnce == DOMAIN MIB # {} => (Spec => []NextsAskedOnce)
<1> SUFFICES ASSUME DOMAIN MIB # {} PROVE Spec => []NextsAskedOnce
  OBVIOUS
<1>1. Init => Recalled
  <2> SUFFICES ASSUME Init PROVE Recalled
    OBVIOUS
  <2>1. futures = << >> /\ cache.nexts = << >>
    BY DEF Init, EmptyCache
  <2> QED BY <2>1 DEF Recalled, Valued
<1>2. IInv /\ Recalled /\ [Next]_vars => Recalled'
  BY RecalledKeeps
<1>3. IInv /\ Recalled => NextsAskedOnce
  <2> SUFFICES ASSUME IInv, Recalled, Caching, NEW f \in DOMAIN futures,
                      futures[f].kind = "next", futures[f].ans.val # BackendError
               PROVE  IF Done(f)
                      THEN \/ OidOf(f) \in DOMAIN pendingnext
                           \/ GetNext(cache, OidOf(f)).val # NotCached
                      ELSE OidOf(f) \in DOMAIN pendingnext /\ pendingnext[OidOf(f)] = f
    BY DEF NextsAskedOnce
  <2>1. f \in 1 .. Len(futures)
    BY DEF IInv, Shapes
  <2>2. OidOf(f) \in Oid /\ OidOf(f) = futures[f].oid
    BY <2>1, Elements DEF IInv, OidOf
  <2>3. CASE Done(f)
    <3>1. NextRight(MayFail, OidOf(f), futures[f].ans)
      <4>1. \/ futures[f].ans = NotDone(futures[f].oid)
            \/ Right(MayFail, futures[f].kind, futures[f].oid, futures[f].ans)
        BY <2>1 DEF IInv, FuturesRight
      <4>2. futures[f].ans # NotDone(futures[f].oid)
        BY <2>3 DEF Done, NotDone, Answer
      <4> QED BY <2>2, <4>1, <4>2 DEF Right
    <3>2. futures[f].ans.val \in Value \cup {EndOfMibView}
      <4>1. Follows(OidOf(f), futures[f].ans)
        BY <3>1 DEF NextRight, Answer
      <4> QED BY <2>2, <4>1, FollowsMeans
    <3>3. OidOf(f) \in DOMAIN pendingnext \/ Covered(cache, OidOf(f))
      BY <2>1, <2>2, <3>2 DEF Recalled, Remembered
    <3>4. Sound(cache) /\ Valued(cache)
      BY DEF IInv, CacheRight, Recalled
    <3> QED BY <2>2, <2>3, <3>3, <3>4, CoveredIsAnswered
  <2>4. CASE ~ Done(f)
    <3>1. Queued(f)
      BY <2>1, <2>4 DEF IInv, Waiting
    <3>2. \A i \in 1 .. Len(getq) : getq[i] # f
      BY DEF IInv, Queues
    <3> QED BY <2>4, <3>1, <3>2 DEF IInv, Noted, Queued
  <2> QED BY <2>3, <2>4
<1> QED BY <1>1, <1>2, <1>3, Invariant, PTL DEF Spec

\* A set whose elements are all equal has one or none.
LEMMA OneOrNone ==
    ASSUME NEW S, \A i, j \in S : i = j
    PROVE  Cardinality(S) = IF S = {} THEN 0 ELSE 1
<1>1. CASE S = {}
  BY <1>1, FS_EmptySet
<1>2. CASE S # {}
  <2>1. PICK i \in S : S = {i}
    BY <1>2
  <2> QED BY <1>2, <2>1, FS_Singleton
<1> QED BY <1>1, <1>2

\* A future that is not done is in exactly one place, a done one in none: no
\* step drops a query it did not answer, or completes one twice.
THEOREM NothingLost == Spec => []NoFutureLost
<1>1. IInv => NoFutureLost
  <2> SUFFICES ASSUME IInv, NEW f \in DOMAIN futures
               PROVE  Cardinality(Positions(getq, f)) + Cardinality(Positions(nextq, f))
                      + Cardinality({i \in DOMAIN completions : completions[i].fut = f})
                          = IF Done(f) THEN 0 ELSE 1
    BY DEF NoFutureLost
  <2>1. /\ f \in 1 .. Len(futures)
        /\ DOMAIN getq = 1 .. Len(getq) /\ DOMAIN nextq = 1 .. Len(nextq)
        /\ DOMAIN completions = 1 .. Len(completions)
        /\ Len(getq) \in Nat /\ Len(nextq) \in Nat /\ Len(completions) \in Nat
    BY DEF IInv, Shapes
  <2> DEFINE gets  == Positions(getq, f)
             nexts == Positions(nextq, f)
             due   == {i \in DOMAIN completions : completions[i].fut = f}
  <2>2. /\ gets # {}  <=> \E i \in 1 .. Len(getq) : getq[i] = f
        /\ nexts # {} <=> \E i \in 1 .. Len(nextq) : nextq[i] = f
        /\ due # {}   <=> \E i \in 1 .. Len(completions) : completions[i].fut = f
    BY <2>1 DEF Positions
  <2>3. /\ \A i, j \in gets : i = j
        /\ \A i, j \in nexts : i = j
        /\ \A i, j \in due : i = j
    BY <2>1 DEF Positions, IInv, Placed
  <2>4. gets # {} => nexts = {}
    BY <2>2 DEF IInv, Queues
  <2>5. gets # {} \/ nexts # {} => due = {}
    BY <2>2 DEF IInv, Placed
  <2>6. gets # {} \/ nexts # {} \/ due # {} <=> ~ Done(f)
    BY <2>1, <2>2 DEF IInv, Waiting, Queued
  <2> HIDE DEF gets, nexts, due
  <2>7. /\ Cardinality(gets) = IF gets = {} THEN 0 ELSE 1
        /\ Cardinality(nexts) = IF nexts = {} THEN 0 ELSE 1
        /\ Cardinality(due) = IF due = {} THEN 0 ELSE 1
    BY <2>3, OneOrNone
  <2>8. Cardinality(gets) + Cardinality(nexts) + Cardinality(due) = IF Done(f) THEN 0 ELSE 1
    BY <2>4, <2>5, <2>6, <2>7
  <2> QED BY <2>8 DEF gets, nexts, due
<1> QED BY <1>1, Invariant, PTL

\* engine.py:29: a step returns False only when every future is completed,
\* also those that callbacks of this very step asked for.
THEOREM FalseIsFinal == Spec => FalseMeansAllDone
<1>1. IInv /\ [Next]_vars =>
          [(StepNothing \/ StepReturns) /\ ~ workleft'
              => \A f \in DOMAIN futures : futures[f].ans.val # Pending]_vars
  <2> SUFFICES ASSUME IInv, StepNothing \/ StepReturns, ~ workleft', NEW f \in DOMAIN futures
               PROVE  futures[f].ans.val # Pending
    OBVIOUS
  <2>1. f \in 1 .. Len(futures)
    BY DEF IInv, Shapes
  <2>2. getq = << >> /\ nextq = << >>
    BY DEF StepNothing, StepReturns, HasWork
  <2>3. completions = << >>
    BY DEF StepNothing, StepReturns, IInv, AtRest
  <2>4. ~ Queued(f)
    BY <2>2, <2>3 DEF Queued
  <2> QED BY <2>1, <2>4 DEF IInv, Waiting, Done
<1> QED BY <1>1, Invariant, PTL DEF Spec, FalseMeansAllDone

-----------------------------------------------------------------------------
(* What clients see is a QueryService.                                      *)

\* The elements of a list.
LEMMA SeqElements ==
    ASSUME NEW S, NEW q \in Seq(S)
    PROVE  Len(q) \in Nat /\ DOMAIN q = 1 .. Len(q) /\ \A i \in 1 .. Len(q) : q[i] \in S
OBVIOUS

\* A list without its last element.
LEMMA PrefixIs ==
    ASSUME NEW S, NEW s \in Seq(S), NEW t \in Seq(S), Len(t) = Len(s) + 1,
           \A i \in 1 .. Len(s) : t[i] = s[i]
    PROVE  SubSeq(t, 1, Len(s)) = s
OBVIOUS

\* The agent and the oids of the abstract module are those of this one.
LEMMA SamePrec == \A a, b : Service!\prec(a, b) <=> a \prec b
BY DEF Service!\prec, \prec

\* What follows an oid is the same in both.
LEMMA SameAfter == \A o : Service!After(o) = After(o)
BY SamePrec DEF Service!After, After

\* So is what comes next.
LEMMA SameNext == \A o, k : Service!IsNext(o, k) <=> IsNext(o, k)
BY SameAfter, SamePrec DEF Service!IsNext, IsNext, Service!\preceq, \preceq

\* So is what hides an oid from the query for its prev_oid.
LEMMA SameHidden == \A o : Service!Hidden(o) <=> \E k \in After(PrevOid(o)) : k \prec o
<1>1. \A o : Service!PrevOid(o) = PrevOid(o)
  BY DEF Service!PrevOid, PrevOid
<1> QED BY <1>1, SameAfter, SamePrec DEF Service!Hidden

\* What follows an oid is what the service answers a getnext with.
LEMMA ServiceNextFollows ==
    ASSUME NEW o \in Oid, NEW a, Follows(o, a)
    PROVE  a = Service!AgentNext(o)
<1>1. CASE After(o) = {}
  <2>1. a = [oid |-> o, val |-> EndOfMibView]
    BY <1>1 DEF Follows, IsNext
  <2> QED BY <1>1, <2>1, SameAfter DEF Service!AgentNext
<1>2. CASE After(o) # {}
  <2>1. IsNext(o, a.oid) /\ a = [oid |-> a.oid, val |-> MIB[a.oid]] /\ a.oid \in After(o)
    BY <1>2 DEF Follows, IsNext
  <2> DEFINE k == CHOOSE k \in Service!After(o) : Service!IsNext(o, k)
  <2>2. k \in Service!After(o) /\ Service!IsNext(o, k)
    <3>1. \E x \in Service!After(o) : Service!IsNext(o, x)
      BY <2>1, SameAfter, SameNext
    <3> QED BY <3>1, Zenon
  <2>3. k = a.oid
    BY <2>1, <2>2, SameNext, NextIsUnique
  <2>4. Service!After(o) # {}
    BY <1>2, SameAfter
  <2>5. Service!AgentNext(o) = [oid |-> k, val |-> MIB[k]]
    BY <2>4, Zenon DEF Service!AgentNext
  <2> HIDE DEF k
  <2> QED BY <2>1, <2>3, <2>5
<1> QED BY <1>1, <1>2

\* A right answer is one that the service promises.
LEMMA RightIsPromised ==
    ASSUME NEW kind, NEW o \in Oid, NEW a, Right(MayFail, kind, o, a)
    PROVE  a \in Service!Answers(kind, o)
<1>1. CASE kind = "get"
  <2>1. GetRight(MayFail, o, a)
    BY <1>1 DEF Right
  <2> QED BY <1>1, <2>1, SameAfter, SameHidden DEF GetRight, Service!Answers, Service!GetAnswers,
             Service!AgentGet, AgentGet, Service!Answer, Answer, MayFail
<1>2. CASE kind # "get"
  <2>1. NextRight(MayFail, o, a)
    BY <1>2 DEF Right
  <2> QED BY <1>2, <2>1, ServiceNextFollows DEF NextRight, Service!Answers, Service!NextAnswers,
             Service!Answer, Answer, MayFail
<1> QED BY <1>1, <1>2

\* What clients see: what each of their calls asked, and its answer.
Seen == [i \in DOMAIN calls |-> futures[calls[i]]]

\* Seen is a list as long as that of the calls.
LEMMA SeenIs ==
    ASSUME Shapes
    PROVE  /\ Len(calls) \in Nat /\ DOMAIN calls = 1 .. Len(calls)
           /\ Seen \in Seq(AnyFuture) /\ Len(Seen) = Len(calls) /\ DOMAIN Seen = 1 .. Len(calls)
           /\ \A i \in 1 .. Len(calls) :
                 calls[i] \in 1 .. Len(futures) /\ Seen[i] = futures[calls[i]]
<1>1. /\ Len(calls) \in Nat /\ DOMAIN calls = 1 .. Len(calls)
      /\ \A i \in 1 .. Len(calls) : calls[i] \in 1 .. Len(futures)
  BY DEF Shapes
<1>2. \A f \in 1 .. Len(futures) : futures[f] \in AnyFuture
  BY DEF Shapes
<1> QED BY <1>1, <1>2 DEF Seen

\* A call appends what it asks, with an answer only if there is a right one.
LEMMA CallIsAsk ==
    ASSUME IInv, IInv', UNCHANGED setup,
           Len(calls') = Len(calls) + 1,
           \A i \in 1 .. Len(calls) : calls'[i] = calls[i],
           \A f \in 1 .. Len(futures) : futures'[f] = futures[f]
    PROVE  Service!Next
<1> DEFINE s == Seen
           t == Seen'
           n == Len(calls)
           f == calls'[n + 1]
           c == futures'[f]
<1>1. /\ n \in Nat /\ s \in Seq(AnyFuture) /\ Len(s) = n
      /\ \A i \in 1 .. n : calls[i] \in 1 .. Len(futures) /\ s[i] = futures[calls[i]]
  BY SeenIs DEF IInv
<1>2. /\ t \in Seq(AnyFuture) /\ Len(t) = n + 1
      /\ \A i \in 1 .. n + 1 : calls'[i] \in 1 .. Len(futures') /\ t[i] = futures'[calls'[i]]
  <2>1. /\ DOMAIN calls' = 1 .. n + 1
        /\ \A i \in 1 .. n + 1 : calls'[i] \in 1 .. Len(futures')
    <3>1. calls' \in Seq(1 .. Len(futures'))
      BY DEF IInv, Shapes
    <3> QED BY <3>1, SeqElements
  <2>2. \A h \in 1 .. Len(futures') : futures'[h] \in AnyFuture
    <3>1. futures' \in Seq(AnyFuture)
      BY DEF IInv, Shapes
    <3> QED BY <3>1, SeqElements
  <2> QED BY <1>1, <2>1, <2>2 DEF Seen
<1>3. f \in 1 .. Len(futures') /\ t[n + 1] = c
  BY <1>1, <1>2
<1>4. c.kind \in {"get", "next"} /\ c.oid \in OIDS /\ c.oid \in Oid
  <2>1. c \in AnyFuture
    BY <1>1, <1>2, <1>3
  <2> QED BY <2>1, OidsAreOids DEF AnyFuture
<1>5. c.ans = NotDone(c.oid) \/ Right(MayFail, c.kind, c.oid, c.ans)
  BY <1>3 DEF IInv, FuturesRight, MayFail
<1>6. c.ans \in Service!Answers(c.kind, c.oid) \cup {Service!Answer(c.oid, Pending)}
  <2> HIDE DEF c
  <2> QED BY <1>4, <1>5, RightIsPromised DEF NotDone, Answer, Service!Answer
<1>7. SubSeq(t, 1, Len(s)) = s
  <2>1. \A i \in 1 .. n : t[i] = s[i]
    BY <1>1, <1>2
  <2> HIDE DEF s, t
  <2> QED BY <1>1, <1>2, <2>1, PrefixIs
<1>8. Service!Ask
  <2> HIDE DEF c
  <2>1. t[Len(t)] = c
    BY <1>1, <1>2, <1>3
  <2> QED BY <1>1, <1>2, <1>4, <1>6, <1>7, <2>1 DEF Service!Ask, Seen
<1> QED BY <1>8 DEF Service!Next

\* Signal answers an open call, and those that share its future with it.
LEMMA SignalIsReply ==
    ASSUME IInv, Signal, UNCHANGED setup
    PROVE  Service!Next
<1> DEFINE s == Seen
           t == Seen'
           n == Len(calls)
           g == completions[1].fut
           a == completions[1].ans
           k == futures[g].kind
           o == futures[g].oid
           F == [kind |-> k, oid |-> o, ans |-> a]
<1>1. /\ n \in Nat /\ s \in Seq(AnyFuture) /\ Len(s) = n /\ DOMAIN s = 1 .. n
      /\ \A i \in 1 .. n : calls[i] \in 1 .. Len(futures) /\ s[i] = futures[calls[i]]
      /\ DOMAIN calls = 1 .. n
  BY SeenIs DEF IInv
<1>2. /\ g \in 1 .. Len(futures) /\ o \in Oid /\ Right(MayFail, k, o, a)
      /\ futures' \in Seq(AnyFuture) /\ Len(futures') = Len(futures)
      /\ \A f \in 1 .. Len(futures) : futures'[f] = IF f = g THEN F ELSE futures[f]
      /\ calls' = calls
  BY Signalled, OidsAreOids
<1>3. /\ t \in Seq(AnyFuture) /\ Len(t) = n
      /\ \A i \in 1 .. n : t[i] = IF calls[i] = g THEN F ELSE s[i]
  <2>1. \A h \in 1 .. Len(futures') : futures'[h] \in AnyFuture
    BY <1>2
  <2> HIDE DEF F, g
  <2> QED BY <1>1, <1>2, <2>1 DEF Seen
<1>4. PICK i \in 1 .. n : calls[i] = g
  BY <1>2 DEF IInv, Called
<1>5. s[i] = futures[g] /\ futures[g].ans.val = Pending
  <2>1. Queued(g)
    <3>1. 1 \in 1 .. Len(completions)
      BY Signalled
    <3> QED BY <3>1 DEF Queued
  <2> QED BY <1>1, <1>2, <1>4, <2>1 DEF IInv, Waiting, Done
<1>6. F = [s[i] EXCEPT !.ans = a]
  <2>1. futures[g] \in AnyFuture
    <3>1. futures \in Seq(AnyFuture)
      BY DEF IInv, Shapes
    <3> QED BY <1>2, <3>1, SeqElements
  <2> QED BY <1>5, <2>1 DEF AnyFuture
<1>7. a \in Service!Answers(s[i].kind, s[i].oid)
  BY <1>2, <1>5, RightIsPromised
<1>8. \A j \in 1 .. n : t[j] = s[j] \/ (s[j] = s[i] /\ t[j] = t[i])
  <2> HIDE DEF F, g
  <2> QED BY <1>1, <1>3, <1>4
<1>9. t[i] = F
  BY <1>3, <1>4
<1>10. Service!Reply
  <2> HIDE DEF F, g, a
  <2>1. t[i] \in {[s[i] EXCEPT !.ans = b] : b \in Service!Answers(s[i].kind, s[i].oid)}
    BY <1>6, <1>7, <1>9
  <2>2. Service!Open(s[i])
    BY <1>5 DEF Service!Open
  <2>3. Len(t) = Len(s) /\ i \in DOMAIN s
    BY <1>1, <1>3
  <2>4. \A j \in DOMAIN s : t[j] = s[j] \/ (s[j] = s[i] /\ t[j] = t[i])
    BY <1>1, <1>8
  <2>5. \E x \in DOMAIN s :
           /\ Service!Open(s[x])
           /\ t[x] \in {[s[x] EXCEPT !.ans = b] : b \in Service!Answers(s[x].kind, s[x].oid)}
           /\ \A j \in DOMAIN s : t[j] = s[j] \/ (s[j] = s[x] /\ t[j] = t[x])
    <3> HIDE DEF s, t
    <3> QED BY <2>1, <2>2, <2>3, <2>4
  <2> QED BY <2>3, <2>5, Zenon DEF Service!Reply, Seen
<1> QED BY <1>10 DEF Service!Next

\* engine.py:14-44: what clients see of the engines that main() stacks is a
\* service that answers every call once, with what the agent holds, and fails
\* one only for a reason: the caches, the sharing of futures, the bulk queries
\* and the look-ahead do not show.
THEOREM Refinement == Spec => ImplementsQueryService
<1>1. Init => Service!Init
  <2> SUFFICES ASSUME Init PROVE Service!Init
    OBVIOUS
  <2>1. calls = << >> /\ setup.fails \in BOOLEAN
    BY EngineAssumption DEF Init
  <2>2. [i \in DOMAIN calls |-> futures[calls[i]]] = << >>
    BY <2>1
  <2> QED BY <2>1, <2>2 DEF Service!Init
<1>2. IInv /\ IInv' /\ [Next]_vars => [Service!Next]_<<Seen, setup.fails>>
  <2> SUFFICES ASSUME IInv, IInv', [Next]_vars
               PROVE  Service!Next \/ UNCHANGED <<Seen, setup.fails>>
    OBVIOUS
  <2>1. CASE Client
    <3>1. /\ UNCHANGED setup
          /\ Len(calls') = Len(calls) + 1
          /\ \A i \in 1 .. Len(calls) : calls'[i] = calls[i]
          /\ \A f \in 1 .. Len(futures) : futures'[f] = futures[f]
      <4>1. /\ UNCHANGED setup
            /\ \E f : calls' = Append(calls, f)
            /\ futures' = futures \/ \E x : futures' = Append(futures, x)
        BY <2>1 DEF Client, GetCached, GetQueued, GetDirect, NextShared, NextCached,
                    NextQueued, NextDirect, NewFuture
      <4>2. calls \in Seq(1 .. Len(futures)) /\ futures \in Seq(AnyFuture)
        BY DEF IInv, Shapes
      <4> QED BY <4>1, <4>2
    <3> QED BY <3>1, CallIsAsk
  <2>2. CASE Signal /\ UNCHANGED setup
    BY <2>2, SignalIsReply
  <2>3. CASE Step /\ ~ Signal
    <3>1. UNCHANGED <<calls, futures, setup>>
      BY <2>3 DEF Step, StepNothing, StepGet, StepNext, StepBulk, StepBulkFails,
                  BulkBinds, BulkEnds, TakeGet, GetsTaken, TakeFirst, FirstTaken,
                  TakeAhead, AheadTaken, StepReturns
    <3> QED BY <3>1 DEF Seen
  <2>4. CASE UNCHANGED vars
    BY <2>4 DEF vars, Seen
  <2> QED BY <2>1, <2>2, <2>3, <2>4 DEF Next, Step
<1>3. [Service!Next]_<<Seen, setup.fails>>
          <=> [Service!Next]_<<[i \in DOMAIN calls |-> futures[calls[i]]], setup.fails>>
  BY DEF Seen
<1> QED BY <1>1, <1>2, <1>3, Invariant, PTL DEF Spec, ImplementsQueryService, Service!Spec
=============================================================================
