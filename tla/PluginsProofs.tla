--------------------------- MODULE PluginsProofs ---------------------------
(* What the collector tells Nagios, for any plugins, devices and limits: no  *)
(* alert is lost, thresholds survive their text, and the exit code is never  *)
(* better than a metric.                                                     *)
EXTENDS Plugins, OidsProofs, SequenceTheorems, FiniteSetTheorems

-----------------------------------------------------------------------------
(* Ranges and their text.                                                    *)

\* A range whose limits are no words of the notation.
Plain(r) == /\ r = [low |-> r.low, high |-> r.high, invert |-> r.invert]
            /\ r.invert \in BOOLEAN
            /\ r.low # Tilde /\ r.high # Empty

\* A range with a text of its own is what the text is read back as.
LEMMA TextIsExact ==
    ASSUME NEW r, Plain(r), HasText(r)
    PROVE  ReadBack(r) = r
<1> DEFINE low == r.low
           high == r.high
           inv == r.invert
<1>0. /\ r = [low |-> low, high |-> high, invert |-> inv] /\ inv \in BOOLEAN
      /\ low # Tilde /\ high # Empty /\ (high # None \/ low # 0)
  BY DEF Plain, HasText
<1>n. None # 0 /\ Tilde # 0 /\ Empty # 0 /\ Invalid # 0 /\ Tilde # Empty
  BY ReportAssumption
<1>1. CASE low = 0
  <2>1. HighText(r) = high
    BY <1>0, <1>1 DEF HighText
  <2>2. TextOf(r) = Text(inv, Empty, FALSE, high)
    BY <1>1, <1>n, <2>1 DEF TextOf
  <2>3. TextOf(r) # NoText
    BY <1>0, <2>2 DEF Text, NoText
  <2>4. FromText(TextOf(r)) = [low |-> 0, high |-> high, invert |-> inv]
    BY <1>0, <2>2 DEF FromText, Text
  <2> QED BY <1>0, <1>1, <2>3, <2>4 DEF ReadBack
<1>2. CASE low \notin {0, None}
  <2>1. TextOf(r) = Text(inv, low, TRUE, HighText(r))
    BY <1>2, <1>n DEF TextOf
  <2>2. TextOf(r) # NoText
    BY <2>1 DEF Text, NoText
  <2>3. FromText(TextOf(r)) = [low |-> low, high |-> high, invert |-> inv]
    BY <1>0, <2>1 DEF FromText, Text, HighText
  <2> QED BY <1>0, <2>2, <2>3 DEF ReadBack
<1>3. CASE low = None /\ high = None /\ ~ inv
  <2>1. TextOf(r) = NoText
    BY <1>3, <1>n DEF TextOf
  <2>2. r = [low |-> None, high |-> None, invert |-> FALSE]
    BY <1>0, <1>3
  <2> QED BY <2>1, <2>2 DEF ReadBack
<1>4. CASE low = None /\ ~ (high = None /\ ~ inv)
  <2>1. TextOf(r) = Text(inv, Tilde, TRUE, HighText(r))
    BY <1>4, <1>n DEF TextOf
  <2>2. TextOf(r) # NoText
    BY <2>1 DEF Text, NoText
  <2>3. FromText(TextOf(r)) = [low |-> None, high |-> high, invert |-> inv]
    BY <1>0, <2>1 DEF FromText, Text, HighText
  <2> QED BY <1>0, <1>4, <2>2, <2>3 DEF ReadBack
<1> QED BY <1>1, <1>2, <1>3, <1>4

-----------------------------------------------------------------------------
(* The collector's lists.                                                    *)

States4 == {"CRITICAL", "WARNING", "OK", "UNKNOWN"}

LEMMA StatesAre ==
    /\ Range(States) = States4 /\ DOMAIN States = 1 .. 4
    /\ States[1] = "CRITICAL" /\ States[2] = "WARNING" /\ States[3] = "OK"
    /\ States[4] = "UNKNOWN"
    /\ Rank("CRITICAL") = 1 /\ Rank("WARNING") = 2 /\ Rank("OK") = 3 /\ Rank("UNKNOWN") = 4
<1>1. /\ DOMAIN States = 1 .. 4 /\ States[1] = "CRITICAL" /\ States[2] = "WARNING"
      /\ States[3] = "OK" /\ States[4] = "UNKNOWN"
  BY DEF States
<1>2. 1 .. 4 = {1, 2, 3, 4}
  OBVIOUS
<1>3. Range(States) = States4
  BY <1>1, <1>2 DEF Range, States4
<1>4. \A i \in 1 .. 4 : Rank(States[i]) = i
  BY <1>1 DEF Rank
<1> QED BY <1>1, <1>3, <1>4

\* Each of the alerts 1 to n is in one list, once, and the lists have no others.
Numbered(lists, n) ==
    /\ lists \in [States4 -> Seq(1 .. n)]
    /\ \A a \in 1 .. n : \E st \in States4 : \E i \in 1 .. Len(lists[st]) : lists[st][i] = a
    /\ \A st, su \in States4 : \A i \in 1 .. Len(lists[st]), j \in 1 .. Len(lists[su]) :
          lists[st][i] = lists[su][j] => st = su /\ i = j

\* A state that has been reported stays reported.
NoneLost(old, new) == \A st \in States4 : old[st] # << >> => new[st] # << >>

\* Only the list of st may have an entry that it did not have: a.
OneMore(old, new, st, a) ==
    \A su \in States4 : \A i \in 1 .. Len(new[su]) :
        \/ \E l \in 1 .. Len(old[su]) : new[su][i] = old[su][l]
        \/ su = st /\ new[su][i] = a

LEMMA AddedIs ==
    ASSUME NEW n \in Nat, NEW lists, Numbered(lists, n), NEW st \in States4
    PROVE  LET new == Added(lists, st, n + 1)
           IN  /\ Numbered(new, n + 1) /\ NoneLost(lists, new) /\ new[st] # << >>
               /\ OneMore(lists, new, st, n + 1)
<1> DEFINE new == Added(lists, st, n + 1)
           N == 1 .. n + 1
<1>1. /\ lists \in [States4 -> Seq(1 .. n)]
      /\ \A su \in States4 :
            /\ lists[su] \in Seq(N) /\ Len(lists[su]) \in Nat
            /\ \A i \in 1 .. Len(lists[su]) : lists[su][i] \in 1 .. n
  <2>1. lists \in [States4 -> Seq(1 .. n)]
    BY DEF Numbered
  <2>2. ASSUME NEW s \in Seq(1 .. n)
        PROVE  s \in Seq(N) /\ Len(s) \in Nat /\ \A i \in 1 .. Len(s) : s[i] \in 1 .. n
    <3>1. Len(s) \in Nat /\ s \in [1 .. Len(s) -> 1 .. n] /\ \A i \in 1 .. Len(s) : s[i] \in 1 .. n
      OBVIOUS
    <3>2. 1 .. n \subseteq N
      OBVIOUS
    <3>3. s \in [1 .. Len(s) -> N]
      BY <3>1, <3>2
    <3> QED BY <3>1, <3>3
  <2> QED BY <2>1, <2>2
<1> HIDE DEF N
<1>2. n + 1 \in N /\ n + 1 \notin 1 .. n
  BY DEF N
<1>3. /\ \A su \in States4 : new[su] = IF su = st THEN Append(lists[st], n + 1) ELSE lists[su]
      /\ new = [su \in States4 |-> new[su]]
  BY <1>1 DEF Added
<1> HIDE DEF new
<1>4. /\ new[st] \in Seq(N) /\ Len(new[st]) = Len(lists[st]) + 1
      /\ \A i \in 1 .. Len(new[st]) : new[st][i] = IF i = Len(lists[st]) + 1 THEN n + 1 ELSE lists[st][i]
      /\ new[st] # << >>
  <2> DEFINE l == lists[st]
  <2>1. l \in Seq(N) /\ new[st] = Append(l, n + 1)
    BY <1>1, <1>3
  <2> HIDE DEF l
  <2>2. /\ Append(l, n + 1) \in Seq(N) /\ Len(Append(l, n + 1)) = Len(l) + 1
        /\ \A i \in 1 .. Len(l) + 1 : Append(l, n + 1)[i] = IF i = Len(l) + 1 THEN n + 1 ELSE l[i]
        /\ Append(l, n + 1) # << >>
    BY <1>2, <2>1
  <2> QED BY <2>1, <2>2 DEF l
<1>5. new \in [States4 -> Seq(N)]
  BY <1>1, <1>3, <1>4
<1>6. NoneLost(lists, new)
  BY <1>3, <1>4 DEF NoneLost
<1>7. ASSUME NEW a \in N
      PROVE  \E su \in States4 : \E i \in 1 .. Len(new[su]) : new[su][i] = a
  <2>1. CASE a = n + 1
    <3>1. Len(lists[st]) + 1 \in 1 .. Len(new[st]) /\ new[st][Len(lists[st]) + 1] = a
      BY <1>1, <1>4, <2>1
    <3> QED BY <3>1
  <2>2. CASE a # n + 1
    <3>1. a \in 1 .. n
      BY <2>2 DEF N
    <3>2. PICK su \in States4 : \E i \in 1 .. Len(lists[su]) : lists[su][i] = a
      BY <3>1 DEF Numbered
    <3>i. PICK i \in 1 .. Len(lists[su]) : lists[su][i] = a
      BY <3>2
    <3>3. i \in 1 .. Len(new[su]) /\ new[su][i] = a
      <4>1. CASE su = st
        BY <1>1, <1>4, <3>i, <4>1
      <4>2. CASE su # st
        BY <1>3, <3>i, <4>2
      <4> QED BY <4>1, <4>2
    <3> QED BY <3>3
  <2> QED BY <2>1, <2>2
<1>9. \A sw \in States4 : \A k \in 1 .. Len(new[sw]) :
         \/ sw = st /\ k = Len(lists[st]) + 1 /\ new[sw][k] = n + 1
         \/ k \in 1 .. Len(lists[sw]) /\ new[sw][k] = lists[sw][k] /\ new[sw][k] # n + 1
  <2> SUFFICES ASSUME NEW sw \in States4, NEW k \in 1 .. Len(new[sw])
               PROVE  \/ sw = st /\ k = Len(lists[st]) + 1 /\ new[sw][k] = n + 1
                      \/ /\ k \in 1 .. Len(lists[sw]) /\ new[sw][k] = lists[sw][k]
                         /\ new[sw][k] # n + 1
    OBVIOUS
  <2>1. CASE sw = st
    BY <1>1, <1>2, <1>4, <2>1
  <2>2. CASE sw # st
    <3>1. new[sw] = lists[sw]
      BY <1>3, <2>2
    <3>2. lists[sw][k] \in 1 .. n
      BY <1>1, <3>1
    <3> QED BY <1>2, <3>1, <3>2
  <2> QED BY <2>1, <2>2
<1>10. OneMore(lists, new, st, n + 1)
  BY <1>9 DEF OneMore
<1>8. ASSUME NEW su \in States4, NEW sv \in States4,
             NEW i \in 1 .. Len(new[su]), NEW j \in 1 .. Len(new[sv]), new[su][i] = new[sv][j]
      PROVE  su = sv /\ i = j
  <2>2. CASE new[su][i] = n + 1
    <3>1. su = st /\ i = Len(lists[st]) + 1
      BY <1>9, <2>2
    <3>2. sv = st /\ j = Len(lists[st]) + 1
      <4>1. new[sv][j] = n + 1
        BY <1>8, <2>2
      <4> QED BY <1>9, <4>1
    <3> QED BY <3>1, <3>2
  <2>3. CASE new[su][i] # n + 1
    <3>1. /\ i \in 1 .. Len(lists[su]) /\ j \in 1 .. Len(lists[sv])
          /\ lists[su][i] = lists[sv][j]
      BY <1>8, <1>9, <2>3
    <3> QED BY <3>1 DEF Numbered
  <2> QED BY <2>2, <2>3
<1> QED BY <1>4, <1>5, <1>6, <1>7, <1>8, <1>10 DEF Numbered, N, new

\* The lists new have no others than alerts has and the first m of the states sts.
OnlyTold(new, sts, m) ==
    \A st \in States4 : \A i \in 1 .. Len(new[st]) :
        \/ \E l \in 1 .. Len(alerts[st]) : new[st][i] = alerts[st][l]
        \/ \E k \in 1 .. m : sts[k] = st /\ new[st][i] = made + k

\* f has the lists after each of the first m of the alerts of the states sts.
AfterUpTo(sts, f, m) ==
    /\ f = [i \in 0 .. m |-> f[i]] /\ f[0] = alerts
    /\ \A i \in 1 .. m : f[i] = Added(f[i - 1], sts[i], made + i)
    /\ \A i \in 0 .. m : /\ Numbered(f[i], made + i) /\ NoneLost(alerts, f[i])
                         /\ \A k \in 1 .. i : f[i][sts[k]] # << >>
                         /\ OnlyTold(f[i], sts, i)

LEMMA AfterExists ==
    ASSUME made \in Nat, Numbered(alerts, made), NEW sts \in Seq(States4)
    PROVE  \A m \in 0 .. Len(sts) : \E f : AfterUpTo(sts, f, m)
<1> DEFINE Bad == {m \in 0 .. Len(sts) : ~ \E f : AfterUpTo(sts, f, m)}
<1>1. SUFFICES ASSUME Bad # {} PROVE FALSE
  OBVIOUS
<1>2. Len(sts) \in Nat /\ \A i \in 1 .. Len(sts) : sts[i] \in States4
  OBVIOUS
<1>3. PICK m \in Bad : \A k \in Bad : m <= k
  <2>1. Bad \in SUBSET Nat
    BY <1>2
  <2> HIDE DEF Bad
  <2> QED BY <1>1, <2>1, LeastNat
<1>4. CASE m = 0
  <2> DEFINE f == [i \in 0 .. 0 |-> alerts]
  <2>1. f = [i \in 0 .. 0 |-> f[i]] /\ \A i \in 0 .. 0 : f[i] = alerts /\ i = 0
    OBVIOUS
  <2>2. made + 0 = made /\ NoneLost(alerts, alerts) /\ OnlyTold(alerts, sts, 0)
    BY DEF NoneLost, OnlyTold
  <2> HIDE DEF f
  <2>3. AfterUpTo(sts, f, 0)
    BY <2>1, <2>2 DEF AfterUpTo
  <2> QED BY <1>3, <1>4, <2>3
<1>5. CASE m # 0
  <2>1. m \in 1 .. Len(sts) /\ m - 1 \in 0 .. Len(sts) /\ m - 1 \notin Bad /\ m \in Nat
    BY <1>2, <1>3, <1>5
  <2>2. PICK g : AfterUpTo(sts, g, m - 1)
    BY <2>1
  <2> DEFINE e == Added(g[m - 1], sts[m], made + m)
             f == [i \in 0 .. m |-> IF i = m THEN e ELSE g[i]]
  <2>3. /\ Numbered(g[m - 1], made + (m - 1)) /\ NoneLost(alerts, g[m - 1])
        /\ \A k \in 1 .. m - 1 : g[m - 1][sts[k]] # << >>
        /\ OnlyTold(g[m - 1], sts, m - 1)
    <3>1. m - 1 \in 0 .. m - 1
      BY <2>1
    <3> QED BY <2>2, <3>1 DEF AfterUpTo
  <2>4. /\ Numbered(e, made + m) /\ NoneLost(alerts, e)
        /\ \A k \in 1 .. m : e[sts[k]] # << >>
        /\ OnlyTold(e, sts, m)
    <3>1. made + (m - 1) \in Nat /\ (made + (m - 1)) + 1 = made + m /\ sts[m] \in States4
      BY <1>2, <2>1
    <3>2. /\ Numbered(e, made + m) /\ NoneLost(g[m - 1], e) /\ e[sts[m]] # << >>
          /\ OneMore(g[m - 1], e, sts[m], made + m)
      <4> DEFINE q == made + (m - 1)
      <4>1. q \in Nat /\ q + 1 = made + m /\ Numbered(g[m - 1], q)
        BY <2>3, <3>1
      <4> HIDE DEF q
      <4>2. LET new == Added(g[m - 1], sts[m], q + 1)
            IN  /\ Numbered(new, q + 1) /\ NoneLost(g[m - 1], new) /\ new[sts[m]] # << >>
                /\ OneMore(g[m - 1], new, sts[m], q + 1)
        BY <3>1, <4>1, AddedIs
      <4> QED BY <4>1, <4>2
    <3>3. NoneLost(alerts, e)
      BY <2>3, <3>2 DEF NoneLost
    <3>4. \A k \in 1 .. m : e[sts[k]] # << >>
      <4> SUFFICES ASSUME NEW k \in 1 .. m PROVE e[sts[k]] # << >>
        OBVIOUS
      <4>1. CASE k = m
        BY <3>2, <4>1
      <4>2. CASE k # m
        <5>1. k \in 1 .. m - 1 /\ sts[k] \in States4
          BY <1>2, <2>1, <4>2
        <5> QED BY <2>3, <3>2, <5>1 DEF NoneLost
      <4> QED BY <4>1, <4>2
    <3>5. OnlyTold(e, sts, m)
      <4> SUFFICES ASSUME NEW st \in States4, NEW i \in 1 .. Len(e[st])
                   PROVE  \/ \E l \in 1 .. Len(alerts[st]) : e[st][i] = alerts[st][l]
                          \/ \E k \in 1 .. m : sts[k] = st /\ e[st][i] = made + k
        BY DEF OnlyTold
      <4> HIDE DEF e
      <4>1. CASE \E l \in 1 .. Len(g[m - 1][st]) : e[st][i] = g[m - 1][st][l]
        <5>1. PICK l \in 1 .. Len(g[m - 1][st]) : e[st][i] = g[m - 1][st][l]
          BY <4>1
        <5>2. CASE \E k \in 1 .. m - 1 : sts[k] = st /\ g[m - 1][st][l] = made + k
          <6>1. PICK k \in 1 .. m - 1 : sts[k] = st /\ g[m - 1][st][l] = made + k
            BY <5>2
          <6>2. k \in 1 .. m
            BY <2>1
          <6> QED BY <5>1, <6>1, <6>2
        <5>3. CASE \E n \in 1 .. Len(alerts[st]) : g[m - 1][st][l] = alerts[st][n]
          <6>1. PICK n \in 1 .. Len(alerts[st]) : g[m - 1][st][l] = alerts[st][n]
            BY <5>3
          <6> QED BY <5>1, <6>1
        <5>4. \/ \E n \in 1 .. Len(alerts[st]) : g[m - 1][st][l] = alerts[st][n]
              \/ \E k \in 1 .. m - 1 : sts[k] = st /\ g[m - 1][st][l] = made + k
          BY <2>3 DEF OnlyTold
        <5> QED BY <5>2, <5>3, <5>4
      <4>2. CASE st = sts[m] /\ e[st][i] = made + m
        <5>1. m \in 1 .. m
          BY <2>1
        <5> QED BY <4>2, <5>1
      <4> QED BY <3>2, <4>1, <4>2 DEF OneMore
    <3> QED BY <3>2, <3>3, <3>4, <3>5
  <2> HIDE DEF e
  <2>5. /\ f = [i \in 0 .. m |-> f[i]] /\ f[m] = e
        /\ \A i \in 0 .. m - 1 : f[i] = g[i]
        /\ \A i \in 0 .. m : i = m \/ i \in 0 .. m - 1
    BY <2>1
  <2> HIDE DEF f
  <2>6. f[0] = alerts
    <3>1. 0 \in 0 .. m - 1
      BY <2>1
    <3> QED BY <2>2, <2>5, <3>1 DEF AfterUpTo
  <2>7. ASSUME NEW i \in 1 .. m PROVE f[i] = Added(f[i - 1], sts[i], made + i)
    <3>1. i - 1 \in 0 .. m - 1
      BY <2>1
    <3>2. CASE i = m
      BY <2>5, <3>1, <3>2 DEF e
    <3>3. CASE i # m
      <4>1. i \in 1 .. m - 1 /\ i \in 0 .. m - 1
        BY <2>1, <3>3
      <4> QED BY <2>2, <2>5, <3>1, <4>1 DEF AfterUpTo
    <3> QED BY <3>2, <3>3
  <2>8. ASSUME NEW i \in 0 .. m
        PROVE  /\ Numbered(f[i], made + i) /\ NoneLost(alerts, f[i])
               /\ \A k \in 1 .. i : f[i][sts[k]] # << >>
               /\ OnlyTold(f[i], sts, i)
    <3>1. CASE i = m
      BY <2>4, <2>5, <3>1
    <3>2. CASE i \in 0 .. m - 1
      <4>1. f[i] = g[i]
        BY <2>5, <3>2
      <4> QED BY <2>2, <3>2, <4>1 DEF AfterUpTo
    <3> QED BY <2>5, <3>1, <3>2
  <2>9. AfterUpTo(sts, f, m)
    BY <2>5, <2>6, <2>7, <2>8 DEF AfterUpTo
  <2> QED BY <1>3, <2>9
<1> QED BY <1>4, <1>5

\* What add_alert makes of the lists, for any number of alerts.
LEMMA AppendedIs ==
    ASSUME made \in Nat, Numbered(alerts, made), NEW sts \in Seq(States4)
    PROVE  /\ Numbered(Appended(sts), made + Len(sts))
           /\ NoneLost(alerts, Appended(sts))
           /\ \A k \in 1 .. Len(sts) : Appended(sts)[sts[k]] # << >>
           /\ OnlyTold(Appended(sts), sts, Len(sts))
<1> DEFINE L == Len(sts)
           G(f) == [n \in 0 .. L |->
                      IF n = 0 THEN alerts ELSE Added(f[n - 1], sts[n], made + n)]
           k == CHOOSE f : f = G(f)
<1>0. L \in Nat
  OBVIOUS
<1>1. PICK f : AfterUpTo(sts, f, L)
  BY <1>0, AfterExists
<1>2. f = G(f)
  <2>1. f = [n \in 0 .. L |-> f[n]]
    BY <1>1 DEF AfterUpTo
  <2>2. \A n \in 0 .. L :
           f[n] = IF n = 0 THEN alerts ELSE Added(f[n - 1], sts[n], made + n)
    <3> SUFFICES ASSUME NEW n \in 0 .. L
                 PROVE  f[n] = IF n = 0 THEN alerts ELSE Added(f[n - 1], sts[n], made + n)
      OBVIOUS
    <3>1. CASE n = 0
      BY <3>1, <1>1 DEF AfterUpTo
    <3>2. CASE n \in 1 .. L
      <4>1. f[n] = Added(f[n - 1], sts[n], made + n)
        BY <3>2, <1>1 DEF AfterUpTo
      <4>2. n # 0
        BY <3>2
      <4> QED BY <4>1, <4>2
    <3> QED BY <3>1, <3>2, <1>0
  <2>3. [n \in 0 .. L |-> f[n]] = G(f)
    BY <2>2
  <2> HIDE DEF G
  <2> QED BY <2>1, <2>3
<1>3. k = G(k)
  BY <1>2, Zenon
<1>4. Appended(sts) = k[L]
  BY Zenon DEF Appended
<1> HIDE DEF k
<1>g. \A h : /\ DOMAIN G(h) = 0 .. L /\ G(h) = [n \in 0 .. L |-> G(h)[n]]
             /\ G(h)[0] = alerts
             /\ \A n \in 1 .. L : G(h)[n] = Added(h[n - 1], sts[n], made + n)
  BY <1>0
<1> HIDE DEF G
<1>5. k[0] = alerts
  BY <1>3, <1>g
<1>6. ASSUME NEW n \in 1 .. L PROVE k[n] = Added(k[n - 1], sts[n], made + n)
  BY <1>3, <1>g
<1> DEFINE Bad == {n \in 0 .. L : k[n] # f[n]}
<1>7. Bad = {}
  <2> SUFFICES ASSUME Bad # {} PROVE FALSE
    OBVIOUS
  <2>1. PICK m \in Bad : \A j \in Bad : m <= j
    <3>1. Bad \in SUBSET Nat
      BY <1>0
    <3> HIDE DEF Bad
    <3> QED BY <3>1, LeastNat
  <2>2. m # 0
    BY <1>5, <1>1 DEF AfterUpTo
  <2>3. m \in 1 .. L /\ m - 1 \in 0 .. L /\ k[m - 1] = f[m - 1]
    BY <1>0, <2>1, <2>2
  <2>4. k[m] = f[m]
    BY <1>1, <1>6, <2>3 DEF AfterUpTo
  <2> QED BY <2>1, <2>4
<1>8. L \in 0 .. L /\ k[L] = f[L]
  BY <1>0, <1>7
<1>9. /\ Numbered(f[L], made + L) /\ NoneLost(alerts, f[L])
      /\ \A n \in 1 .. L : f[L][sts[n]] # << >>
      /\ OnlyTold(f[L], sts, L)
  BY <1>1, <1>8 DEF AfterUpTo
<1> QED BY <1>4, <1>8, <1>9

-----------------------------------------------------------------------------
(* The collector's invariant.                                                *)

IsSeq(s) == Len(s) \in Nat /\ s = [i \in 1 .. Len(s) |-> s[i]]

LEMMA SeqElems ==
    ASSUME NEW s, IsSeq(s)
    PROVE  s \in Seq({s[i] : i \in 1 .. Len(s)})
<1> DEFINE S == {s[i] : i \in 1 .. Len(s)}
<1>1. \A i \in 1 .. Len(s) : s[i] \in S
  OBVIOUS
<1> HIDE DEF S
<1>2. [i \in 1 .. Len(s) |-> s[i]] \in [1 .. Len(s) -> S]
  BY <1>1
<1>3. s \in [1 .. Len(s) -> S] /\ Len(s) \in Nat
  BY <1>2 DEF IsSeq
<1>4. s \in Seq(S)
  BY <1>3
<1> QED BY <1>4 DEF S

LEMMA AppendIs ==
    ASSUME NEW s, IsSeq(s), NEW e
    PROVE  /\ IsSeq(Append(s, e)) /\ Len(Append(s, e)) = Len(s) + 1
           /\ \A i \in 1 .. Len(s) : Append(s, e)[i] = s[i]
           /\ Append(s, e)[Len(s) + 1] = e
<1> DEFINE S == {s[i] : i \in 1 .. Len(s)} \cup {e}
<1>1. s \in Seq(S)
  <2>1. s \in Seq({s[i] : i \in 1 .. Len(s)})
    BY SeqElems
  <2> DEFINE T == {s[i] : i \in 1 .. Len(s)}
  <2>2. T \subseteq S
    OBVIOUS
  <2> HIDE DEF T, S
  <2>3. s \in [1 .. Len(s) -> T] /\ Len(s) \in Nat
    BY <2>1 DEF T
  <2>4. s \in [1 .. Len(s) -> S]
    BY <2>2, <2>3
  <2> QED BY <2>3, <2>4
<1>2. e \in S
  OBVIOUS
<1> HIDE DEF S
<1>3. /\ Append(s, e) \in Seq(S) /\ Len(Append(s, e)) = Len(s) + 1
      /\ \A i \in 1 .. Len(s) : Append(s, e)[i] = s[i]
      /\ Append(s, e)[Len(s) + 1] = e
  BY <1>1, <1>2, AppendProperties
<1>4. \A q \in Seq(S) : IsSeq(q)
  BY DEF IsSeq
<1> QED BY <1>3, <1>4

Kept == /\ made \in Nat /\ Numbered(alerts, made)
        /\ IsSeq(metrics)
        /\ \A i \in 1 .. Len(metrics) :
              /\ Plain(metrics[i].warn) /\ Plain(metrics[i].crit)
              /\ alerts[StateOf(metrics[i])] # << >>

LEMMA JudgesAre == \A v, warn, crit : Judge(v, warn, crit) \in States4
BY DEF Judge, States4

LEMMA AddAlertsKeeps ==
    ASSUME Kept, NEW sts \in Seq(States4), AddAlerts(sts)
    PROVE  Kept'
<1>1. /\ made \in Nat /\ Numbered(alerts, made) /\ Len(sts) \in Nat
      /\ alerts' = Appended(sts) /\ made' = made + Len(sts) /\ metrics' = metrics
  BY DEF Kept, AddAlerts
<1>2. Numbered(alerts', made') /\ NoneLost(alerts, alerts') /\ made' \in Nat
  BY <1>1, AppendedIs
<1>3. ASSUME NEW i \in 1 .. Len(metrics)
      PROVE  Plain(metrics[i].warn) /\ Plain(metrics[i].crit) /\ alerts'[StateOf(metrics[i])] # << >>
  <2>1. StateOf(metrics[i]) \in States4
    BY JudgesAre DEF StateOf
  <2> QED BY <1>2, <2>1 DEF Kept, NoneLost
<1> QED BY <1>1, <1>2, <1>3 DEF Kept

LEMMA AddMetricKeeps ==
    ASSUME Kept, NEW m, Plain(m.warn), Plain(m.crit), AddMetric(m)
    PROVE  Kept'
<1> DEFINE sts == << StateOf(m) >>
<1>1. /\ made \in Nat /\ Numbered(alerts, made) /\ IsSeq(metrics)
      /\ alerts' = Appended(sts) /\ made' = made + 1 /\ metrics' = Append(metrics, m)
  BY DEF Kept, AddMetric
<1>2. /\ sts \in Seq(States4) /\ Len(sts) = 1 /\ sts[1] = StateOf(m)
  <2>1. StateOf(m) \in States4
    BY JudgesAre DEF StateOf
  <2> QED BY <2>1
<1> HIDE DEF sts
<1>3. /\ Numbered(alerts', made + Len(sts)) /\ NoneLost(alerts, alerts') /\ made' \in Nat
      /\ \A k \in 1 .. Len(sts) : alerts'[sts[k]] # << >>
  <2>1. /\ Numbered(Appended(sts), made + Len(sts)) /\ NoneLost(alerts, Appended(sts))
        /\ \A k \in 1 .. Len(sts) : Appended(sts)[sts[k]] # << >>
    BY <1>1, <1>2, AppendedIs
  <2>2. made' \in Nat
    BY <1>1
  <2> QED BY <1>1, <2>1, <2>2
<1>4. Numbered(alerts', made') /\ alerts'[StateOf(m)] # << >>
  BY <1>1, <1>2, <1>3
<1>5. /\ IsSeq(metrics') /\ Len(metrics') = Len(metrics) + 1 /\ Len(metrics) \in Nat
      /\ \A i \in 1 .. Len(metrics) : metrics'[i] = metrics[i]
      /\ metrics'[Len(metrics) + 1] = m
  BY <1>1, AppendIs DEF IsSeq
<1>6. ASSUME NEW i \in 1 .. Len(metrics')
      PROVE  /\ Plain(metrics'[i].warn) /\ Plain(metrics'[i].crit)
             /\ alerts'[StateOf(metrics'[i])] # << >>
  <2>1. CASE i = Len(metrics) + 1
    BY <1>4, <1>5, <2>1
  <2>2. CASE i \in 1 .. Len(metrics)
    <3>1. StateOf(metrics[i]) \in States4 /\ metrics'[i] = metrics[i]
      BY <1>5, <2>2, JudgesAre DEF StateOf
    <3> QED BY <1>3, <2>2, <3>1 DEF Kept, NoneLost
  <2> QED BY <1>5, <2>1, <2>2
<1> QED BY <1>3, <1>4, <1>5, <1>6 DEF Kept, StateOf

LEMMA InitKept == Init => Kept
<1> SUFFICES ASSUME Init PROVE Kept
  OBVIOUS
<1>1. made = 0 /\ metrics = << >> /\ alerts = [st \in States4 |-> << >>]
  BY StatesAre DEF Init
<1>2. Numbered(alerts, 0)
  BY <1>1 DEF Numbered
<1>3. Len(metrics) = 0 /\ IsSeq(metrics)
  BY <1>1 DEF IsSeq
<1> QED BY <1>1, <1>2, <1>3 DEF Kept

-----------------------------------------------------------------------------
(* What the invariant says of the text and the exit code.                    *)

\* The worst state reported, if any is.
LEMMA ExitStateIs ==
    ASSUME Kept
    PROVE  /\ ExitState \in States4
           /\ \A st \in States4 : alerts[st] # << >> => Rank(ExitState) <= Rank(st)
           /\ ExitState # "UNKNOWN" => alerts[ExitState] # << >>
<1> DEFINE given == {i \in DOMAIN States : alerts[States[i]] # << >>}
           i == CHOOSE k \in given : \A j \in given : k <= j
<1>0. 1 .. 4 = {1, 2, 3, 4}
  OBVIOUS
<1>1. CASE given = {}
  <2>1. ExitState = "UNKNOWN"
    BY <1>1, Zenon DEF ExitState
  <2>2. \A st \in States4 : alerts[st] = << >>
    BY <1>0, <1>1, StatesAre DEF States4
  <2> QED BY <2>1, <2>2 DEF States4
<1>2. CASE given # {}
  <2>1. ExitState = States[i]
    BY <1>2, Zenon DEF ExitState
  <2>2. i \in given /\ \A j \in given : i <= j
    <3>1. \E k \in given : \A j \in given : k <= j
      <4>1. given \in SUBSET Nat
        BY StatesAre
      <4> HIDE DEF given
      <4> QED BY <1>2, <4>1, LeastNat
    <3> HIDE DEF given
    <3> QED BY <3>1
  <2> HIDE DEF i
  <2>3. i \in 1 .. 4 /\ States[i] \in States4 /\ Rank(States[i]) = i
    BY <1>0, <2>2, StatesAre DEF States4
  <2>4. ASSUME NEW st \in States4, alerts[st] # << >> PROVE i <= Rank(st)
    <3>1. Rank(st) \in 1 .. 4 /\ States[Rank(st)] = st
      BY <1>0, StatesAre DEF States4
    <3>2. Rank(st) \in given
      BY <2>4, <3>1, StatesAre
    <3> QED BY <2>2, <3>2
  <2> QED BY <2>1, <2>2, <2>3, <2>4
<1> QED BY <1>1, <1>2

LEMMA TextSurvives == Kept => RangesSurviveText
<1> SUFFICES ASSUME Kept, NEW m \in Range(metrics), NEW r \in {m.warn, m.crit}, HasText(r)
             PROVE  ReadBack(r) = r
  BY DEF RangesSurviveText
<1>1. DOMAIN metrics = 1 .. Len(metrics)
  BY DEF Kept, IsSeq
<1>2. PICK i \in 1 .. Len(metrics) : m = metrics[i]
  BY <1>1 DEF Range
<1>3. Plain(r)
  BY <1>2 DEF Kept
<1> QED BY <1>3, TextIsExact

LEMMA ExitCovers == Kept => ExitCodeCoversMetrics
<1> SUFFICES ASSUME Kept, NEW i \in DOMAIN metrics,
                    HasText(metrics[i].warn), HasText(metrics[i].crit)
             PROVE  Rank(ExitState) <= Rank(Judge(metrics[i].value, ReadBack(metrics[i].warn),
                                                  ReadBack(metrics[i].crit)))
  BY DEF ExitCodeCoversMetrics
<1>1. i \in 1 .. Len(metrics)
  BY DEF Kept, IsSeq
<1>2. /\ ReadBack(metrics[i].warn) = metrics[i].warn
      /\ ReadBack(metrics[i].crit) = metrics[i].crit
  BY <1>1, TextIsExact DEF Kept
<1>3. StateOf(metrics[i]) \in States4 /\ alerts[StateOf(metrics[i])] # << >>
  BY <1>1, JudgesAre DEF Kept, StateOf
<1> QED BY <1>2, <1>3, ExitStateIs DEF StateOf

Never(s, a) == \A i \in 1 .. Len(s) : s[i] # a
Once(s, a)  == \E i \in 1 .. Len(s) : s[i] = a /\ \A j \in 1 .. Len(s) : s[j] = a => j = i

LEMMA OnceInBoth ==
    ASSUME NEW s \in Seq(Int), NEW t \in Seq(Int), NEW a
    PROVE  /\ s \o t \in Seq(Int)
           /\ Never(s, a) /\ Never(t, a) => Never(s \o t, a)
           /\ Once(s, a) /\ Never(t, a) => Once(s \o t, a)
           /\ Never(s, a) /\ Once(t, a) => Once(s \o t, a)
<1> DEFINE c == s \o t
           m == Len(s)
           n == Len(t)
<1>1. /\ c \in Seq(Int) /\ Len(c) = m + n /\ m \in Nat /\ n \in Nat
      /\ \A i \in 1 .. m : c[i] = s[i]
      /\ \A i \in 1 .. n : c[m + i] = t[i]
  BY ConcatProperties
<1>2. \A i \in 1 .. Len(c) : i \in 1 .. m \/ (i - m \in 1 .. n /\ c[i] = t[i - m])
  <2> SUFFICES ASSUME NEW i \in 1 .. Len(c), i \notin 1 .. m
               PROVE  i - m \in 1 .. n /\ c[i] = t[i - m]
    OBVIOUS
  <2> HIDE DEF c, m, n
  <2>1. i - m \in 1 .. n /\ m + (i - m) = i
    BY <1>1
  <2> QED BY <1>1, <2>1
<1> HIDE DEF c
<1>3. ASSUME Never(s, a), Never(t, a) PROVE Never(c, a)
  BY <1>1, <1>2, <1>3 DEF Never
<1>4. ASSUME Once(s, a), Never(t, a) PROVE Once(c, a)
  <2>1. PICK i \in 1 .. m : s[i] = a /\ \A j \in 1 .. m : s[j] = a => j = i
    BY <1>4 DEF Once
  <2>2. i \in 1 .. Len(c) /\ c[i] = a
    BY <1>1, <2>1
  <2>3. \A j \in 1 .. Len(c) : c[j] = a => j = i
    BY <1>1, <1>2, <1>4, <2>1 DEF Never
  <2> QED BY <2>2, <2>3 DEF Once
<1>5. ASSUME Never(s, a), Once(t, a) PROVE Once(c, a)
  <2>1. PICK i \in 1 .. n : t[i] = a /\ \A j \in 1 .. n : t[j] = a => j = i
    BY <1>5 DEF Once
  <2>2. m + i \in 1 .. Len(c) /\ c[m + i] = a
    BY <1>1, <2>1
  <2>3. ASSUME NEW j \in 1 .. Len(c), c[j] = a PROVE j = m + i
    <3>1. j \notin 1 .. m
      BY <1>1, <1>5, <2>3 DEF Never
    <3>2. j - m \in 1 .. n /\ t[j - m] = a
      BY <1>2, <2>3, <3>1
    <3>3. j - m = i
      BY <2>1, <3>2
    <3> QED BY <1>1, <3>3
  <2> QED BY <2>2, <2>3 DEF Once
<1> QED BY <1>1, <1>3, <1>4, <1>5 DEF c

\* The other alerts of a state are all of them, unless the only one is the summary.
LEMMA OthersAre ==
    ASSUME Kept, NEW st \in States4
    PROVE  /\ alerts[st] \in Seq(Int) /\ Summary \in Int
           /\ Others(alerts[st]) = IF Summary # 0 /\ st = ExitState THEN << >> ELSE alerts[st]
           /\ Summary # 0 => alerts[ExitState] = << Summary >> /\ Summary \in 1 .. made
<1> DEFINE N == 1 .. made
<1>1. made \in Nat /\ \A su \in States4 : alerts[su] \in Seq(N) /\ ExitState \in States4
  BY ExitStateIs DEF Kept, Numbered
<1>2. \A x \in N : x \in Int /\ x # 0
  BY <1>1
<1>3. alerts[st] \in Seq(Int)
  <2> DEFINE l == alerts[st]
  <2>1. l \in [1 .. Len(l) -> N] /\ Len(l) \in Nat
    BY <1>1
  <2> HIDE DEF l, N
  <2>2. l \in [1 .. Len(l) -> Int]
    BY <1>2, <2>1
  <2> QED BY <2>1, <2>2 DEF l
<1> HIDE DEF N
<1>4. CASE Len(alerts[ExitState]) = 1
  <2> DEFINE e == alerts[ExitState]
  <2>1. e \in Seq(N) /\ Summary = Head(e) /\ Len(e) = 1
    BY <1>1, <1>4 DEF Summary
  <2> HIDE DEF e
  <2>2. e = << Summary >> /\ Summary \in N /\ e[1] = Summary
    BY <2>1
  <2>3. CASE st = ExitState
    <3>1. Others(e) = << >>
      BY <2>1, <2>2 DEF Others
    <3> QED BY <1>2, <1>3, <2>2, <2>3, <3>1 DEF e, N
  <2>4. CASE st # ExitState
    <3> DEFINE l == alerts[st]
    <3>1. ASSUME l # << >>, Head(l) = Summary PROVE FALSE
      <4>1. l \in Seq(N)
        BY <1>1
      <4>2. 1 \in 1 .. Len(l) /\ l[1] = Summary
        <5> HIDE DEF l
        <5> QED BY <3>1, <4>1
      <4>3. 1 \in 1 .. Len(e)
        BY <2>1
      <4>4. alerts[st][1] = alerts[ExitState][1]
        BY <2>2, <4>2 DEF e
      <4>5. Numbered(alerts, made) /\ 1 \in 1 .. Len(alerts[st]) /\ 1 \in 1 .. Len(alerts[ExitState])
        BY <4>2, <4>3 DEF Kept, e
      <4> HIDE DEF l
      <4>6. st = ExitState
        BY <1>1, <4>4, <4>5 DEF Numbered
      <4> QED BY <2>4, <4>6
    <3>2. Others(l) = l
      BY <3>1 DEF Others
    <3> QED BY <1>2, <1>3, <2>2, <2>4, <3>2 DEF e, N
  <2> QED BY <2>3, <2>4
<1>5. CASE Len(alerts[ExitState]) # 1
  <2>1. Summary = 0
    BY <1>5 DEF Summary
  <2>2. Others(alerts[st]) = alerts[st]
    <3> DEFINE l == alerts[st]
    <3>1. l # << >> => Head(l) # 0
      <4>1. l \in Seq(N)
        BY <1>1
      <4> HIDE DEF l
      <4>2. l # << >> => Head(l) \in N
        BY <4>1
      <4> QED BY <1>2, <4>2
    <3> HIDE DEF l
    <3>2. Others(l) = l
      BY <2>1, <3>1 DEF Others
    <3> QED BY <3>2 DEF l
  <2> QED BY <1>3, <2>1, <2>2
<1> QED BY <1>4, <1>5

LEMMA PrintedOnce == Kept => EveryAlertPrintedOnce
<1> SUFFICES ASSUME Kept, NEW a \in 1 .. made
             PROVE  Cardinality({i \in DOMAIN Printed : Printed[i] = a}) = 1
  BY DEF EveryAlertPrintedOnce
<1> DEFINE q(k) == Others(alerts[States[k]])
           z == << Summary >>
<1>0. 1 .. 4 = {1, 2, 3, 4} /\ made \in Nat /\ a # 0
  BY DEF Kept
<1>1. \A k \in 1 .. 4 : States[k] \in States4
  BY <1>0, StatesAre DEF States4
<1>2. \A k, n \in 1 .. 4 : k # n => States[k] # States[n]
  BY <1>0, StatesAre
<1>3. /\ \A st \in States4 :
            /\ alerts[st] \in Seq(Int)
            /\ Others(alerts[st]) = IF Summary # 0 /\ st = ExitState THEN << >> ELSE alerts[st]
      /\ Summary \in Int
      /\ Summary # 0 => alerts[ExitState] = << Summary >> /\ Summary \in 1 .. made
  <2>1. "OK" \in States4
    BY DEF States4
  <2> QED BY <2>1, OthersAre
<1>4. z \in Seq(Int) /\ Len(z) = 1 /\ z[1] = Summary /\ \A k \in 1 .. 4 : q(k) \in Seq(Int)
  <2>1. << >> \in Seq(Int)
    OBVIOUS
  <2>2. ASSUME NEW k \in 1 .. 4 PROVE q(k) \in Seq(Int)
    <3>1. q(k) = << >> \/ q(k) = alerts[States[k]]
      BY <1>1, <1>3
    <3> HIDE DEF q
    <3> QED BY <1>1, <1>3, <2>1, <3>1
  <2>3. z \in Seq(Int) /\ Len(z) = 1 /\ z[1] = Summary
    BY <1>3
  <2> HIDE DEF q, z
  <2> QED BY <2>2, <2>3
<1>5. PICK st \in States4 : \E i \in 1 .. Len(alerts[st]) : alerts[st][i] = a
  BY DEF Kept, Numbered
<1>6. PICK i \in 1 .. Len(alerts[st]) : alerts[st][i] = a
  BY <1>5
<1>7. \A su \in States4 : \A j \in 1 .. Len(alerts[su]) : alerts[su][j] = a => su = st /\ j = i
  <2> SUFFICES ASSUME NEW su \in States4, NEW j \in 1 .. Len(alerts[su]), alerts[su][j] = a
               PROVE  su = st /\ j = i
    OBVIOUS
  <2>1. alerts[su][j] = alerts[st][i]
    BY <1>6
  <2>2. Numbered(alerts, made)
    BY DEF Kept
  <2> QED BY <2>1, <2>2 DEF Numbered
<1>8. PICK n \in 1 .. 4 : States[n] = st
  BY <1>0, StatesAre DEF States4
<1>e. ExitState \in States4
  BY ExitStateIs
<1>9. Once(Printed, a)
  <2>p. Printed = z \o q(1) \o q(2) \o q(3) \o q(4)
    BY DEF Printed
  <2>0. \A k \in 1 .. 4 : k # n => Never(q(k), a)
    <3> SUFFICES ASSUME NEW k \in 1 .. 4, k # n PROVE Never(q(k), a)
      OBVIOUS
    <3>1. States[k] # st /\ States[k] \in States4
      BY <1>1, <1>2, <1>8
    <3>2. q(k) = << >> \/ q(k) = alerts[States[k]]
      BY <1>3, <3>1
    <3>3. \A j \in 1 .. Len(alerts[States[k]]) : alerts[States[k]][j] # a
      BY <1>7, <3>1
    <3> HIDE DEF q
    <3> QED BY <3>2, <3>3 DEF Never
  <2>1. CASE Summary = a
    <3>1. st = ExitState /\ Summary # 0
      <4>1. Summary # 0 /\ alerts[ExitState] = << a >>
        BY <1>0, <1>3, <2>1
      <4>2. 1 \in 1 .. Len(alerts[ExitState]) /\ alerts[ExitState][1] = a
        BY <4>1
      <4> QED BY <1>7, <1>e, <4>1, <4>2
    <3>2. Never(q(n), a)
      <4>1. q(n) = << >>
        BY <1>3, <1>8, <3>1
      <4> HIDE DEF q
      <4> QED BY <4>1 DEF Never
    <3>3. Once(z, a)
      BY <1>4, <2>1 DEF Once
    <3>4. Never(q(1), a) /\ Never(q(2), a) /\ Never(q(3), a) /\ Never(q(4), a)
      BY <1>0, <2>0, <3>2
    <3> HIDE DEF q, z
    <3>5. z \o q(1) \in Seq(Int) /\ Once(z \o q(1), a)
      BY <1>0, <1>4, <3>3, <3>4, OnceInBoth
    <3>6. z \o q(1) \o q(2) \in Seq(Int) /\ Once(z \o q(1) \o q(2), a)
      BY <1>0, <1>4, <3>5, <3>4, OnceInBoth
    <3>7. z \o q(1) \o q(2) \o q(3) \in Seq(Int) /\ Once(z \o q(1) \o q(2) \o q(3), a)
      BY <1>0, <1>4, <3>6, <3>4, OnceInBoth
    <3>8. Once(z \o q(1) \o q(2) \o q(3) \o q(4), a)
      BY <1>0, <1>4, <3>7, <3>4, OnceInBoth
    <3> QED BY <2>p, <3>8
  <2>2. CASE Summary # a
    <3>1. Never(z, a)
      BY <1>4, <2>2 DEF Never
    <3>2. Once(q(n), a)
      <4>1. ~ (Summary # 0 /\ st = ExitState)
        <5> SUFFICES ASSUME Summary # 0, st = ExitState PROVE FALSE
          OBVIOUS
        <5>1. alerts[st] = << Summary >>
          BY <1>3
        <5>2. alerts[st][i] = Summary
          BY <1>6, <5>1
        <5> QED BY <1>6, <2>2, <5>2
      <4>2. q(n) = alerts[st]
        BY <1>3, <1>8, <4>1
      <4>3. Once(alerts[st], a)
        BY <1>6, <1>7 DEF Once
      <4> QED BY <4>2, <4>3
    <3> HIDE DEF q, z
    <3> DEFINE c1 == z \o q(1)
               c2 == c1 \o q(2)
               c3 == c2 \o q(3)
               c4 == c3 \o q(4)
    <3>3. \A k \in 1 .. 4 : IF k = n THEN Once(q(k), a) ELSE Never(q(k), a)
      BY <2>0, <3>2
    <3>4. c1 \in Seq(Int) /\ IF n = 1 THEN Once(c1, a) ELSE Never(c1, a)
      BY <1>0, <1>4, <3>1, <3>3, OnceInBoth
    <3> HIDE DEF c1
    <3>5. c2 \in Seq(Int) /\ IF n \in {1, 2} THEN Once(c2, a) ELSE Never(c2, a)
      BY <1>0, <1>4, <3>4, <3>3, OnceInBoth
    <3> HIDE DEF c2
    <3>6. c3 \in Seq(Int) /\ IF n \in {1, 2, 3} THEN Once(c3, a) ELSE Never(c3, a)
      BY <1>0, <1>4, <3>5, <3>3, OnceInBoth
    <3> HIDE DEF c3
    <3>7. Once(c4, a)
      BY <1>0, <1>4, <3>6, <3>3, OnceInBoth
    <3> QED BY <2>p, <3>7 DEF c1, c2, c3, c4
  <2> QED BY <2>1, <2>2
<1>10. Printed \in Seq(Int)
  <2> HIDE DEF q, z
  <2>1. z \o q(1) \in Seq(Int)
    BY <1>0, <1>4, OnceInBoth
  <2>2. z \o q(1) \o q(2) \in Seq(Int)
    BY <1>0, <1>4, <2>1, OnceInBoth
  <2>3. z \o q(1) \o q(2) \o q(3) \in Seq(Int)
    BY <1>0, <1>4, <2>2, OnceInBoth
  <2>4. z \o q(1) \o q(2) \o q(3) \o q(4) \in Seq(Int)
    BY <1>0, <1>4, <2>3, OnceInBoth
  <2> QED BY <2>4 DEF Printed, q, z
<1>11. DOMAIN Printed = 1 .. Len(Printed)
  BY <1>10
<1>12. PICK x \in 1 .. Len(Printed) : {k \in DOMAIN Printed : Printed[k] = a} = {x}
  BY <1>9, <1>11 DEF Once
<1> QED BY <1>12, FS_Singleton

-----------------------------------------------------------------------------
(* Plugins report states, and ranges with the values of a device.            *)

Shape(t) ==
    /\ DOMAIN t = {"at", "table", "row", "obj", "tail", "mem"}
    /\ t.at \in {"started", "walk", "get", "done", "failed", AnyPlugin}
    /\ t.row \in DOMAIN Column(t.table) \cup {<< >>}

UnitStatePlugin == "brocade_stacking_unit_state"

\* The alert that unit_state repeats is one, and the warning temperature that
\* is kept while the shutdown temperature is asked for is one.
GoodTask(p, t) ==
    /\ Shape(t)
    /\ p = UnitStatePlugin => t.mem = << >> \/ t.mem[1] \in States4
    /\ p \in DOMAIN Shutdown /\ t.at = "get" /\ t.obj = Shutdown[p] => t.mem[2] # Empty

IInv == /\ Kept
        /\ device \in Cases
        /\ IsSeq(about) /\ Len(about) = made
        /\ \A k \in 1 .. Len(about) : about[k][1] \in AllPlugins
        /\ DOMAIN task \subseteq AllPlugins
        /\ \A p \in DOMAIN task : GoodTask(p, task[p])

LEMMA Shapes ==
    ASSUME NEW t, Shape(t)
    PROVE  /\ \A table : Shape(Walks(t, table))
           /\ \A obj, tail : Shape(Gets(t, obj, tail))
           /\ Shape(GoesOn(t))
           /\ \A m : Shape(Remembers(t, m))
<1>1. ASSUME NEW table PROVE Shape(Walks(t, table))
  BY DEF Walks, Shape
<1>2. ASSUME NEW obj, NEW tail PROVE Shape(Gets(t, obj, tail))
  BY DEF Gets, Shape
<1>3. Shape(GoesOn(t))
  BY DEF GoesOn, Shape
<1>4. ASSUME NEW m PROVE Shape(Remembers(t, m))
  BY DEF Remembers, Shape
<1> QED BY <1>1, <1>2, <1>3, <1>4

LEMMA Ends == Shape(Idle) /\ Shape(Done) /\ Shape([Idle EXCEPT !.at = "failed"])
              /\ Shape([Idle EXCEPT !.at = AnyPlugin])
<1>1. Shape(Idle)
  BY DEF Shape, Idle
<1>2. \A a \in {"done", "failed", AnyPlugin} : Shape([Idle EXCEPT !.at = a])
  BY <1>1 DEF Shape
<1> QED BY <1>1, <1>2 DEF Done

\* Fields, as the operators on tasks leave them.
LEMMA Fields ==
    /\ \A t, obj, tail : Shape(t) =>
          /\ Gets(t, obj, tail).mem = t.mem /\ Gets(t, obj, tail).obj = obj
          /\ Gets(t, obj, tail).at = "get"
    /\ \A t : Shape(t) => GoesOn(t).at = "walk" /\ GoesOn(t).mem = t.mem
    /\ \A t, table : Shape(t) => Walks(t, table).at = "walk" /\ Walks(t, table).mem = t.mem
    /\ \A t, m : Shape(t) => /\ Remembers(t, m).mem = m /\ Remembers(t, m).at = t.at
                             /\ Remembers(t, m).obj = t.obj
BY DEF Gets, GoesOn, Walks, Remembers, Shape

LEMMA RowShape ==
    ASSUME NEW p \in DOMAIN task, Shape(task[p]), NEW i \in Left(p)
    PROVE  Shape(At(p, i)) /\ At(p, i).mem = task[p].mem /\ At(p, i).at = task[p].at
           /\ At(p, i).obj = task[p].obj
<1>1. i \in DOMAIN Column(task[p].table)
  BY DEF Left, Rows
<1> QED BY <1>1 DEF Shape, At

LEMMA Ordinary ==
    ASSUME NEW p, NEW t, Shape(t), p # UnitStatePlugin, p \notin DOMAIN Shutdown
    PROVE  GoodTask(p, t)
BY DEF GoodTask

LEMMA NoGet ==
    ASSUME NEW p, NEW t, Shape(t), p # UnitStatePlugin, t.at # "get"
    PROVE  GoodTask(p, t)
BY DEF GoodTask

LEMMA Fresher == \A p \in AllPlugins : GoodTask(p, Fresh(p)) /\ GoodTask(p, Idle)
<1> SUFFICES ASSUME NEW p \in AllPlugins PROVE GoodTask(p, Fresh(p)) /\ GoodTask(p, Idle)
  OBVIOUS
<1>0. /\ Shape(Idle) /\ Idle.at = "started" /\ Idle.mem = << >>
      /\ Shape([Idle EXCEPT !.at = AnyPlugin])
  BY Ends DEF Idle
<1>1. GoodTask(p, Idle)
  BY <1>0 DEF GoodTask
<1>2. CASE p = "hp_sensors_plugin"
  <2>1. Fresh(p) = Remembers(Walks(Idle, Table[p]), << None, None >>)
    BY <1>2 DEF Fresh
  <2>2. Shape(Fresh(p))
    BY <1>0, <2>1, Shapes
  <2>3. p # UnitStatePlugin /\ p \notin DOMAIN Shutdown
    BY <1>2 DEF UnitStatePlugin, Shutdown
  <2> QED BY <1>1, <2>2, <2>3, Ordinary
<1>3. CASE p # "hp_sensors_plugin" /\ p \in DOMAIN Table
  <2>1. Fresh(p) = Walks(Idle, Table[p])
    BY <1>3 DEF Fresh
  <2>2. Shape(Fresh(p)) /\ Fresh(p).at = "walk" /\ Fresh(p).mem = << >>
    BY <1>0, <2>1, Shapes, Fields
  <2> QED BY <1>1, <2>2 DEF GoodTask
<1>4. CASE p # "hp_sensors_plugin" /\ p \notin DOMAIN Table /\ p \in DOMAIN Object
  <2>1. Fresh(p) = Gets(Idle, Object[p], Scalar)
    BY <1>4 DEF Fresh
  <2>2. Shape(Fresh(p)) /\ Fresh(p).obj = Object[p] /\ Fresh(p).mem = << >>
    BY <1>0, <2>1, Shapes, Fields
  <2>3. p \in DOMAIN Shutdown => Object[p] # Shutdown[p]
    <3>1. p \in DOMAIN Shutdown => p = "brocade_temperature_plugin"
      BY <1>4 DEF Shutdown, Table
    <3>2. Object["brocade_temperature_plugin"] # Shutdown["brocade_temperature_plugin"]
      BY DEF Object, Shutdown
    <3> QED BY <3>1, <3>2
  <2> QED BY <1>1, <2>2, <2>3 DEF GoodTask
<1>5. CASE p \notin {"hp_sensors_plugin"} \cup DOMAIN Table \cup DOMAIN Object
  <2>1. Fresh(p) = [Idle EXCEPT !.at = AnyPlugin]
    BY <1>5 DEF Fresh
  <2>2. Fresh(p).at = AnyPlugin /\ Fresh(p).mem = << >> /\ AnyPlugin # "get"
    BY <2>1 DEF Idle, AnyPlugin
  <2> QED BY <1>0, <1>1, <2>1, <2>2 DEF GoodTask
<1> QED BY <1>2, <1>3, <1>4, <1>5

-----------------------------------------------------------------------------
(* Steps.                                                                    *)

\* What a step of p tells the collector.
Told(p) == \/ Quiet
           \/ \E i : \E sts \in Seq(States4) : Alerts(p, i, sts)
           \/ \E i, m : Plain(m.warn) /\ Plain(m.crit) /\ Metric(p, i, m)

\* What a step does to the plugins.
Moved == \E p \in DOMAIN task : \E t :
            /\ GoodTask(p, t)
            /\ Becomes(p, t) \/ \E ps \in SUBSET AllPlugins : Starts(p, t, ps)

\* The tasks after a step: new ones, the one that moved, and the others.
LEMMA TaskStep ==
    ASSUME NEW p \in DOMAIN task, NEW t,
           Becomes(p, t) \/ \E ps \in SUBSET AllPlugins : Starts(p, t, ps)
    PROVE  \A q \in DOMAIN task' :
              \/ q \in AllPlugins /\ task'[q] \in {Fresh(q), Idle}
              \/ q = p /\ task'[q] = t
              \/ q \in DOMAIN task /\ task'[q] = task[q]
<1>1. CASE Becomes(p, t)
  BY <1>1 DEF Becomes
<1>2. ASSUME NEW ps \in SUBSET AllPlugins, Starts(p, t, ps)
      PROVE  \A q \in DOMAIN task' :
                \/ q \in AllPlugins /\ task'[q] \in {Fresh(q), Idle}
                \/ q = p /\ task'[q] = t
                \/ q \in DOMAIN task /\ task'[q] = task[q]
  BY <1>2 DEF Starts
<1> QED BY <1>1, <1>2

\* about has an entry for every alert.
LEMMA AboutGrows ==
    ASSUME IInv, NEW p \in AllPlugins, NEW i, NEW n \in Nat,
           about' = about \o [k \in 1 .. n |-> <<p, i>>]
    PROVE  /\ IsSeq(about') /\ Len(about') = Len(about) + n
           /\ \A k \in 1 .. Len(about') : about'[k][1] \in AllPlugins
<1> DEFINE S == {about[k] : k \in 1 .. Len(about)} \cup {<<p, i>>}
           l == [k \in 1 .. n |-> <<p, i>>]
<1>1. about \in Seq(S) /\ \A e \in S : e[1] \in AllPlugins
  <2> DEFINE A == {about[k] : k \in 1 .. Len(about)}
  <2>1. about \in Seq(A) /\ \A e \in A : e[1] \in AllPlugins
    BY SeqElems DEF IInv
  <2>2. A \subseteq S
    OBVIOUS
  <2>3. Len(about) \in Nat /\ about \in [1 .. Len(about) -> A]
    BY <2>1
  <2>4. <<p, i>>[1] = p
    OBVIOUS
  <2>5. \A e \in S : e \in A \/ e = <<p, i>>
    OBVIOUS
  <2> HIDE DEF A, S
  <2>6. about \in [1 .. Len(about) -> S]
    BY <2>2, <2>3
  <2>7. about \in Seq(S)
    BY <2>3, <2>6
  <2> QED BY <2>1, <2>4, <2>5, <2>7
<1>2. l \in Seq(S) /\ Len(l) = n
  <2>1. \A k \in 1 .. n : <<p, i>> \in S
    OBVIOUS
  <2> HIDE DEF S
  <2> QED BY <2>1
<1>3. about' = about \o l
  OBVIOUS
<1> HIDE DEF S, l
<1>4. about' \in Seq(S) /\ Len(about') = Len(about) + n
  BY <1>1, <1>2, <1>3, ConcatProperties
<1>5. \A k \in 1 .. Len(about') : about'[k] \in S
  <2>1. \A q \in Seq(S) : \A k \in 1 .. Len(q) : q[k] \in S
    OBVIOUS
  <2> QED BY <1>4, <2>1
<1>6. IsSeq(about')
  BY <1>4 DEF IsSeq
<1> QED BY <1>1, <1>4, <1>5, <1>6

LEMMA AboutGrowsByOne ==
    ASSUME IInv, NEW p \in AllPlugins, NEW i, about' = Append(about, <<p, i>>)
    PROVE  /\ IsSeq(about') /\ Len(about') = Len(about) + 1
           /\ \A k \in 1 .. Len(about') : about'[k][1] \in AllPlugins
<1>1. /\ IsSeq(about') /\ Len(about') = Len(about) + 1 /\ Len(about) \in Nat
      /\ \A k \in 1 .. Len(about) : about'[k] = about[k]
      /\ about'[Len(about) + 1] = <<p, i>>
  BY AppendIs DEF IInv, IsSeq
<1>2. <<p, i>>[1] \in AllPlugins
  OBVIOUS
<1>3. \A k \in 1 .. Len(about') : k \in 1 .. Len(about) \/ k = Len(about) + 1
  BY <1>1
<1> QED BY <1>1, <1>2, <1>3 DEF IInv

\* The collector's part of the invariant is kept.
LEMMA ToldKeeps ==
    ASSUME IInv, NEW p \in DOMAIN task, Told(p)
    PROVE  /\ Kept' /\ IsSeq(about') /\ Len(about') = made'
           /\ \A k \in 1 .. Len(about') : about'[k][1] \in AllPlugins
<1>1. CASE Quiet
  <2>1. alerts' = alerts /\ metrics' = metrics /\ made' = made /\ about' = about
    BY <1>1 DEF Quiet, vars
  <2>2. Kept'
    BY <2>1 DEF IInv, Kept, StateOf
  <2> QED BY <2>1, <2>2 DEF IInv
<1>2. ASSUME NEW i, NEW sts \in Seq(States4), Alerts(p, i, sts)
      PROVE  /\ Kept' /\ IsSeq(about') /\ Len(about') = made'
             /\ \A k \in 1 .. Len(about') : about'[k][1] \in AllPlugins
  <2>1. AddAlerts(sts) /\ p \in AllPlugins /\ Len(sts) \in Nat /\ made' = made + Len(sts)
    BY <1>2 DEF Alerts, AddAlerts, IInv
  <2>2. DOMAIN sts = 1 .. Len(sts)
    OBVIOUS
  <2>3. about' = about \o [k \in 1 .. Len(sts) |-> <<p, i>>]
    BY <1>2, <2>2 DEF Alerts
  <2>4. /\ IsSeq(about') /\ Len(about') = Len(about) + Len(sts)
        /\ \A k \in 1 .. Len(about') : about'[k][1] \in AllPlugins
    BY <2>1, <2>3, AboutGrows
  <2>5. Kept'
    BY <2>1, AddAlertsKeeps DEF IInv
  <2> QED BY <2>1, <2>4, <2>5 DEF IInv
<1>3. ASSUME NEW i, NEW m, Plain(m.warn), Plain(m.crit), Metric(p, i, m)
      PROVE  /\ Kept' /\ IsSeq(about') /\ Len(about') = made'
             /\ \A k \in 1 .. Len(about') : about'[k][1] \in AllPlugins
  <2>1. AddMetric(m) /\ p \in AllPlugins /\ made' = made + 1 /\ about' = Append(about, <<p, i>>)
    BY <1>3 DEF Metric, AddMetric, IInv
  <2>2. /\ IsSeq(about') /\ Len(about') = Len(about) + 1
        /\ \A k \in 1 .. Len(about') : about'[k][1] \in AllPlugins
    BY <2>1, AboutGrowsByOne
  <2>3. Kept'
    BY <1>3, <2>1, AddMetricKeeps DEF IInv
  <2> QED BY <2>1, <2>2, <2>3 DEF IInv
<1> QED BY <1>1, <1>2, <1>3 DEF Told

\* A task stays good while the device is the same.
LEMMA StaysGood ==
    ASSUME device' = device, NEW p, NEW t, GoodTask(p, t)
    PROVE  GoodTask(p, t)'
BY DEF GoodTask, Shape, Column

LEMMA MovedKeeps ==
    ASSUME IInv, Moved, device' = device
    PROVE  /\ DOMAIN task' \subseteq AllPlugins
           /\ \A p \in DOMAIN task' : GoodTask(p, task[p])'
<1>1. PICK p \in DOMAIN task : \E t :
            /\ GoodTask(p, t)
            /\ Becomes(p, t) \/ \E ps \in SUBSET AllPlugins : Starts(p, t, ps)
  BY DEF Moved
<1>2. PICK t : /\ GoodTask(p, t)
               /\ Becomes(p, t) \/ \E ps \in SUBSET AllPlugins : Starts(p, t, ps)
  BY <1>1
<1>3. \A q \in DOMAIN task' :
              \/ q \in AllPlugins /\ task'[q] \in {Fresh(q), Idle}
              \/ q = p /\ task'[q] = t
              \/ q \in DOMAIN task /\ task'[q] = task[q]
  BY <1>2, TaskStep
<1>4. ASSUME NEW q \in DOMAIN task' PROVE q \in AllPlugins /\ GoodTask(q, task'[q])
  <2>1. p \in AllPlugins /\ \A x \in DOMAIN task : x \in AllPlugins /\ GoodTask(x, task[x])
    BY DEF IInv
  <2> QED BY <1>2, <1>3, <2>1, Fresher
<1>5. ASSUME NEW q \in DOMAIN task' PROVE GoodTask(q, task[q])'
  <2>1. PICK u : u = task'[q]
    OBVIOUS
  <2>2. GoodTask(q, u)
    BY <1>4, <2>1
  <2> QED BY <2>1, <2>2 DEF GoodTask, Shape, Column
<1> QED BY <1>4, <1>5

LEMMA Keeps ==
    ASSUME IInv, NEW p \in DOMAIN task, Told(p), Moved, device' = device
    PROVE  IInv'
<1>1. device' \in Cases
  BY DEF IInv
<1> QED BY <1>1, ToldKeeps, MovedKeeps DEF IInv

\* A plugin that reports whatever it likes.
LEMMA AnyKeeps ==
    ASSUME IInv, AnyReports, device' = device
    PROVE  IInv'
<1>1. /\ AnyPlugin \in DOMAIN task /\ about' = Append(about, << AnyPlugin, << >> >>)
      /\ task' = task
  BY DEF AnyReports
<1>2. AnyPlugin \in AllPlugins
  BY <1>1 DEF IInv
<1>3. /\ IsSeq(about') /\ Len(about') = Len(about) + 1
      /\ \A k \in 1 .. Len(about') : about'[k][1] \in AllPlugins
  BY <1>1, <1>2, AboutGrowsByOne
<1>4. Kept' /\ made' = made + 1
  <2>1. CASE \E st \in Range(States) : AddAlerts(<< st >>)
    <3>1. PICK st \in States4 : AddAlerts(<< st >>)
      BY <2>1, StatesAre
    <3>2. << st >> \in Seq(States4) /\ Len(<< st >>) = 1
      OBVIOUS
    <3>3. made' = made + 1
      BY <3>1, <3>2 DEF AddAlerts
    <3>4. Kept'
      BY <3>1, <3>2, AddAlertsKeeps DEF IInv
    <3> QED BY <3>3, <3>4
  <2>2. CASE \E m \in Metrics : AddMetric(m)
    <3>1. PICK m \in Metrics : AddMetric(m)
      BY <2>2
    <3>2. m.warn \in PerfRange /\ m.crit \in PerfRange
      BY ReportAssumption
    <3>3. \A r \in PerfRange : Plain(r)
      BY ReportAssumption DEF PerfRange, Plain
    <3>4. Kept'
      BY <3>1, <3>2, <3>3, AddMetricKeeps DEF IInv
    <3> QED BY <3>1, <3>4 DEF AddMetric
  <2> QED BY <2>1, <2>2 DEF AnyReports, Next
<1>5. DOMAIN task' \subseteq AllPlugins /\ \A p \in DOMAIN task' : GoodTask(p, task[p])'
  BY <1>1 DEF IInv, GoodTask, Shape, Column
<1> QED BY <1>3, <1>4, <1>5 DEF IInv

-----------------------------------------------------------------------------
(* What the steps of plugins have in common.                                 *)

LEMMA TellsOne ==
    ASSUME NEW p \in DOMAIN task, NEW i, NEW st \in States4, Alerts(p, i, << st >>)
    PROVE  Told(p)
<1>1. << st >> \in Seq(States4)
  OBVIOUS
<1> QED BY <1>1 DEF Told

LEMMA TellsMetric ==
    ASSUME NEW p \in DOMAIN task, NEW i, NEW v, NEW warn, NEW crit, Plain(warn), Plain(crit),
           Metric(p, i, Measured(v, warn, crit))
    PROVE  Told(p)
<1>1. Measured(v, warn, crit).warn = warn /\ Measured(v, warn, crit).crit = crit
  BY DEF Measured
<1> QED BY <1>1 DEF Told

LEMMA MovesTo ==
    ASSUME NEW p \in DOMAIN task, NEW t, GoodTask(p, t), Becomes(p, t)
    PROVE  Moved
BY DEF Moved

LEMMA MovesAndStarts ==
    ASSUME NEW p \in DOMAIN task, NEW t, GoodTask(p, t), NEW ps \in SUBSET AllPlugins,
           Starts(p, t, ps)
    PROVE  Moved
BY DEF Moved

\* A task that is over is good.
LEMMA OverIsGood == \A p : GoodTask(p, Done) /\ GoodTask(p, [Idle EXCEPT !.at = "failed"])
<1>1. /\ Done.mem = << >> /\ Done.at = "done"
      /\ [Idle EXCEPT !.at = "failed"].mem = << >> /\ [Idle EXCEPT !.at = "failed"].at = "failed"
  BY DEF Done, Idle
<1> QED BY <1>1, Ends DEF GoodTask

LEMMA PlainRanges == Plain(NoRange) /\ \A h : h # Empty => Plain(UpTo(h))
BY ReportAssumption DEF Plain, NoRange, UpTo

\* No value of a device is a word of the notation.
LEMMA GotIsPlain ==
    ASSUME IInv, NEW p \in DOMAIN task, There(p)
    PROVE  Got(p) # Empty
<1> DEFINE o == task[p].obj
           i == task[p].tail
<1>1. o \in DOMAIN device.mib /\ i \in DOMAIN device.mib[o] /\ Got(p) = device.mib[o][i]
  BY DEF There, Got, Column
<1>2. device \in Cases
  BY DEF IInv
<1> QED BY <1>1, <1>2, PluginsAssumption

Kinds == DOMAIN Shutdown \cup {UnitStatePlugin}

LEMMA OrdinaryPlugins ==
    /\ DOMAIN Shutdown = {"brocade_temperature_plugin", "brocade_unit_temperature_plugin"}
    /\ UnitStatePlugin \notin DOMAIN Shutdown
    /\ Kinds \cap (FanPlugins \cup PsuPlugins \cup CiscoPlugins \cup LoadPlugins) = {}
    /\ Shutdown["brocade_temperature_plugin"] = "snChasShutdownTemperature"
    /\ Shutdown["brocade_unit_temperature_plugin"] = "snChasUnitShutdownTemperature"
    /\ Detail["brocade_unit_temperature_plugin"] = "snChasUnitWarningTem"
<1>1. /\ DOMAIN Shutdown = {"brocade_temperature_plugin", "brocade_unit_temperature_plugin"}
      /\ Shutdown["brocade_temperature_plugin"] = "snChasShutdownTemperature"
      /\ Shutdown["brocade_unit_temperature_plugin"] = "snChasUnitShutdownTemperature"
  BY DEF Shutdown
<1>2. Detail["brocade_unit_temperature_plugin"] = "snChasUnitWarningTem"
  BY DEF Detail
<1>3. UnitStatePlugin \notin DOMAIN Shutdown
  BY <1>1 DEF UnitStatePlugin
<1>4. Kinds \cap (FanPlugins \cup PsuPlugins \cup CiscoPlugins \cup LoadPlugins) = {}
  BY <1>1 DEF Kinds, UnitStatePlugin, FanPlugins, PsuPlugins, CiscoPlugins, LoadPlugins
<1> QED BY <1>1, <1>2, <1>3, <1>4

LEMMA OrdinaryGood ==
    ASSUME NEW p, p \notin Kinds, NEW t, Shape(t)
    PROVE  GoodTask(p, t)
BY Ordinary DEF Kinds

\* The states that the plugins make of values.
LEMMA StateTables ==
    /\ \A v : FanState(v) \in States4 /\ PsuState(v) \in States4 /\ cisco_state(v) \in States4
    /\ \A v : hp_state(v) \in States4 /\ VersionsState(v) \in States4
    /\ \A v, n : TopologyState(v, n) \in States4
    /\ \A v \in DOMAIN UnitStates : UnitStates[v] \in States4
<1>1. \A v : FanState(v) \in States4 /\ PsuState(v) \in States4
  BY DEF FanState, PsuState, States4
<1>2. \A v : VersionsState(v) \in States4
  BY DEF VersionsState, States4
<1>3. \A v, n : TopologyState(v, n) \in States4
  BY DEF TopologyState, States4
<1>4. 1 .. 4 = {1, 2, 3, 4} /\ 1 .. 5 = {1, 2, 3, 4, 5} /\ 1 .. 6 = {1, 2, 3, 4, 5, 6}
  OBVIOUS
<1>5. \A v \in DOMAIN UnitStates : UnitStates[v] \in States4
  BY <1>4 DEF UnitStates, States4
<1>6. \A v : cisco_state(v) \in States4
  BY <1>4 DEF cisco_state, cisco_states, States4
<1>7. \A v : hp_state(v) \in States4
  BY <1>4 DEF hp_state, hp_states, States4
<1> QED BY <1>1, <1>2, <1>3, <1>5, <1>6, <1>7

-----------------------------------------------------------------------------
(* A row of a table.                                                         *)

LEMMA RowKeeps ==
    ASSUME IInv, NEW p \in DOMAIN task, RowStep(p)
    PROVE  Told(p) /\ Moved
<1>1. PICK i \in Left(p) :
          \/ FanRow(p, i)     \/ PsuRow(p, i)      \/ LoadRow(p, i)   \/ CiscoRow(p, i)
          \/ MemRow(p, i)     \/ SensorRow(p, i)   \/ UnitActual(p, i)
          \/ UnitCounted(p, i) \/ UnitStateRow(p, i) \/ UnitVersionRow(p, i)
          \/ PortSeen(p, i)
  BY DEF RowStep
<1> DEFINE t == At(p, i)
<1>2. GoodTask(p, task[p]) /\ Shape(task[p])
  BY DEF IInv, GoodTask
<1>3. Shape(t) /\ t.mem = task[p].mem /\ t.at = task[p].at /\ t.obj = task[p].obj
  BY <1>2, RowShape
<1>4. \A m : Shape(Remembers(t, m))
  BY <1>3, Shapes
<1>5. \A m, o, l : Shape(Gets(t, o, l)) /\ Shape(Gets(Remembers(t, m), o, l))
  BY <1>3, <1>4, Shapes
<1> HIDE DEF t
<1>6. CASE FanRow(p, i)
  <2>1. /\ p \in FanPlugins /\ Alerts(p, i, << FanState(Val(p, i)) >>) /\ Becomes(p, t)
    BY <1>6 DEF FanRow, t
  <2>2. p \notin Kinds
    BY <2>1, OrdinaryPlugins
  <2> QED BY <2>1, <2>2, <1>3, OrdinaryGood, StateTables, TellsOne, MovesTo
<1>7. CASE PsuRow(p, i)
  <2>1. p \notin Kinds
    BY <1>7, OrdinaryPlugins DEF PsuRow
  <2>2. CASE Val(p, i) = 3
    <3>1. Becomes(p, Gets(t, Detail[p], PsuIndex(p, i))) /\ Quiet
      BY <1>7, <2>2 DEF PsuRow, t
    <3> QED BY <3>1, <2>1, <1>5, OrdinaryGood, MovesTo DEF Told
  <2>3. CASE Val(p, i) # 3
    <3>1. Becomes(p, t) /\ Alerts(p, i, << PsuState(Val(p, i)) >>)
      BY <1>7, <2>3 DEF PsuRow, t
    <3> QED BY <3>1, <2>1, <1>3, OrdinaryGood, StateTables, TellsOne, MovesTo
  <2> QED BY <2>2, <2>3
<1>8. CASE LoadRow(p, i)
  <2>1. p \notin Kinds /\ Becomes(p, t)
    BY <1>8, OrdinaryPlugins DEF LoadRow, t
  <2>2. Quiet \/ Metric(p, i, Measured(Val(p, i), NoRange, NoRange))
    BY <1>8 DEF LoadRow
  <2>3. Told(p)
    BY <2>2, PlainRanges, TellsMetric DEF Told
  <2> QED BY <2>1, <2>3, <1>3, OrdinaryGood, MovesTo
<1>9. CASE CiscoRow(p, i) \/ MemRow(p, i)
  <2>1. /\ Becomes(p, Gets(Remembers(t, << Val(p, i) >>), Detail[p], << Last(i) >>))
        /\ Quiet
        /\ p \in CiscoPlugins \cup {"cisco_mem_usage_plugin", "hp_mem_usage_plugin"}
    BY <1>9 DEF CiscoRow, MemRow, t
  <2>2. p \notin Kinds
    BY <2>1, OrdinaryPlugins DEF Kinds, UnitStatePlugin
  <2> QED BY <2>1, <2>2, <1>5, OrdinaryGood, MovesTo DEF Told
<1>10. CASE SensorRow(p, i)
  <2>1. p \notin Kinds
    BY <1>10, OrdinaryPlugins DEF SensorRow, Kinds, UnitStatePlugin
  <2>2. /\ \E m : Becomes(p, Remembers(t, m))
        /\ Quiet \/ Alerts(p, i, << hp_state(Val(p, i)) >>)
    BY <1>10 DEF SensorRow, t
  <2>3. Told(p)
    BY <2>2, StateTables, TellsOne DEF Told
  <2> QED BY <2>1, <2>2, <2>3, <1>4, OrdinaryGood, MovesTo
<1>11. CASE UnitActual(p, i)
  <2> DEFINE u == Gets(Remembers(t, << Val(p, i) >>), Detail[p], << Last(i) >>)
  <2>1. Becomes(p, u) /\ Quiet /\ p = "brocade_unit_temperature_plugin"
    BY <1>11 DEF UnitActual, t
  <2>2. Shape(u) /\ u.obj = "snChasUnitWarningTem"
    BY <2>1, <1>4, <1>5, Fields, OrdinaryPlugins
  <2> HIDE DEF u
  <2>3. GoodTask(p, u)
    BY <2>1, <2>2, OrdinaryPlugins DEF GoodTask, UnitStatePlugin
  <2> QED BY <2>1, <2>3, MovesTo DEF Told
<1>12. CASE UnitCounted(p, i)
  <2>1. /\ p \in {"brocade_stack_plugin", "brocade_stacking_topology_plugin"}
        /\ Becomes(p, Remembers(t, Append(task[p].mem, i))) /\ Quiet
    BY <1>12 DEF UnitCounted, t
  <2>2. p \notin Kinds
    BY <2>1, OrdinaryPlugins DEF Kinds, UnitStatePlugin
  <2> QED BY <2>1, <2>2, <1>4, OrdinaryGood, MovesTo DEF Told
<1>13. CASE UnitStateRow(p, i)
  <2> DEFINE v == Val(p, i)
             new == IF v \in DOMAIN UnitStates THEN << UnitStates[v], i >> ELSE task[p].mem
  <2>1. /\ p = UnitStatePlugin
        /\ IF new = << >>
           THEN Alerts(p, << >>, << "CRITICAL" >>) /\ Becomes(p, [Idle EXCEPT !.at = "failed"])
           ELSE Alerts(p, new[2], << new[1] >>) /\ Becomes(p, Remembers(t, new))
    BY <1>13 DEF UnitStateRow, UnitStatePlugin, t
  <2>2. new = << >> \/ new[1] \in States4
    <3>1. CASE v \in DOMAIN UnitStates
      <4>1. new = << UnitStates[v], i >>
        BY <3>1
      <4>2. UnitStates[v] \in States4
        BY <3>1, StateTables
      <4> HIDE DEF new
      <4> QED BY <4>1, <4>2
    <3>2. CASE v \notin DOMAIN UnitStates
      <4>1. new = task[p].mem
        BY <3>2
      <4> HIDE DEF new
      <4> QED BY <4>1, <2>1, <1>2 DEF GoodTask
    <3> QED BY <3>1, <3>2
  <2> HIDE DEF new
  <2>3. CASE new = << >>
    <3>1. Alerts(p, << >>, << "CRITICAL" >>) /\ "CRITICAL" \in States4
      BY <2>1, <2>3 DEF States4
    <3> QED BY <3>1, <2>1, <2>3, OverIsGood, TellsOne, MovesTo
  <2>4. CASE new # << >>
    <3> DEFINE u == Remembers(t, new)
    <3>1. Alerts(p, new[2], << new[1] >>) /\ new[1] \in States4 /\ Becomes(p, u)
      BY <2>1, <2>2, <2>4
    <3>2. Shape(u) /\ u.mem = new
      BY <1>3, <1>4, Fields
    <3> HIDE DEF u
    <3>3. GoodTask(p, u)
      BY <2>1, <3>1, <3>2, OrdinaryPlugins DEF GoodTask
    <3> QED BY <3>1, <3>3, TellsOne, MovesTo
  <2> QED BY <2>3, <2>4
<1>14. CASE UnitVersionRow(p, i)
  <2>1. /\ p = "brocade_stacking_version_plugin" /\ Quiet
        /\ \E m : Becomes(p, Remembers(t, m))
    BY <1>14 DEF UnitVersionRow, t
  <2>2. p \notin Kinds
    BY <2>1, OrdinaryPlugins DEF Kinds, UnitStatePlugin
  <2> QED BY <2>1, <2>2, <1>4, OrdinaryGood, MovesTo DEF Told
<1>15. CASE PortSeen(p, i)
  <2>1. /\ p = "detect" /\ Quiet
        /\ \/ Starts(p, AskAgain(task[p]), {"brocade_dhcp_snooping_plugin"})
           \/ Becomes(p, t)
    BY <1>15 DEF PortSeen, t
  <2>2. p \notin Kinds
    BY <2>1, OrdinaryPlugins DEF Kinds, UnitStatePlugin
  <2>3. "brocade_dhcp_snooping_plugin" \in AllPlugins
    BY DEF AllPlugins, Object
  <2>4. Shape(AskAgain(task[p]))
    BY <1>2, Shapes DEF AskAgain
  <2>5. Moved
    <3>1. CASE Becomes(p, t)
      BY <3>1, <2>2, <1>3, OrdinaryGood, MovesTo
    <3>2. CASE Starts(p, AskAgain(task[p]), {"brocade_dhcp_snooping_plugin"})
      BY <3>2, <2>2, <2>3, <2>4, OrdinaryGood, MovesAndStarts
    <3> QED BY <2>1, <3>1, <3>2
  <2> QED BY <2>1, <2>5 DEF Told
<1> QED BY <1>1, <1>6, <1>7, <1>8, <1>9, <1>10, <1>11, <1>12, <1>13, <1>14, <1>15

-----------------------------------------------------------------------------
(* The end of a table, and a plugin that fails.                              *)

LEMMA EndKeeps ==
    ASSUME IInv, NEW p \in DOMAIN task, EndStep(p)
    PROVE  Told(p) /\ Moved
<1>1. GoodTask(p, task[p]) /\ Shape(task[p])
  BY DEF IInv, GoodTask
<1>2. CASE TableEnds(p)
  <2>1. Becomes(p, Done) /\ Quiet
    BY <1>2 DEF TableEnds
  <2> QED BY <2>1, OverIsGood, MovesTo DEF Told
<1>3. CASE StackCounted(p)
  <2> DEFINE st == IF Len(task[p].mem) <= 1 THEN "CRITICAL" ELSE "OK"
  <2>1. Becomes(p, Done) /\ Alerts(p, << >>, << st >>)
    BY <1>3 DEF StackCounted
  <2>2. st \in States4
    BY DEF States4
  <2> HIDE DEF st
  <2> QED BY <2>1, <2>2, OverIsGood, TellsOne, MovesTo
<1>4. CASE TopologyCounted(p)
  <2>1. /\ p = "brocade_stacking_topology_plugin" /\ Quiet
        /\ Becomes(p, Gets(task[p], "snStackingGlobalTopology", Scalar))
    BY <1>4 DEF TopologyCounted
  <2>2. p \notin Kinds
    BY <2>1, OrdinaryPlugins DEF Kinds, UnitStatePlugin
  <2>3. Shape(Gets(task[p], "snStackingGlobalTopology", Scalar))
    BY <1>1, Shapes
  <2> QED BY <2>1, <2>2, <2>3, OrdinaryGood, MovesTo DEF Told
<1>5. CASE UnitVersionsEnd(p)
  <2> DEFINE u == Remembers(Walks(task[p], "snStackingOperUnitBuildlVer"), << >>)
             st == VersionsState(task[p].mem)
  <2>1. /\ p = "brocade_stacking_version_plugin"
        /\ Becomes(p, u) \/ Becomes(p, Done)
        /\ Quiet \/ Alerts(p, << >>, << st >>)
    BY <1>5 DEF UnitVersionsEnd
  <2>2. p \notin Kinds
    BY <2>1, OrdinaryPlugins DEF Kinds, UnitStatePlugin
  <2>3. Shape(u) /\ st \in States4
    BY <1>1, Shapes, StateTables
  <2> HIDE DEF u, st
  <2>4. Told(p)
    BY <2>1, <2>3, TellsOne DEF Told
  <2>5. Moved
    BY <2>1, <2>2, <2>3, OrdinaryGood, OverIsGood, MovesTo
  <2> QED BY <2>4, <2>5
<1>6. CASE PortsSeen(p)
  <2>1. p = "detect" /\ Becomes(p, AskAgain(task[p])) /\ Quiet
    BY <1>6 DEF PortsSeen
  <2>2. p \notin Kinds
    BY <2>1, OrdinaryPlugins DEF Kinds, UnitStatePlugin
  <2>3. Shape(AskAgain(task[p]))
    BY <1>1, Shapes DEF AskAgain
  <2> QED BY <2>1, <2>2, <2>3, OrdinaryGood, MovesTo DEF Told
<1> QED BY <1>2, <1>3, <1>4, <1>5, <1>6 DEF EndStep

LEMMA FailKeeps ==
    ASSUME NEW p \in DOMAIN task, Fails(p)
    PROVE  Told(p) /\ Moved
<1>1. /\ Alerts(p, << >>, << "CRITICAL" >>) /\ Becomes(p, [Idle EXCEPT !.at = "failed"])
      /\ "CRITICAL" \in States4
  BY DEF Fails, States4
<1> QED BY <1>1, OverIsGood, TellsOne, MovesTo

-----------------------------------------------------------------------------
(* An answer to a get.                                                       *)

\* Rows whose further objects have arrived, and temperatures.
LEMMA TableGetKeeps ==
    ASSUME IInv, NEW p \in DOMAIN task,
           \/ PsuDescribed(p) \/ CiscoNamed(p) \/ CiscoMemUsed(p) \/ MemGiven(p)
           \/ ChassisActual(p) \/ WarningTemperature(p) \/ ShutdownTemperature(p)
    PROVE  Told(p) /\ Moved
<1> DEFINE t == task[p]
<1>1. GoodTask(p, t) /\ Shape(t)
  BY DEF IInv, GoodTask
<1>2. Shape(GoesOn(t)) /\ \A m, o, l : Shape(Gets(Remembers(t, m), o, l))
  BY <1>1, Shapes
<1> HIDE DEF t
<1>3. CASE PsuDescribed(p)
  <2> DEFINE st == IF Got(p) = "not present" THEN "OK" ELSE "CRITICAL"
  <2>1. p \notin Kinds /\ Alerts(p, task[p].row, << st >>) /\ Becomes(p, GoesOn(t))
    BY <1>3, OrdinaryPlugins DEF PsuDescribed, t
  <2>2. st \in States4
    BY DEF States4
  <2> HIDE DEF st
  <2> QED BY <2>1, <2>2, <1>2, OrdinaryGood, TellsOne, MovesTo
<1>4. CASE CiscoNamed(p)
  <2>1. /\ p \notin Kinds /\ Alerts(p, task[p].row, << cisco_state(task[p].mem[1]) >>)
        /\ Becomes(p, GoesOn(t))
    BY <1>4, OrdinaryPlugins DEF CiscoNamed, t
  <2> QED BY <2>1, <1>2, OrdinaryGood, StateTables, TellsOne, MovesTo
<1>5. CASE CiscoMemUsed(p)
  <2>1. /\ p = "cisco_mem_usage_plugin" /\ Quiet
        /\ Becomes(p, Gets(Remembers(t, << Got(p) >>), "ciscoMemoryPoolFree", task[p].tail))
    BY <1>5 DEF CiscoMemUsed, t
  <2>2. p \notin Kinds
    BY <2>1, OrdinaryPlugins DEF Kinds, UnitStatePlugin
  <2> QED BY <2>1, <2>2, <1>2, OrdinaryGood, MovesTo DEF Told
<1>6. CASE MemGiven(p)
  <2>1. /\ p \in {"cisco_mem_usage_plugin", "hp_mem_usage_plugin"}
        /\ Metric(p, task[p].row, Measured(task[p].mem[1], NoRange, NoRange))
        /\ Becomes(p, GoesOn(t))
    BY <1>6 DEF MemGiven, t
  <2>2. p \notin Kinds
    BY <2>1, OrdinaryPlugins DEF Kinds, UnitStatePlugin
  <2> QED BY <2>1, <2>2, <1>2, OrdinaryGood, PlainRanges, TellsMetric, MovesTo
<1>7. CASE ChassisActual(p)
  <2> DEFINE u == Gets(Remembers(t, << Got(p) >>), "snChasWarningTemperature", Scalar)
  <2>1. p = "brocade_temperature_plugin" /\ Quiet /\ Becomes(p, u)
    BY <1>7 DEF ChassisActual, t
  <2>2. Shape(u) /\ u.obj = "snChasWarningTemperature"
    BY <1>1, <1>2, Shapes, Fields
  <2> HIDE DEF u
  <2>3. GoodTask(p, u)
    BY <2>1, <2>2, OrdinaryPlugins DEF GoodTask, UnitStatePlugin
  <2> QED BY <2>1, <2>3, MovesTo DEF Told
<1>8. CASE WarningTemperature(p)
  <2> DEFINE act == task[p].mem[1]
             u == Gets(Remembers(t, << act, Got(p) >>), Shutdown[p], task[p].tail)
  <2>1. /\ p \in DOMAIN Shutdown /\ There(p)
        /\ \/ Metric(p, task[p].row, Measured(act, UpTo(Got(p)), NoRange)) /\ Becomes(p, Done)
           \/ Becomes(p, u) /\ Quiet
    BY <1>8, OrdinaryPlugins DEF WarningTemperature, Gives, t
  <2>2. Got(p) # Empty
    BY <2>1, GotIsPlain
  <2>3. CASE Metric(p, task[p].row, Measured(act, UpTo(Got(p)), NoRange)) /\ Becomes(p, Done)
    BY <2>2, <2>3, OverIsGood, PlainRanges, TellsMetric, MovesTo
  <2>4. CASE Becomes(p, u) /\ Quiet
    <3>1. Shape(u) /\ u.mem = << act, Got(p) >>
      BY <1>1, <1>2, Shapes, Fields
    <3> HIDE DEF u, act
    <3>2. u.mem[2] # Empty
      BY <3>1, <2>2
    <3>3. GoodTask(p, u)
      BY <2>1, <3>1, <3>2, OrdinaryPlugins DEF GoodTask
    <3> QED BY <2>4, <3>3, MovesTo DEF Told
  <2> QED BY <2>1, <2>3, <2>4
<1>9. CASE ShutdownTemperature(p)
  <2>1. /\ p \in DOMAIN Shutdown /\ There(p) /\ t.at = "get" /\ t.obj = Shutdown[p]
        /\ Metric(p, task[p].row, Measured(task[p].mem[1], UpTo(task[p].mem[2]), UpTo(Got(p))))
        /\ Becomes(p, Done) \/ Becomes(p, GoesOn(t))
    BY <1>9 DEF ShutdownTemperature, Gives, Awaits, t
  <2>2. Got(p) # Empty /\ task[p].mem[2] # Empty
    BY <1>1, <2>1, GotIsPlain DEF GoodTask, t
  <2>3. Told(p)
    BY <2>1, <2>2, PlainRanges, TellsMetric
  <2>4. p # UnitStatePlugin /\ GoesOn(t).at # "get"
    BY <1>1, <2>1, Fields, OrdinaryPlugins
  <2>5. Moved
    BY <1>2, <2>1, <2>4, NoGet, OverIsGood, MovesTo
  <2> QED BY <2>3, <2>5
<1> QED BY <1>3, <1>4, <1>5, <1>6, <1>7, <1>8, <1>9

\* The other objects of a switch.
LEMMA ObjectGetKeeps ==
    ASSUME IInv, NEW p \in DOMAIN task,
           \/ DynMemTotal(p) \/ DynMemFree(p) \/ UptimeAsks(p) \/ UptimeGiven(p)
           \/ VersionAsks(p) \/ VersionGiven(p) \/ StackConfigured(p) \/ TopologyGiven(p)
           \/ DhcpAcl(p) \/ DhcpSnooping(p)
    PROVE  Told(p) /\ Moved
<1> DEFINE t == task[p]
<1>1. Shape(t)
  BY DEF IInv, GoodTask
<1>2. /\ \A o, l : Shape(Gets(t, o, l))
      /\ \A m, o, l : Shape(Gets(Remembers(t, m), o, l))
      /\ \A table : Shape(Walks(t, table))
  BY <1>1, Shapes
<1>3. p \notin Kinds
  BY OrdinaryPlugins
     DEF Kinds, UnitStatePlugin, DynMemTotal, DynMemFree, UptimeAsks, UptimeGiven, VersionAsks,
         VersionGiven, StackConfigured, TopologyGiven, DhcpAcl, DhcpSnooping
<1>4. GoodTask(p, Done)
  BY OverIsGood
<1> HIDE DEF t
<1>5. CASE DynMemTotal(p)
  <2>1. Quiet /\ Becomes(p, Gets(Remembers(t, << Got(p) >>), "snAgGblDynMemFree", Scalar))
    BY <1>5 DEF DynMemTotal, t
  <2> QED BY <2>1, <1>2, <1>3, OrdinaryGood, MovesTo DEF Told
<1>6. CASE DynMemFree(p)
  <2>1. /\ Metric(p, << >>, Measured(task[p].mem[1] - Got(p), NoRange, NoRange))
        /\ Becomes(p, Done)
    BY <1>6 DEF DynMemFree
  <2> QED BY <2>1, <1>4, PlainRanges, TellsMetric, MovesTo
<1>7. CASE UptimeAsks(p)
  <2>1. Quiet /\ \E m, o, l : Becomes(p, Gets(Remembers(t, m), o, l))
    BY <1>7 DEF UptimeAsks, t
  <2> QED BY <2>1, <1>2, <1>3, OrdinaryGood, MovesTo DEF Told
<1>8. CASE UptimeGiven(p)
  <2> DEFINE limits == UptimeLimits(task[p].mem[1], task[p].mem[2])
  <2>1. Metric(p, << >>, Measured(Got(p), limits[1], limits[2])) /\ Becomes(p, Done)
    BY <1>8 DEF UptimeGiven
  <2>2. Plain(limits[1]) /\ Plain(limits[2])
    <3>1. Plain(UpTo(1100 * Day)) /\ Plain(UpTo(1200 * Day)) /\ Plain(NoRange)
      <4>1. \A n \in Int : n # Empty
        BY ReportAssumption
      <4>2. 1100 * Day # Empty /\ 1200 * Day # Empty
        BY <4>1 DEF Day
      <4> QED BY <4>2, PlainRanges
    <3>2. limits \in {<< UpTo(1100 * Day), UpTo(1200 * Day) >>, << NoRange, NoRange >>}
      BY DEF UptimeLimits
    <3> HIDE DEF limits
    <3> QED BY <3>1, <3>2
  <2> HIDE DEF limits
  <2> QED BY <2>1, <2>2, <1>4, TellsMetric, MovesTo
<1>9. CASE VersionAsks(p)
  <2>1. Quiet /\ \E m, o, l : Becomes(p, Gets(Remembers(t, m), o, l))
    BY <1>9 DEF VersionAsks, t
  <2> QED BY <2>1, <1>2, <1>3, OrdinaryGood, MovesTo DEF Told
<1>10. CASE VersionGiven(p)
  <2> DEFINE old == VersionAlerts(task[p].mem[1], task[p].mem[2], Got(p))
             sts == IF old = << >> THEN << "OK" >> ELSE old
  <2>1. Alerts(p, << >>, sts) /\ Becomes(p, Done)
    BY <1>10 DEF VersionGiven
  <2>2. sts \in Seq(States4)
    <3>1. /\ << >> \in Seq(States4) /\ << "WARNING" >> \in Seq(States4)
          /\ << "OK" >> \in Seq(States4)
      BY DEF States4
    <3>2. \A x, y \in Seq(States4) : x \o y \in Seq(States4)
      OBVIOUS
    <3>3. \E x, y \in {<< >>, << "WARNING" >>} : old = x \o y
      BY DEF VersionAlerts
    <3> HIDE DEF old
    <3> QED BY <3>1, <3>2, <3>3
  <2> HIDE DEF sts
  <2>3. Told(p)
    BY <2>1, <2>2 DEF Told
  <2> QED BY <2>1, <2>3, <1>4, MovesTo
<1>11. CASE StackConfigured(p)
  <2>1. \/ /\ Starts(p, Walks(t, "snStackingConfigUnitPriority"), StackPlugins)
           /\ Quiet
        \/ Becomes(p, Done) /\ Alerts(p, << >>, << "OK" >>)
    BY <1>11 DEF StackConfigured, t
  <2>2. StackPlugins \in SUBSET AllPlugins /\ "OK" \in States4
    BY DEF StackPlugins, AllPlugins, Table, States4
  <2>3. CASE Starts(p, Walks(t, "snStackingConfigUnitPriority"), StackPlugins) /\ Quiet
    BY <2>2, <2>3, <1>2, <1>3, OrdinaryGood, MovesAndStarts DEF Told
  <2>4. CASE Becomes(p, Done) /\ Alerts(p, << >>, << "OK" >>)
    BY <2>2, <2>4, <1>4, TellsOne, MovesTo
  <2> QED BY <2>1, <2>3, <2>4
<1>12. CASE TopologyGiven(p)
  <2>1. /\ Alerts(p, << >>, << TopologyState(Got(p), Len(task[p].mem)) >>)
        /\ Becomes(p, Done)
    BY <1>12 DEF TopologyGiven
  <2> QED BY <2>1, <1>4, StateTables, TellsOne, MovesTo
<1>13. CASE DhcpAcl(p)
  <2> DEFINE st == IF Got(p) = 0 THEN "CRITICAL" ELSE "OK"
  <2>1. /\ Alerts(p, << >>, << st >>) \/ Quiet
        /\ \E o, l : Becomes(p, Gets(t, o, l))
    BY <1>13 DEF DhcpAcl, t
  <2>2. st \in States4
    BY DEF States4
  <2> HIDE DEF st
  <2>3. Told(p)
    BY <2>1, <2>2, TellsOne DEF Told
  <2> QED BY <2>1, <2>3, <1>2, <1>3, OrdinaryGood, MovesTo
<1>14. CASE DhcpSnooping(p)
  <2> DEFINE st == IF Got(p) = 1 THEN "OK" ELSE "CRITICAL"
  <2>1. (Alerts(p, << >>, << st >>) \/ Quiet) /\ Becomes(p, Done)
    BY <1>14 DEF DhcpSnooping
  <2>2. st \in States4
    BY DEF States4
  <2> HIDE DEF st
  <2>3. Told(p)
    BY <2>1, <2>2, TellsOne DEF Told
  <2> QED BY <2>1, <2>3, <1>4, MovesTo
<1> QED BY <1>5, <1>6, <1>7, <1>8, <1>9, <1>10, <1>11, <1>12, <1>13, <1>14

\* Detection starts plugins, all of which exist.
LEMMA DetectKeeps ==
    ASSUME IInv, NEW p \in DOMAIN task, DetectFamily(p) \/ DetectChassis(p)
    PROVE  Told(p) /\ Moved
<1> DEFINE t == task[p]
<1>1. Shape(t)
  BY DEF IInv, GoodTask
<1>2. p = "detect" /\ p \notin Kinds /\ GoodTask(p, Done)
  BY OrdinaryPlugins, OverIsGood DEF Kinds, UnitStatePlugin, DetectFamily, DetectChassis
<1>3. /\ GoodTask(p, Walks(t, "snVLanByPortMemberTagMode"))
      /\ GoodTask(p, AskAgain(t))
  BY <1>1, <1>2, Shapes, OrdinaryGood DEF AskAgain
<1>4. /\ BrocadePlugins \in SUBSET AllPlugins
      /\ \A id \in DOMAIN FamilyPlugins : FamilyPlugins[id] \in SUBSET AllPlugins
      /\ {"brocade_temperature_plugin"} \in SUBSET AllPlugins /\ {} \in SUBSET AllPlugins
  <2>1. AllPlugins = DOMAIN Table \cup DOMAIN Object \cup {AnyPlugin}
    BY DEF AllPlugins
  <2>2. BrocadePlugins \subseteq DOMAIN Table \cup DOMAIN Object
    BY DEF BrocadePlugins, Table, Object
  <2>3. \A id \in DOMAIN FamilyPlugins : FamilyPlugins[id] \subseteq DOMAIN Table
    BY DEF FamilyPlugins, Table
  <2>4. "brocade_temperature_plugin" \in DOMAIN Object
    BY DEF Object
  <2> QED BY <2>1, <2>2, <2>3, <2>4
<1> HIDE DEF t
<1>5. CASE DetectChassis(p)
  <2> DEFINE ps == IF Got(p) = "snBigIronRXFamily" THEN {} ELSE {"brocade_temperature_plugin"}
  <2>1. Starts(p, Done, ps) /\ Quiet
    BY <1>5 DEF DetectChassis
  <2>2. ps \in SUBSET AllPlugins
    BY <1>4
  <2> HIDE DEF ps
  <2> QED BY <2>1, <2>2, <1>2, MovesAndStarts DEF Told
<1>6. CASE DetectFamily(p)
  <2> DEFINE u == IF UserVlan(ThirdOctet) THEN Walks(t, "snVLanByPortMemberTagMode") ELSE AskAgain(t)
  <2>1. \/ Starts(p, u, BrocadePlugins) /\ Quiet
        \/ \E id \in DOMAIN FamilyPlugins : Starts(p, Done, FamilyPlugins[id]) /\ Quiet
        \/ Becomes(p, Done) /\ Alerts(p, << >>, << "OK" >>)
        \/ Becomes(p, Done) /\ Alerts(p, << >>, << "UNKNOWN" >>)
    BY <1>6 DEF DetectFamily, t
  <2>2. GoodTask(p, u)
    BY <1>3
  <2> HIDE DEF u
  <2>3. "OK" \in States4 /\ "UNKNOWN" \in States4
    BY DEF States4
  <2>4. CASE Starts(p, u, BrocadePlugins) /\ Quiet
    BY <2>2, <2>4, <1>4, MovesAndStarts DEF Told
  <2>5. CASE \E id \in DOMAIN FamilyPlugins : Starts(p, Done, FamilyPlugins[id]) /\ Quiet
    BY <2>5, <1>2, <1>4, MovesAndStarts DEF Told
  <2>6. CASE Becomes(p, Done) /\ Alerts(p, << >>, << "OK" >>)
    BY <2>3, <2>6, <1>2, TellsOne, MovesTo
  <2>7. CASE Becomes(p, Done) /\ Alerts(p, << >>, << "UNKNOWN" >>)
    BY <2>3, <2>7, <1>2, TellsOne, MovesTo
  <2> QED BY <2>1, <2>4, <2>5, <2>6, <2>7
<1> QED BY <1>5, <1>6

-----------------------------------------------------------------------------
LEMMA InitGood == PluginInit => IInv
<1> SUFFICES ASSUME PluginInit PROVE IInv
  OBVIOUS
<1>1. /\ Kept /\ device \in Cases /\ about = << >> /\ made = 0
      /\ task = [p \in {device.plugin} |-> Fresh(p)]
  BY InitKept DEF PluginInit, Init
<1>2. device.plugin \in AllPlugins
  BY <1>1, PluginsAssumption
<1>3. IsSeq(about) /\ Len(about) = 0
  BY <1>1 DEF IsSeq
<1>4. DOMAIN task = {device.plugin} /\ task[device.plugin] = Fresh(device.plugin)
  BY <1>1
<1> QED BY <1>1, <1>2, <1>3, <1>4, Fresher DEF IInv

LEMMA StepTells ==
    ASSUME IInv, NEW p \in DOMAIN task, RowStep(p) \/ EndStep(p) \/ GetStep(p) \/ Fails(p)
    PROVE  Told(p) /\ Moved
<1>1. CASE GetStep(p)
  BY <1>1, TableGetKeeps, ObjectGetKeeps, DetectKeeps DEF GetStep
<1> QED BY <1>1, RowKeeps, EndKeeps, FailKeeps

LEMMA StepGood == IInv /\ [PluginNext]_pluginVars => IInv'
<1> SUFFICES ASSUME IInv, [PluginNext]_pluginVars PROVE IInv'
  OBVIOUS
<1>1. CASE UNCHANGED pluginVars
  <2>1. /\ alerts' = alerts /\ metrics' = metrics /\ made' = made
        /\ device' = device /\ task' = task /\ about' = about
    BY <1>1 DEF pluginVars, vars
  <2>2. Kept'
    BY <2>1 DEF IInv, Kept, StateOf
  <2>3. \A p \in DOMAIN task' : GoodTask(p, task[p])'
    BY <2>1 DEF IInv, GoodTask, Shape, Column
  <2> QED BY <2>1, <2>2, <2>3 DEF IInv
<1>2. CASE PluginNext
  <2>1. device' = device
    BY <1>2 DEF PluginNext
  <2>2. CASE AnyReports
    BY <2>1, <2>2, AnyKeeps
  <2> QED BY <1>2, <2>1, <2>2, StepTells, Keeps DEF PluginNext
<1> QED BY <1>1, <1>2

LEMMA Invariant == PluginSpec => []IInv
BY InitGood, StepGood, PTL DEF PluginSpec

-----------------------------------------------------------------------------
(* Every alert has its plugin and row, only plugins that exist run, and a    *)
(* plugin that walks a table is at a row the table has.                      *)
THEOREM TypeCorrect == PluginSpec => []PluginTypeOK
<1>1. IInv => PluginTypeOK
  <2> SUFFICES ASSUME IInv PROVE PluginTypeOK
    OBVIOUS
  <2>1. \A p \in DOMAIN task : Shape(task[p])
    BY DEF IInv, GoodTask
  <2>2. DOMAIN about = 1 .. Len(about)
    BY DEF IInv, IsSeq
  <2>3. \A a \in Range(about) : a[1] \in AllPlugins
    BY <2>2 DEF IInv, Range
  <2> QED BY <2>1, <2>3 DEF IInv, PluginTypeOK, Shape
<1> QED BY <1>1, Invariant, PTL

(* The thresholds of every metric that any plugin reports, printed as        *)
(* PerfRange.__str__ prints them and read back as fromstr reads them, are    *)
(* the same, so that Nagios judges the value as the check did.               *)
THEOREM ThresholdsSurvive == PluginSpec => []RangesSurviveText
<1>1. IInv => RangesSurviveText
  BY TextSurvives DEF IInv
<1> QED BY <1>1, Invariant, PTL

(* The exit code of the check is at least as bad as what Nagios makes of any *)
(* metric's value and printed thresholds, whichever plugins reported what    *)
(* before and after it and whichever of them failed.                         *)
THEOREM ExitCodeCovers == PluginSpec => []ExitCodeCoversMetrics
<1>1. IInv => ExitCodeCoversMetrics
  BY ExitCovers DEF IInv
<1> QED BY <1>1, Invariant, PTL

(* The text of the check has every alert of every plugin exactly once, also  *)
(* the one that became the summary line.                                     *)
THEOREM AllAlertsPrinted == PluginSpec => []EveryAlertPrintedOnce
<1>1. IInv => EveryAlertPrintedOnce
  BY PrintedOnce DEF IInv
<1> QED BY <1>1, Invariant, PTL

-----------------------------------------------------------------------------
(* Detection starts what the device calls for.                               *)

StackPlugin == "brocade_stack_plugin"
PortsTable  == "snVLanByPortMemberTagMode"

\* User ports that detection finds: it looks for none behind a BulkEngine alone.
FoundPorts == device.engine # "bulk" /\ UserPorts
Due        == CalledFor(FoundPorts)

\* Brocade's plugins, once the ports have been looked at.
WithPorts == BrocadePlugins
             \cup (IF FoundPorts THEN {"brocade_dhcp_snooping_plugin"} ELSE {})

\* Where detection is, and what it has started by then: nothing before it knows
\* the family, and while it walks the ports, none that it has passed is untagged.
DetectGood(t) ==
    /\ t.at \in {"walk", "get", "done", "failed"}
    /\ t.at = "get" => t.tail = Scalar
    /\ t.at = "get" /\ t.mem = << >> => DOMAIN task = {"detect"}
    /\ t.at = "get" /\ t.mem # << >> => Reads("sysObjectID", BrocadeIds) /\ Called(WithPorts)
    /\ t.at = "walk" => /\ t.table = PortsTable
                        /\ Reads("sysObjectID", BrocadeIds) /\ UserVlan(ThirdOctet)
                        /\ Called(BrocadePlugins)
                        /\ \A i \in Rows(PortsTable) : t.row \prec i \/ Column(PortsTable)[i] # 2
    /\ t.at = "done" => Called(Due)

\* The plugin of stacks asks for one object.
StackGood == StackPlugin \in DOMAIN task /\ task[StackPlugin].at = "get"
                 => task[StackPlugin].tail = Scalar

DInv == /\ StackGood
        /\ "detect" \in DOMAIN task => DetectGood(task["detect"])

LEMMA SameDevice ==
    ASSUME device' = device
    PROVE  /\ IsStack' <=> IsStack
           /\ ThirdOctet' = ThirdOctet /\ WithPorts' = WithPorts /\ Due' = Due
           /\ \A o : Column(o)' = Column(o) /\ Rows(o)' = Rows(o)
           /\ \A o, vs : Reads(o, vs)' <=> Reads(o, vs)
<1>1. \A o : Column(o)' = Column(o)
  BY DEF Column
<1>2. ThirdOctet' = ThirdOctet
  BY DEF ThirdOctet
<1>3. \A o : Rows(o)' = Rows(o)
  BY <1>1, <1>2 DEF Rows
<1>4. \A o : The(o)' = The(o) /\ \A vs : Reads(o, vs)' <=> Reads(o, vs)
  BY <1>1 DEF Reads, The
<1>5. (IsStack' <=> IsStack) /\ (FoundPorts' <=> FoundPorts)
  BY <1>1, <1>4 DEF IsStack, FoundPorts, UserPorts
<1>6. WithPorts' = WithPorts
  BY <1>5 DEF WithPorts
<1>7. Due' = Due
  BY <1>4, <1>5 DEF Due, CalledFor
<1> QED BY <1>1, <1>2, <1>3, <1>4, <1>5, <1>6, <1>7

\* A step that starts no plugin takes one of them on.
LEMMA MovesOne ==
    ASSUME NEW p \in DOMAIN task, RowStep(p) \/ EndStep(p) \/ GetStep(p) \/ Fails(p)
    PROVE  \/ \E t : Becomes(p, t)
           \/ p = StackPlugin /\ StackConfigured(p)
           \/ p = "detect" /\ (DetectFamily(p) \/ DetectChassis(p))
           \/ p = "detect" /\ \E i \in Left(p) : RowIs(p, i) /\ PortSeen(p, i)
<1> DEFINE Moves == \E t : Becomes(p, t)
<1>1. ASSUME NEW i \in Left(p), RowIs(p, i),
             \/ FanRow(p, i)     \/ PsuRow(p, i)      \/ LoadRow(p, i)   \/ CiscoRow(p, i)
             \/ MemRow(p, i)     \/ SensorRow(p, i)   \/ UnitActual(p, i)
             \/ UnitCounted(p, i) \/ UnitStateRow(p, i) \/ UnitVersionRow(p, i)
      PROVE  Moves
  <2>1. CASE FanRow(p, i) \/ PsuRow(p, i) \/ LoadRow(p, i) \/ CiscoRow(p, i) \/ MemRow(p, i)
    BY <2>1 DEF FanRow, PsuRow, LoadRow, CiscoRow, MemRow
  <2>2. CASE SensorRow(p, i)
    BY <2>2 DEF SensorRow
  <2>3. CASE UnitActual(p, i) \/ UnitCounted(p, i)
    BY <2>3 DEF UnitActual, UnitCounted
  <2>4. CASE UnitStateRow(p, i) \/ UnitVersionRow(p, i)
    BY <2>4 DEF UnitStateRow, UnitVersionRow
  <2> QED BY <1>1, <2>1, <2>2, <2>3, <2>4
<1>2. ASSUME EndStep(p) PROVE Moves
  BY <1>2 DEF EndStep, TableEnds, StackCounted, TopologyCounted, UnitVersionsEnd, PortsSeen
<1>3. ASSUME GetStep(p), ~ StackConfigured(p), ~ DetectFamily(p), ~ DetectChassis(p) PROVE Moves
  <2>1. CASE \/ PsuDescribed(p) \/ CiscoNamed(p) \/ CiscoMemUsed(p) \/ MemGiven(p)
             \/ ChassisActual(p) \/ WarningTemperature(p) \/ ShutdownTemperature(p)
    BY <2>1 DEF PsuDescribed, CiscoNamed, CiscoMemUsed, MemGiven, ChassisActual,
                WarningTemperature, ShutdownTemperature
  <2>2. CASE \/ DynMemTotal(p) \/ DynMemFree(p) \/ UptimeAsks(p) \/ UptimeGiven(p)
             \/ VersionAsks(p) \/ VersionGiven(p) \/ TopologyGiven(p)
             \/ DhcpAcl(p) \/ DhcpSnooping(p)
    BY <2>2 DEF DynMemTotal, DynMemFree, UptimeAsks, UptimeGiven, VersionAsks, VersionGiven,
                TopologyGiven, DhcpAcl, DhcpSnooping
  <2> QED BY <1>3, <2>1, <2>2 DEF GetStep
<1>4. ASSUME Fails(p) PROVE Moves
  BY <1>4 DEF Fails
<1>5. ASSUME RowStep(p)
      PROVE  \/ Moves
             \/ p = "detect" /\ \E i \in Left(p) : RowIs(p, i) /\ PortSeen(p, i)
  <2>1. PICK i \in Left(p) :
            /\ RowIs(p, i)
            /\ \/ FanRow(p, i)     \/ PsuRow(p, i)      \/ LoadRow(p, i)   \/ CiscoRow(p, i)
               \/ MemRow(p, i)     \/ SensorRow(p, i)   \/ UnitActual(p, i)
               \/ UnitCounted(p, i) \/ UnitStateRow(p, i) \/ UnitVersionRow(p, i)
               \/ PortSeen(p, i)
    BY <1>5 DEF RowStep
  <2>2. PortSeen(p, i) => p = "detect"
    BY DEF PortSeen
  <2> HIDE DEF Moves
  <2> QED BY <1>1, <2>1, <2>2
<1>6. StackConfigured(p) => p = StackPlugin
  BY DEF StackConfigured, StackPlugin
<1>7. DetectFamily(p) \/ DetectChassis(p) => p = "detect"
  BY DEF DetectFamily, DetectChassis
<1> HIDE DEF Moves
<1>8. \/ Moves
      \/ p = StackPlugin /\ StackConfigured(p)
      \/ p = "detect" /\ (DetectFamily(p) \/ DetectChassis(p))
      \/ p = "detect" /\ \E i \in Left(p) : RowIs(p, i) /\ PortSeen(p, i)
  BY <1>2, <1>3, <1>4, <1>5, <1>6, <1>7
<1> QED BY <1>8 DEF Moves

\* The steps of the plugin of stacks, and those of detection.
LEMMA StackSteps ==
    ASSUME NEW p \in {StackPlugin, "detect"}
    PROVE  /\ RowStep(p) => \E i \in Left(p) :
                               /\ RowIs(p, i)
                               /\ UnitCounted(p, i) \/ PortSeen(p, i)
           /\ EndStep(p) => RowsEnd(p) /\ (StackCounted(p) \/ PortsSeen(p))
           /\ GetStep(p) => \/ StackConfigured(p)
                            \/ DetectFamily(p) \/ DetectChassis(p)
<1>1. /\ p \notin FanPlugins \cup PsuPlugins \cup LoadPlugins \cup CiscoPlugins
      /\ p \notin DOMAIN Shutdown
      /\ p \in {"brocade_stack_plugin", "detect"}
  BY OrdinaryPlugins
     DEF StackPlugin, FanPlugins, PsuPlugins, LoadPlugins, CiscoPlugins
<1>2. ASSUME RowStep(p)
      PROVE  \E i \in Left(p) : RowIs(p, i) /\ (UnitCounted(p, i) \/ PortSeen(p, i))
  <2>1. PICK i \in Left(p) :
            /\ RowIs(p, i)
            /\ \/ FanRow(p, i)     \/ PsuRow(p, i)      \/ LoadRow(p, i)   \/ CiscoRow(p, i)
               \/ MemRow(p, i)     \/ SensorRow(p, i)   \/ UnitActual(p, i)
               \/ UnitCounted(p, i) \/ UnitStateRow(p, i) \/ UnitVersionRow(p, i)
               \/ PortSeen(p, i)
    BY <1>2 DEF RowStep
  <2>2. ~ (FanRow(p, i) \/ PsuRow(p, i) \/ LoadRow(p, i) \/ CiscoRow(p, i))
    BY <1>1 DEF FanRow, PsuRow, LoadRow, CiscoRow
  <2>3. ~ (MemRow(p, i) \/ SensorRow(p, i) \/ UnitActual(p, i))
    BY <1>1 DEF MemRow, SensorRow, UnitActual
  <2>4. ~ (UnitStateRow(p, i) \/ UnitVersionRow(p, i))
    BY <1>1 DEF UnitStateRow, UnitVersionRow
  <2> QED BY <2>1, <2>2, <2>3, <2>4
<1>3. ASSUME EndStep(p)
      PROVE  RowsEnd(p) /\ (StackCounted(p) \/ PortsSeen(p))
  <2>1. ~ (TableEnds(p) \/ TopologyCounted(p) \/ UnitVersionsEnd(p))
    BY <1>1 DEF TableEnds, TopologyCounted, UnitVersionsEnd
  <2> QED BY <1>3, <2>1 DEF EndStep
<1>4. ASSUME GetStep(p)
      PROVE  StackConfigured(p) \/ DetectFamily(p) \/ DetectChassis(p)
  <2>1. ~ (\/ PsuDescribed(p) \/ CiscoNamed(p) \/ CiscoMemUsed(p) \/ MemGiven(p)
           \/ ChassisActual(p) \/ WarningTemperature(p) \/ ShutdownTemperature(p))
    BY <1>1 DEF PsuDescribed, CiscoNamed, CiscoMemUsed, MemGiven, ChassisActual,
                WarningTemperature, ShutdownTemperature
  <2>2. ~ (\/ DynMemTotal(p) \/ DynMemFree(p) \/ UptimeAsks(p) \/ UptimeGiven(p)
           \/ VersionAsks(p) \/ VersionGiven(p) \/ TopologyGiven(p)
           \/ DhcpAcl(p) \/ DhcpSnooping(p))
    BY <1>1 DEF DynMemTotal, DynMemFree, UptimeAsks, UptimeGiven, VersionAsks, VersionGiven,
                TopologyGiven, DhcpAcl, DhcpSnooping
  <2> QED BY <1>4, <2>1, <2>2 DEF GetStep
<1> QED BY <1>2, <1>3, <1>4

\* After its first object, the plugin of stacks asks for none.
LEMMA StackMoves ==
    ASSUME IInv, NEW p \in DOMAIN task, p = StackPlugin,
           RowStep(p) \/ EndStep(p) \/ GetStep(p) \/ Fails(p)
    PROVE  p \in DOMAIN task' /\ task'[p].at # "get"
<1>0. Shape(task[p]) /\ p # "detect" /\ p \in {StackPlugin, "detect"} /\ p \notin StackPlugins
  BY DEF IInv, GoodTask, StackPlugin, StackPlugins
<1>1. ASSUME NEW t, Becomes(p, t), t.at # "get" PROVE p \in DOMAIN task' /\ task'[p].at # "get"
  BY <1>1 DEF Becomes
<1>2. Done.at = "done" /\ [Idle EXCEPT !.at = "failed"].at = "failed"
  BY DEF Done, Idle
<1>3. CASE RowStep(p)
  <2>1. PICK i \in Left(p) : RowIs(p, i) /\ (UnitCounted(p, i) \/ PortSeen(p, i))
    BY <1>0, <1>3, StackSteps
  <2> DEFINE t == Remembers(At(p, i), Append(task[p].mem, i))
  <2>2. Becomes(p, t)
    BY <1>0, <2>1 DEF UnitCounted, PortSeen
  <2>3. t.at = "walk"
    BY <1>0, <2>1, RowShape, Fields DEF RowIs
  <2> HIDE DEF t
  <2> QED BY <1>1, <2>2, <2>3
<1>4. CASE EndStep(p)
  <2>1. Becomes(p, Done)
    BY <1>0, <1>4, StackSteps DEF StackCounted, PortsSeen
  <2> QED BY <1>1, <1>2, <2>1
<1>5. CASE GetStep(p)
  <2>1. StackConfigured(p)
    BY <1>0, <1>5, StackSteps DEF DetectFamily, DetectChassis
  <2> DEFINE t == Walks(task[p], "snStackingConfigUnitPriority")
  <2>2. Starts(p, t, StackPlugins) \/ Becomes(p, Done)
    BY <2>1 DEF StackConfigured
  <2>3. t.at = "walk"
    BY <1>0, Fields
  <2> HIDE DEF t
  <2>4. CASE Starts(p, t, StackPlugins)
    BY <1>0, <2>3, <2>4 DEF Starts
  <2> QED BY <1>1, <1>2, <2>2, <2>4
<1>6. CASE Fails(p)
  BY <1>1, <1>2, <1>6 DEF Fails
<1> QED BY <1>3, <1>4, <1>5, <1>6

\* What the steps of other plugins start: a stack's plugins, or none.
OthersStart ==
    \/ DOMAIN task' = DOMAIN task
    \/ StackPlugin \in DOMAIN task /\ IsStack /\ DOMAIN task' = DOMAIN task \cup StackPlugins

LEMMA CalledStays ==
    ASSUME NEW ps, Called(ps), OthersStart, device' = device
    PROVE  Called(ps)'
<1>1. IsStack' <=> IsStack
  BY SameDevice
<1>2. CASE DOMAIN task' = DOMAIN task
  BY <1>1, <1>2 DEF Called
<1>3. CASE StackPlugin \in DOMAIN task /\ IsStack /\ DOMAIN task' = DOMAIN task \cup StackPlugins
  <2>1. "brocade_stack_plugin" \in ps
    BY <1>3 DEF Called, StackPlugin, StackPlugins
  <2> HIDE DEF IsStack
  <2> QED BY <1>1, <1>3, <2>1 DEF Called
<1> QED BY <1>2, <1>3 DEF OthersStart

LEMMA DetectStays ==
    ASSUME NEW t, DetectGood(t), OthersStart, device' = device
    PROVE  DetectGood(t)'
<1> DEFINE ports == WithPorts
           called == Due
<1>0. /\ WithPorts' = WithPorts /\ Due' = Due /\ ThirdOctet' = ThirdOctet
      /\ \A o : Column(o)' = Column(o) /\ Rows(o)' = Rows(o)
      /\ \A o, vs : Reads(o, vs)' <=> Reads(o, vs)
  BY SameDevice
<1>1. \A ps : Called(ps) => Called(ps)'
  BY CalledStays
<1>2. Called(WithPorts) => Called(WithPorts)'
  <2>1. PICK ps : ps = WithPorts
    OBVIOUS
  <2>2. Called(ps) => Called(ps)'
    BY <1>1
  <2>3. Called(WithPorts)' <=> Called(ps)'
    BY <1>0, <2>1 DEF Called
  <2> QED BY <2>1, <2>2, <2>3
<1>3. Called(Due) => Called(Due)'
  <2>1. PICK ps : ps = Due
    OBVIOUS
  <2>2. Called(ps) => Called(ps)'
    BY <1>1
  <2>3. Called(Due)' <=> Called(ps)'
    BY <1>0, <2>1 DEF Called
  <2> QED BY <2>1, <2>2, <2>3
<1>4. t.at = "get" /\ t.mem = << >> => DOMAIN task' = {"detect"}
  <2> SUFFICES ASSUME t.at = "get", t.mem = << >> PROVE DOMAIN task' = {"detect"}
    OBVIOUS
  <2>1. DOMAIN task = {"detect"} /\ StackPlugin # "detect"
    BY DEF DetectGood, StackPlugin
  <2> QED BY <2>1 DEF OthersStart
<1>5. t.at = "walk" => Called(BrocadePlugins)'
  BY <1>1 DEF DetectGood
<1> HIDE DEF Called
<1> QED BY <1>0, <1>2, <1>3, <1>4, <1>5 DEF DetectGood

\* What starting plugins makes of those started.
LEMMA StartsCalled ==
    ASSUME NEW p \in DOMAIN task, NEW t, NEW ps, Starts(p, t, ps), p \notin ps
    PROVE  DOMAIN task' = DOMAIN task \cup ps /\ task'[p] = t
BY DEF Starts

LEMMA ColumnsAre ==
    ASSUME device \in Cases, NEW o
    PROVE  DOMAIN Column(o) \subseteq Oid \ {<< >>}
<1>1. CASE o \in DOMAIN device.mib
  BY <1>1, PluginsAssumption DEF Column
<1>2. CASE o \notin DOMAIN device.mib
  BY <1>2 DEF Column
<1> QED BY <1>1, <1>2

\* The walk over a VLAN's ports finds the ports that the property speaks of.
LEMMA PortsAre ==
    ASSUME device \in Cases
    PROVE  FoundPorts <=> /\ UserVlan(ThirdOctet)
                         /\ \E i \in Rows(PortsTable) : Column(PortsTable)[i] = 2
<1>1. /\ device.octet \in 0 .. 255
      /\ device.engine \in {"simple", "bulk", "cached", "mock"}
  BY PluginsAssumption
<1>2. UserVlan(ThirdOctet) <=> device.engine \notin {"bulk", "mock"} /\ device.octet \in 20 .. 59
  BY <1>1 DEF UserVlan, ThirdOctet
<1>3. UserVlan(ThirdOctet) => ThirdOctet = device.octet
  BY <1>1 DEF UserVlan, ThirdOctet
<1>4. Rows(PortsTable) = {i \in DOMAIN Column(PortsTable) : i[1] = ThirdOctet}
  <2>1. ASSUME NEW i \in DOMAIN Column(PortsTable), NEW v
        PROVE  StartsWith(i, << v >>) <=> i[1] = v
    <3>1. i \in Seq(Nat) /\ i # << >>
      BY ColumnsAre DEF Oid
    <3>2. Len(i) \in Nat /\ 1 <= Len(i)
      BY <3>1
    <3>3. Len(<< v >>) = 1 /\ << v >>[1] = v /\ \A k \in 1 .. 1 : k = 1
      OBVIOUS
    <3> QED BY <3>2, <3>3 DEF StartsWith
  <2>2. \A i \in DOMAIN Column(PortsTable) : StartsWith(i, << ThirdOctet >>) <=> i[1] = ThirdOctet
    BY <2>1
  <2>3. Rows(PortsTable) = {i \in DOMAIN Column(PortsTable) : StartsWith(i, << ThirdOctet >>)}
    BY DEF Rows, PortsTable
  <2> QED BY <2>2, <2>3
<1>5. FoundPorts <=> /\ UserVlan(ThirdOctet)
                    /\ \E i \in DOMAIN Column(PortsTable) :
                          i[1] = device.octet /\ Column(PortsTable)[i] = 2
  BY <1>2 DEF FoundPorts, UserPorts, PortsTable
<1> HIDE DEF UserVlan
<1> QED BY <1>3, <1>4, <1>5

\* The rows up to one that the walk delivers: those it has passed, and this one.
LEMMA PassedIs ==
    ASSUME device \in Cases, NEW p \in DOMAIN task, NEW i \in Left(p), RowIs(p, i),
           task[p].row \in Oid
    PROVE  \A j \in Rows(task[p].table) :
              ~ (i \prec j) <=> (j = i \/ ~ (task[p].row \prec j))
<1>1. /\ Left(p) = {j \in Rows(task[p].table) : task[p].row \prec j}
      /\ \A j \in Left(p) : i \prec j \/ i = j
  BY DEF Left, RowIs, \preceq
<1>2. Rows(task[p].table) \subseteq Oid
  BY ColumnsAre DEF Rows
<1>3. ASSUME NEW j \in Rows(task[p].table), ~ (i \prec j)
      PROVE  j = i \/ ~ (task[p].row \prec j)
  BY <1>1, <1>3
<1>4. ASSUME NEW j \in Rows(task[p].table), i \prec j
      PROVE  j # i /\ task[p].row \prec j
  <2>1. i \in Oid /\ j \in Oid /\ task[p].row \prec i
    BY <1>1, <1>2
  <2> QED BY <1>4, <2>1, PrecIrreflexive, PrecTransitive
<1> QED BY <1>3, <1>4

LEMMA CalledMore ==
    ASSUME NEW ps, Called(ps), NEW qs, DOMAIN task' = DOMAIN task \cup qs, device' = device
    PROVE  Called(ps \cup qs)'
<1>1. IsStack' <=> IsStack
  BY SameDevice
<1> QED BY <1>1 DEF Called

LEMMA CalledFirst ==
    ASSUME NEW qs, DOMAIN task' = {"detect"} \cup qs
    PROVE  Called(qs)'
BY DEF Called

LEMMA AsksAgain ==
    ASSUME NEW t, Shape(t)
    PROVE  /\ AskAgain(t).at = "get" /\ AskAgain(t).tail = Scalar
           /\ AskAgain(t).mem = << "brocade" >>
BY DEF AskAgain, Gets, Remembers, Shape

\* Detection asks again when the ports have been looked at.
LEMMA DetectAsksAgain ==
    ASSUME NEW u, u.at = "get", u.tail = Scalar, u.mem # << >>,
           Reads("sysObjectID", BrocadeIds), NEW ps, Called(ps)', ps = WithPorts, device' = device
    PROVE  DetectGood(u)'
<1>1. Reads("sysObjectID", BrocadeIds)' /\ WithPorts' = WithPorts
  BY SameDevice
<1>2. Called(WithPorts)'
  BY <1>1 DEF Called
<1> QED BY <1>1, <1>2 DEF DetectGood

LEMMA DetectWalks ==
    ASSUME NEW u, u.at = "walk", u.table = PortsTable, NEW i, u.row = i,
           Reads("sysObjectID", BrocadeIds)', Called(BrocadePlugins)',
           UserVlan(ThirdOctet), ThirdOctet' = ThirdOctet,
           Rows(PortsTable)' = Rows(PortsTable), Column(PortsTable)' = Column(PortsTable),
           \A j \in Rows(PortsTable) : i \prec j \/ Column(PortsTable)[j] # 2
    PROVE  DetectGood(u)'
<1>1. (\A j \in Rows(PortsTable) : u.row \prec j \/ Column(PortsTable)[j] # 2)'
  <2>1. ASSUME NEW j \in Rows(PortsTable)' PROVE u.row \prec j \/ Column(PortsTable)'[j] # 2
    OBVIOUS
  <2> QED BY <2>1
<1>2. UserVlan(ThirdOctet)'
  BY DEF UserVlan
<1>3. PortsTable' = PortsTable
  BY DEF PortsTable
<1> QED BY <1>1, <1>2, <1>3 DEF DetectGood

LEMMA DetectIs ==
    ASSUME NEW p, NEW u, task'[p] = u, DetectGood(u)'
    PROVE  DetectGood(task[p])'
BY DEF DetectGood

\* A port that detection looks at.
LEMMA PortKeeps ==
    ASSUME IInv, NEW p \in DOMAIN task, p = "detect", DetectGood(task[p]), device' = device,
           NEW i \in Left(p), RowIs(p, i), PortSeen(p, i)
    PROVE  p \in DOMAIN task' /\ DetectGood(task[p])'
<1>1. /\ Shape(task[p]) /\ task[p].row \in DOMAIN Column(task[p].table) \cup {<< >>}
      /\ device \in Cases
  BY DEF IInv, GoodTask, Shape
<1>2. /\ task[p].at = "walk" /\ task[p].table = PortsTable
      /\ Reads("sysObjectID", BrocadeIds) /\ UserVlan(ThirdOctet) /\ Called(BrocadePlugins)
      /\ \A j \in Rows(PortsTable) : task[p].row \prec j \/ Column(PortsTable)[j] # 2
  BY DEF RowIs, DetectGood
<1>3. i \in Rows(PortsTable) /\ Val(p, i) = Column(PortsTable)[i]
  BY <1>2 DEF Left, Val
<1>4. CASE Val(p, i) = 2
  <2> DEFINE qs == {"brocade_dhcp_snooping_plugin"}
  <2>0. PICK u : u = AskAgain(task[p])
    OBVIOUS
  <2>1. Starts(p, u, qs)
    BY <1>4, <2>0 DEF PortSeen
  <2>2. p \notin qs
    OBVIOUS
  <2>3. u.at = "get" /\ u.tail = Scalar /\ u.mem = << "brocade" >>
    BY <1>1, <2>0, AsksAgain
  <2> HIDE DEF qs
  <2>4. DOMAIN task' = DOMAIN task \cup qs /\ task'[p] = u
    BY <2>1, <2>2, StartsCalled
  <2>5. Called(BrocadePlugins \cup qs)'
    BY <1>2, <2>4, CalledMore
  <2>6. BrocadePlugins \cup qs = WithPorts
    BY <1>1, <1>2, <1>3, <1>4, PortsAre DEF WithPorts, qs
  <2>7. u.mem # << >>
    BY <2>3
  <2>8. DetectGood(u)'
    <3>1. PICK ps : ps = BrocadePlugins \cup qs
      OBVIOUS
    <3>2. Called(ps)' /\ ps = WithPorts
      BY <2>5, <2>6, <3>1 DEF qs
    <3> QED BY <1>2, <2>3, <2>7, <3>2, DetectAsksAgain
  <2> QED BY <2>4, <2>8, DetectIs
<1>5. CASE Val(p, i) # 2
  <2>0. PICK u : u = At(p, i)
    OBVIOUS
  <2>1. Becomes(p, u)
    BY <1>5, <2>0 DEF PortSeen
  <2>2. u.at = "walk" /\ u.table = PortsTable /\ u.row = i
    BY <1>1, <1>2, <2>0 DEF At, Shape
  <2>3. DOMAIN task' = DOMAIN task /\ task'[p] = u
    BY <2>1 DEF Becomes
  <2>4. task[p].row \in Oid
    <3>1. DOMAIN Column(task[p].table) \subseteq Oid \ {<< >>}
      BY <1>1, ColumnsAre
    <3>2. << >> \in Oid
      BY DEF Oid
    <3> QED BY <1>1, <3>1, <3>2
  <2>5. \A j \in Rows(PortsTable) : i \prec j \/ Column(PortsTable)[j] # 2
    BY <1>1, <1>2, <1>3, <1>5, <2>4, PassedIs
  <2>6. Called(BrocadePlugins)'
    BY <1>2, <2>3, CalledStays DEF OthersStart
  <2>7. /\ Rows(PortsTable)' = Rows(PortsTable) /\ Column(PortsTable)' = Column(PortsTable)
        /\ Reads("sysObjectID", BrocadeIds)' /\ ThirdOctet' = ThirdOctet
    BY <1>2, SameDevice
  <2>8. DetectGood(u)'
    BY <1>2, <2>2, <2>5, <2>6, <2>7, DetectWalks
  <2> QED BY <2>3, <2>8, DetectIs
<1> QED BY <1>4, <1>5

\* The end of the ports.
LEMMA PortsKeep ==
    ASSUME IInv, NEW p \in DOMAIN task, p = "detect", DetectGood(task[p]), device' = device,
           RowsEnd(p), PortsSeen(p)
    PROVE  p \in DOMAIN task' /\ DetectGood(task[p])'
<1>1. Shape(task[p]) /\ device \in Cases
  BY DEF IInv, GoodTask
<1>2. /\ task[p].table = PortsTable /\ Reads("sysObjectID", BrocadeIds) /\ Called(BrocadePlugins)
      /\ \A j \in Rows(PortsTable) : task[p].row \prec j \/ Column(PortsTable)[j] # 2
      /\ \A j \in Rows(PortsTable) : ~ (task[p].row \prec j)
  BY DEF RowsEnd, Left, DetectGood
<1>3. BrocadePlugins = WithPorts
  BY <1>1, <1>2, PortsAre DEF WithPorts
<1>0. PICK u : u = AskAgain(task[p])
  OBVIOUS
<1>4. Becomes(p, u)
  BY <1>0 DEF PortsSeen
<1>5. u.at = "get" /\ u.tail = Scalar /\ u.mem = << "brocade" >>
  BY <1>0, <1>1, AsksAgain
<1>6. DOMAIN task' = DOMAIN task /\ task'[p] = u
  BY <1>4 DEF Becomes
<1>7. Called(BrocadePlugins)'
  BY <1>2, <1>6, CalledStays DEF OthersStart
<1>8. u.mem # << >>
  BY <1>5
<1>9. DetectGood(u)'
  BY <1>2, <1>3, <1>5, <1>7, <1>8, DetectAsksAgain
<1> QED BY <1>6, <1>9, DetectIs

LEMMA DetectEnds ==
    ASSUME NEW ps, Called(ps)', ps = Due, device' = device
    PROVE  DetectGood(Done)'
<1>1. Due' = Due
  BY SameDevice
<1>2. Called(Due)'
  BY <1>1 DEF Called
<1>3. Done.at = "done"
  BY DEF Done, Idle
<1> HIDE DEF Called
<1> QED BY <1>2, <1>3 DEF DetectGood

\* The family is known.
LEMMA FamilyKeeps ==
    ASSUME IInv, NEW p \in DOMAIN task, p = "detect", DetectGood(task[p]), device' = device,
           DetectFamily(p)
    PROVE  p \in DOMAIN task' /\ DetectGood(task[p])'
<1> DEFINE id == The("sysObjectID")
<1>0. Shape(task[p]) /\ device \in Cases
  BY DEF IInv, GoodTask
<1>1. /\ task[p].at = "get" /\ task[p].mem = << >> /\ DOMAIN task = {"detect"}
      /\ task[p].tail = Scalar /\ task[p].obj = "sysObjectID" /\ There(p)
  BY DEF DetectFamily, Gives, Awaits, DetectGood
<1>2. Scalar \in DOMAIN Column("sysObjectID") /\ Got(p) = id
  BY <1>1 DEF There, Got, The
<1>20. PICK u : u = IF UserVlan(ThirdOctet) THEN Walks(task[p], PortsTable)
                   ELSE AskAgain(task[p])
  OBVIOUS
<1>3. \/ id \in BrocadeIds /\ Starts(p, u, BrocadePlugins)
      \/ id \in DOMAIN FamilyPlugins /\ Starts(p, Done, FamilyPlugins[id])
      \/ id \notin BrocadeIds \cup DOMAIN FamilyPlugins /\ Becomes(p, Done)
  <2>1. "allied_telesis" \notin BrocadeIds \cup DOMAIN FamilyPlugins
    BY DEF BrocadeIds, FamilyPlugins
  <2> HIDE DEF id
  <2> QED BY <1>2, <1>20, <2>1 DEF DetectFamily, PortsTable
<1>4. p \notin BrocadePlugins /\ \A f \in DOMAIN FamilyPlugins : p \notin FamilyPlugins[f]
  BY DEF BrocadePlugins, FamilyPlugins
<1>5. CASE id \in BrocadeIds /\ Starts(p, u, BrocadePlugins)
  <2>1. DOMAIN task' = {"detect"} \cup BrocadePlugins /\ task'[p] = u
    BY <1>1, <1>4, <1>5, StartsCalled
  <2>2. Called(BrocadePlugins)'
    BY <2>1, CalledFirst
  <2>3. Reads("sysObjectID", BrocadeIds)
    BY <1>2, <1>5 DEF Reads
  <2>4. CASE UserVlan(ThirdOctet)
    <3>1. u = Walks(task[p], PortsTable)
      BY <1>20, <2>4
    <3>2. u.at = "walk" /\ u.table = PortsTable /\ u.row = << >>
      BY <1>0, <3>1 DEF Walks, Shape
    <3>3. \A i \in Rows(PortsTable) : << >> \prec i
      <4>1. \A i \in Rows(PortsTable) : i \in Oid /\ i # << >>
        BY <1>0, ColumnsAre DEF Rows
      <4> QED BY <4>1, EmptyIsLeast
    <3>4. /\ Rows(PortsTable)' = Rows(PortsTable) /\ Column(PortsTable)' = Column(PortsTable)
          /\ Reads("sysObjectID", BrocadeIds)' /\ ThirdOctet' = ThirdOctet
      BY <2>3, SameDevice
    <3>5. DetectGood(u)'
      BY <2>2, <2>3, <2>4, <3>2, <3>3, <3>4, DetectWalks
    <3> QED BY <2>1, <3>5, DetectIs
  <2>5. CASE ~ UserVlan(ThirdOctet)
    <3>1. u = AskAgain(task[p])
      BY <1>20, <2>5
    <3>2. u.at = "get" /\ u.tail = Scalar /\ u.mem = << "brocade" >>
      BY <1>0, <3>1, AsksAgain
    <3>3. u.mem # << >>
      BY <3>2
    <3>4. BrocadePlugins = WithPorts
      BY <1>0, <2>5, PortsAre DEF WithPorts
    <3>5. DetectGood(u)'
      BY <2>2, <2>3, <3>2, <3>3, <3>4, DetectAsksAgain
    <3> QED BY <2>1, <3>5, DetectIs
  <2> QED BY <2>4, <2>5
<1>6. CASE id \in DOMAIN FamilyPlugins /\ Starts(p, Done, FamilyPlugins[id])
  <2>0. PICK qs : qs = FamilyPlugins[id]
    OBVIOUS
  <2>1. DOMAIN task' = {"detect"} \cup qs /\ task'[p] = Done
    <3> HIDE DEF id
    <3> QED BY <1>1, <1>4, <1>6, <2>0, StartsCalled
  <2>2. Called(qs)'
    BY <2>1, CalledFirst
  <2>3. Due = qs
    BY <1>6, <2>0 DEF Due, CalledFor
  <2> HIDE DEF id
  <2>4. DetectGood(Done)'
    BY <2>2, <2>3, DetectEnds
  <2> QED BY <2>1, <2>4, DetectIs
<1>7. CASE id \notin BrocadeIds \cup DOMAIN FamilyPlugins /\ Becomes(p, Done)
  <2>1. DOMAIN task' = {"detect"} \cup {} /\ task'[p] = Done
    BY <1>1, <1>7 DEF Becomes
  <2>2. Called({})'
    BY <2>1, CalledFirst
  <2>3. Due = {}
    BY <1>7 DEF Due, CalledFor
  <2>4. DetectGood(Done)'
    BY <2>2, <2>3, DetectEnds
  <2> QED BY <2>1, <2>4, DetectIs
<1> QED BY <1>3, <1>5, <1>6, <1>7

\* The chassis is known.
LEMMA ChassisKeeps ==
    ASSUME IInv, NEW p \in DOMAIN task, p = "detect", DetectGood(task[p]), device' = device,
           DetectChassis(p)
    PROVE  p \in DOMAIN task' /\ DetectGood(task[p])'
<1> DEFINE id == The("sysObjectID")
<1>0. PICK qs : qs = IF id = "snBigIronRXFamily" THEN {} ELSE {"brocade_temperature_plugin"}
  OBVIOUS
<1>1. /\ task[p].at = "get" /\ task[p].mem # << >> /\ Called(WithPorts)
      /\ id \in BrocadeIds /\ task[p].tail = Scalar /\ task[p].obj = "sysObjectID"
  BY DEF DetectChassis, Gives, Awaits, DetectGood, Reads
<1>2. Got(p) = id
  BY <1>1 DEF Got, The
<1>3. Starts(p, Done, qs) /\ p \notin qs
  BY <1>0, <1>2 DEF DetectChassis
<1>4. WithPorts \cup qs = Due
  <2>1. id \notin DOMAIN FamilyPlugins /\ (id = "brcdIp" <=> id # "snBigIronRXFamily")
    BY <1>1 DEF BrocadeIds, FamilyPlugins
  <2> QED BY <1>0, <1>1, <2>1 DEF Due, CalledFor, WithPorts
<1> HIDE DEF id
<1>5. DOMAIN task' = DOMAIN task \cup qs /\ task'[p] = Done
  BY <1>3, StartsCalled
<1>6. PICK ps : ps = WithPorts
  OBVIOUS
<1>7. Called(ps)
  BY <1>1, <1>6 DEF Called
<1>8. PICK rs : rs = ps \cup qs
  OBVIOUS
<1>9. Called(rs)' /\ rs = Due
  BY <1>4, <1>5, <1>6, <1>7, <1>8, CalledMore
<1>10. DetectGood(Done)'
  BY <1>9, DetectEnds
<1> QED BY <1>5, <1>10, DetectIs

LEMMA FreshAsks ==
    /\ Shape(Idle) /\ Idle.mem = << >> /\ Idle.at = "started"
    /\ \A p \in {"detect", StackPlugin} :
          Fresh(p).at = "get" /\ Fresh(p).tail = Scalar /\ Fresh(p).mem = << >>
<1>1. Shape(Idle) /\ Idle.mem = << >> /\ Idle.at = "started"
  BY Ends DEF Idle
<1>2. \A p \in {"detect", StackPlugin} : Fresh(p) = Gets(Idle, Object[p], Scalar)
  BY DEF Fresh, Table, Object, StackPlugin
<1> QED BY <1>1, <1>2 DEF Gets, Shape

\* A step moves one plugin, and may start others.
LEMMA OthersStay ==
    ASSUME IInv, NEW p \in DOMAIN task, RowStep(p) \/ EndStep(p) \/ GetStep(p) \/ Fails(p),
           NEW q \in DOMAIN task', q # p
    PROVE  \/ task'[q] \in {Fresh(q), Idle}
           \/ q \in DOMAIN task /\ task'[q] = task[q]
<1>1. CASE \E t : Becomes(p, t)
  BY <1>1 DEF Becomes
<1>2. CASE \E t, ps : Starts(p, t, ps)
  BY <1>2 DEF Starts
<1>3. CASE p = StackPlugin /\ StackConfigured(p)
  BY <1>1, <1>2, <1>3 DEF StackConfigured
<1>4. CASE DetectFamily(p) \/ DetectChassis(p)
  BY <1>1, <1>2, <1>4 DEF DetectFamily, DetectChassis
<1>5. CASE \E i \in Left(p) : PortSeen(p, i)
  BY <1>1, <1>2, <1>5 DEF PortSeen
<1> QED BY <1>1, <1>3, <1>4, <1>5, MovesOne

LEMMA InitDetects == PluginInit => DInv
<1> SUFFICES ASSUME PluginInit PROVE DInv
  OBVIOUS
<1>1. DOMAIN task = {device.plugin} /\ task[device.plugin] = Fresh(device.plugin)
  BY DEF PluginInit
<1>2. ASSUME "detect" \in DOMAIN task PROVE DetectGood(task["detect"])
  BY <1>1, <1>2, FreshAsks DEF DetectGood
<1>3. StackGood
  BY <1>1, FreshAsks DEF StackGood
<1> QED BY <1>2, <1>3 DEF DInv

\* A step of detection.
LEMMA DetectMoves ==
    ASSUME IInv, NEW p \in DOMAIN task, p = "detect", DetectGood(task[p]), device' = device,
           RowStep(p) \/ EndStep(p) \/ GetStep(p) \/ Fails(p)
    PROVE  p \in DOMAIN task' /\ DetectGood(task[p])'
<1>0. p \in {StackPlugin, "detect"} /\ p # StackPlugin
  BY DEF StackPlugin
<1>1. CASE Fails(p)
  <2> DEFINE u == [Idle EXCEPT !.at = "failed"]
  <2>1. Becomes(p, u)
    BY <1>1 DEF Fails
  <2>2. u.at = "failed" /\ task'[p] = u /\ p \in DOMAIN task'
    BY <2>1 DEF Becomes, Idle
  <2> HIDE DEF u
  <2>3. DetectGood(u)'
    BY <2>2 DEF DetectGood
  <2> QED BY <2>2, <2>3
<1>2. CASE RowStep(p)
  <2>1. PICK i \in Left(p) : RowIs(p, i) /\ (UnitCounted(p, i) \/ PortSeen(p, i))
    BY <1>0, <1>2, StackSteps
  <2>2. PortSeen(p, i)
    BY <2>1 DEF UnitCounted
  <2> QED BY <2>1, <2>2, PortKeeps
<1>3. CASE EndStep(p)
  <2>1. RowsEnd(p) /\ PortsSeen(p)
    BY <1>0, <1>3, StackSteps DEF StackCounted
  <2> QED BY <2>1, PortsKeep
<1>4. CASE GetStep(p)
  <2>1. DetectFamily(p) \/ DetectChassis(p)
    BY <1>0, <1>4, StackSteps DEF StackConfigured
  <2> QED BY <2>1, FamilyKeeps, ChassisKeeps
<1> QED BY <1>1, <1>2, <1>3, <1>4

\* A step of another plugin starts a stack's plugins, or none.
LEMMA OthersMove ==
    ASSUME DInv, NEW p \in DOMAIN task, p # "detect",
           RowStep(p) \/ EndStep(p) \/ GetStep(p) \/ Fails(p)
    PROVE  /\ OthersStart
           /\ "detect" \in DOMAIN task' => "detect" \in DOMAIN task
                                           /\ task'["detect"] = task["detect"]
<1>1. CASE \E t : Becomes(p, t)
  BY <1>1 DEF Becomes, OthersStart
<1>2. CASE p = StackPlugin /\ StackConfigured(p)
  <2>1. CASE There(p) /\ Got(p) = 1
    <3>1. /\ \E t : Starts(p, t, StackPlugins)
          /\ task[p].at = "get" /\ task[p].obj = "snStackingGlobalConfigSt"
      BY <1>2, <2>1 DEF StackConfigured, Awaits
    <3>2. task[p].tail = Scalar
      BY <1>2, <3>1 DEF DInv, StackGood
    <3>3. IsStack
      BY <2>1, <3>1, <3>2 DEF There, Got, IsStack, Reads, The
    <3> QED BY <1>2, <3>1, <3>3 DEF Starts, OthersStart, StackPlugins
  <2>2. CASE ~ (There(p) /\ Got(p) = 1)
    BY <1>1, <1>2, <2>2 DEF StackConfigured
  <2> QED BY <2>1, <2>2
<1> QED BY <1>1, <1>2, MovesOne

LEMMA StepDetects ==
    ASSUME IInv, DInv, [PluginNext]_pluginVars
    PROVE  DInv'
<1>1. CASE UNCHANGED task /\ device' = device
  <2>1. StackGood'
    BY <1>1 DEF DInv, StackGood
  <2>2. ASSUME "detect" \in DOMAIN task PROVE DetectGood(task["detect"])'
    <3>1. PICK u : u = task["detect"]
      OBVIOUS
    <3>2. DetectGood(u)'
      BY <1>1, <2>2, <3>1, DetectStays DEF DInv, OthersStart
    <3> QED BY <1>1, <3>1, <3>2
  <2> QED BY <1>1, <2>1, <2>2 DEF DInv
<1>2. ASSUME NEW p \in DOMAIN task, RowStep(p) \/ EndStep(p) \/ GetStep(p) \/ Fails(p),
             device' = device
      PROVE  DInv'
  <2>1. StackGood'
    <3> SUFFICES ASSUME StackPlugin \in DOMAIN task', task'[StackPlugin].at = "get"
                 PROVE  task'[StackPlugin].tail = Scalar
      BY DEF StackGood
    <3>1. p # StackPlugin
      BY <1>2, StackMoves
    <3>2. CASE task'[StackPlugin] \in {Fresh(StackPlugin), Idle}
      BY <3>2, FreshAsks
    <3>3. CASE StackPlugin \in DOMAIN task /\ task'[StackPlugin] = task[StackPlugin]
      BY <3>3 DEF DInv, StackGood
    <3> QED BY <1>2, <3>1, <3>2, <3>3, OthersStay
  <2>2. ASSUME "detect" \in DOMAIN task' PROVE DetectGood(task["detect"])'
    <3>1. CASE p = "detect"
      BY <1>2, <3>1, DetectMoves DEF DInv
    <3>2. CASE p # "detect"
      <4>1. OthersStart /\ "detect" \in DOMAIN task /\ task'["detect"] = task["detect"]
        BY <1>2, <2>2, <3>2, OthersMove
      <4>2. PICK u : u = task["detect"]
        OBVIOUS
      <4>3. DetectGood(u)'
        BY <1>2, <4>1, <4>2, DetectStays DEF DInv
      <4> QED BY <4>1, <4>2, <4>3
    <3> QED BY <3>1, <3>2
  <2> QED BY <2>1, <2>2 DEF DInv
<1> QED BY <1>1, <1>2 DEF PluginNext, AnyReports, pluginVars

(* Whatever the device, whatever fails and in whatever order answers come,   *)
(* when detection is over the plugins started are those that the device      *)
(* calls for (detect.py, brocade_detect, cisco_detect, hp_detect) - unless   *)
(* it is asked with a BulkEngine alone, of which get_third_octet knows       *)
(* nothing, so that the user ports are not found (brocade.py:36-49).         *)
THEOREM DetectionIsRight ==
    PluginSpec => [](device.engine # "bulk" => StartedAreCalledFor)
<1>1. DInv => (device.engine # "bulk" => StartedAreCalledFor)
  <2>1. device.engine # "bulk" => CalledFor(FoundPorts) = CalledFor(UserPorts)
    BY DEF FoundPorts, CalledFor
  <2> QED BY <2>1 DEF DInv, DetectGood, StartedAreCalledFor, Due
<1> QED BY <1>1, InitDetects, StepDetects, Invariant, PTL DEF PluginSpec

-----------------------------------------------------------------------------
(* Plugins that report the rows of a table.                                  *)

Ascending(p) == \A k, n \in RowAlerts(p) : k < n => about[k][2] \prec about[n][2]

\* While p walks it has told the rows it has passed, while it asks for more of
\* a row those before it.
RowGood(p, t) ==
    /\ ToldRows(p) \subseteq RowsToTell(p) /\ Ascending(p)
    /\ t.at \in {"walk", "get"} => t.table = Table[p]
    /\ t.at = "walk" => ToldRows(p) = {i \in RowsToTell(p) : ~ (t.row \prec i)}
    /\ t.at = "get"  => /\ t.row \in RowsToTell(p)
                        /\ ToldRows(p) = {i \in RowsToTell(p) : i \prec t.row}
    /\ t.at = "done" => ToldRows(p) = RowsToTell(p)

UnitRows == {i \in DOMAIN Column(Table[UnitStatePlugin]) :
                Column(Table[UnitStatePlugin])[i] \in 1 .. 4}

UnitGood(t) ==
    /\ t.at # "get"
    /\ t.at = "walk" => /\ t.table = Table[UnitStatePlugin]
                        /\ \A i \in UnitRows : t.row \prec i \/ i \in ToldRows(UnitStatePlugin)
    /\ t.at = "done" => UnitRows \subseteq ToldRows(UnitStatePlugin)

\* Only plugins that were started tell.
TellersRun == \A k \in 1 .. Len(about) : about[k][1] \in DOMAIN task

RInv == /\ TellersRun
        /\ \A p \in TellsRows \cap DOMAIN task : RowGood(p, task[p])
        /\ UnitStatePlugin \in DOMAIN task => UnitGood(task[UnitStatePlugin])

\* about has n more alerts, of p about the row i.
Adds(p, i, n) ==
    /\ n \in Nat /\ Len(about) \in Nat /\ Len(about') = Len(about) + n
    /\ DOMAIN about = 1 .. Len(about) /\ DOMAIN about' = 1 .. Len(about')
    /\ \A k \in 1 .. Len(about) : about'[k] = about[k]
    /\ \A k \in 1 .. Len(about') : k \in 1 .. Len(about) \/ about'[k] = <<p, i>>

LEMMA SomeAdded ==
    ASSUME IInv, NEW p \in AllPlugins, NEW i, NEW n \in Nat,
           about' = about \o [k \in 1 .. n |-> <<p, i>>]
    PROVE  Adds(p, i, n)
<1> DEFINE S == {about[k] : k \in 1 .. Len(about)} \cup {<<p, i>>}
           A == {about[k] : k \in 1 .. Len(about)}
           l == [k \in 1 .. n |-> <<p, i>>]
<1>1. about \in Seq(S)
  <2>1. about \in Seq(A)
    BY SeqElems DEF IInv
  <2>2. A \subseteq S
    OBVIOUS
  <2>3. Len(about) \in Nat /\ about \in [1 .. Len(about) -> A]
    BY <2>1
  <2> HIDE DEF A, S
  <2>4. about \in [1 .. Len(about) -> S]
    BY <2>2, <2>3
  <2> QED BY <2>3, <2>4
<1>2. l \in Seq(S) /\ Len(l) = n /\ \A k \in 1 .. n : l[k] = <<p, i>>
  <2>1. <<p, i>> \in S
    OBVIOUS
  <2> HIDE DEF S
  <2> QED BY <2>1
<1>3. about' = about \o l
  OBVIOUS
<1> HIDE DEF S, A, l
<1>4. /\ about' \in Seq(S) /\ Len(about') = Len(about) + n /\ Len(about) \in Nat
      /\ \A k \in 1 .. Len(about) : about'[k] = about[k]
      /\ \A k \in 1 .. n : about'[Len(about) + k] = <<p, i>>
  <2>1. /\ about \o l \in Seq(S) /\ Len(about \o l) = Len(about) + Len(l)
        /\ \A k \in 1 .. Len(about) + Len(l) :
              (about \o l)[k] = IF k <= Len(about) THEN about[k] ELSE l[k - Len(about)]
    BY <1>1, <1>2, ConcatProperties
  <2>2. Len(about) \in Nat /\ Len(l) = n
    BY <1>1, <1>2
  <2>3. ASSUME NEW k \in 1 .. Len(about) PROVE about'[k] = about[k]
    BY <1>3, <2>1, <2>2
  <2>4. ASSUME NEW k \in 1 .. n PROVE about'[Len(about) + k] = <<p, i>>
    <3>1. PICK m : m = Len(about) + k
      OBVIOUS
    <3>2. m \in 1 .. Len(about) + Len(l) /\ ~ (m <= Len(about)) /\ m - Len(about) = k
      BY <2>2, <3>1
    <3>3. about'[m] = l[m - Len(about)]
      BY <1>3, <2>1, <3>2
    <3> QED BY <1>2, <3>1, <3>2, <3>3
  <2> QED BY <1>3, <2>1, <2>2, <2>3, <2>4
<1>5. DOMAIN about = 1 .. Len(about) /\ DOMAIN about' = 1 .. Len(about')
  BY <1>1, <1>4
<1>6. ASSUME NEW k \in 1 .. Len(about'), k \notin 1 .. Len(about) PROVE about'[k] = <<p, i>>
  <2>1. k - Len(about) \in 1 .. n /\ Len(about) + (k - Len(about)) = k
    BY <1>4, <1>6
  <2> QED BY <1>4, <2>1
<1> QED BY <1>4, <1>5, <1>6 DEF Adds

\* What the collector is told is about the plugin that tells it.
LEMMA TellsAre ==
    ASSUME IInv, NEW p \in DOMAIN task
    PROVE  /\ Quiet => Adds(p, << >>, 0)
           /\ \A i : \A sts \in Seq(States4) : Alerts(p, i, sts) => Adds(p, i, Len(sts))
           /\ \A i : \A st \in States4 : Alerts(p, i, << st >>) => Adds(p, i, 1)
           /\ \A i, m : Metric(p, i, m) => Adds(p, i, 1)
<1>0. p \in AllPlugins /\ IsSeq(about) /\ Len(about) \in Nat /\ DOMAIN about = 1 .. Len(about)
  BY DEF IInv, IsSeq
<1>1. ASSUME Quiet PROVE Adds(p, << >>, 0)
  BY <1>0, <1>1 DEF Quiet, Adds
<1>2. ASSUME NEW i, NEW sts \in Seq(States4), Alerts(p, i, sts) PROVE Adds(p, i, Len(sts))
  <2>1. DOMAIN sts = 1 .. Len(sts) /\ Len(sts) \in Nat
    OBVIOUS
  <2>2. about' = about \o [k \in 1 .. Len(sts) |-> <<p, i>>]
    BY <1>2, <2>1 DEF Alerts
  <2> QED BY <1>0, <2>1, <2>2, SomeAdded
<1>3. ASSUME NEW i, NEW st \in States4, Alerts(p, i, << st >>) PROVE Adds(p, i, 1)
  <2>1. << st >> \in Seq(States4) /\ Len(<< st >>) = 1
    OBVIOUS
  <2>2. Adds(p, i, Len(<< st >>))
    BY <1>2, <1>3, <2>1
  <2> QED BY <2>1, <2>2
<1>4. ASSUME NEW i, NEW m, Metric(p, i, m) PROVE Adds(p, i, 1)
  <2>1. about' = Append(about, <<p, i>>)
    BY <1>4 DEF Metric
  <2>2. /\ IsSeq(about') /\ Len(about') = Len(about) + 1
        /\ \A k \in 1 .. Len(about) : about'[k] = about[k]
        /\ about'[Len(about) + 1] = <<p, i>>
    BY <1>0, <2>1, AppendIs
  <2>3. DOMAIN about' = 1 .. Len(about')
    BY <2>2 DEF IsSeq
  <2>4. \A k \in 1 .. Len(about') : k \in 1 .. Len(about) \/ k = Len(about) + 1
    BY <1>0, <2>2
  <2> QED BY <1>0, <2>2, <2>3, <2>4 DEF Adds
<1> QED BY <1>1, <1>2, <1>3, <1>4

\* What others tell, and what p tells of no row, adds no row of p's.
LEMMA NoRowAdded ==
    ASSUME NEW p, NEW q, NEW i, NEW n, Adds(q, i, n), p # q \/ i = << >> \/ n = 0
    PROVE  /\ ToldRows(p)' = ToldRows(p)
           /\ Ascending(p) => Ascending(p)'
<1>1. RowAlerts(p)' = RowAlerts(p)
  <2>1. ASSUME NEW k \in 1 .. Len(about'), k \notin 1 .. Len(about)
        PROVE  ~ (about'[k][1] = p /\ about'[k][2] # << >>)
    <3>1. about'[k] = <<q, i>> /\ n # 0
      BY <2>1 DEF Adds
    <3> QED BY <3>1
  <2>2. \A k \in 1 .. Len(about) : k \in 1 .. Len(about')
    BY DEF Adds
  <2> QED BY <2>1, <2>2 DEF RowAlerts, Adds
<1>2. \A k \in RowAlerts(p) : about'[k] = about[k]
  BY DEF RowAlerts, Adds
<1>3. ToldRows(p)' = ToldRows(p)
  BY <1>1, <1>2 DEF ToldRows
<1> QED BY <1>1, <1>2, <1>3 DEF Ascending

\* The alert of a row adds it to the rows told, in order if it comes after them.
LEMMA RowAdded ==
    ASSUME NEW p, NEW i, i # << >>, Adds(p, i, 1)
    PROVE  /\ ToldRows(p)' = ToldRows(p) \cup {i}
           /\ Ascending(p) /\ (\A j \in ToldRows(p) : j \prec i) => Ascending(p)'
<1> DEFINE e == Len(about) + 1
<1>1. /\ Len(about) \in Nat /\ DOMAIN about = 1 .. Len(about) /\ DOMAIN about' = 1 .. e
      /\ \A k \in 1 .. Len(about) : about'[k] = about[k]
      /\ about'[e] = <<p, i>>
  <2>1. e \in 1 .. e /\ e \notin 1 .. Len(about)
    BY DEF Adds
  <2> QED BY <2>1 DEF Adds
<1>2. /\ RowAlerts(p)' = RowAlerts(p) \cup {e}
      /\ \A k \in RowAlerts(p) : k \in 1 .. Len(about) /\ about'[k] = about[k]
  <2>1. 1 .. e = 1 .. Len(about) \cup {e} /\ about'[e][1] = p /\ about'[e][2] = i
    BY <1>1
  <2> HIDE DEF e
  <2> QED BY <1>1, <2>1 DEF RowAlerts
<1>3. ToldRows(p)' = ToldRows(p) \cup {i}
  <2>1. about'[e][2] = i
    BY <1>1
  <2> HIDE DEF e
  <2> QED BY <1>2, <2>1 DEF ToldRows
<1>4. ASSUME Ascending(p), \A j \in ToldRows(p) : j \prec i PROVE Ascending(p)'
  <2> SUFFICES ASSUME NEW k \in RowAlerts(p)', NEW n \in RowAlerts(p)', k < n
               PROVE  about'[k][2] \prec about'[n][2]
    BY DEF Ascending
  <2>1. k \in RowAlerts(p)
    BY <1>1, <1>2
  <2>2. CASE n = e
    BY <1>1, <1>2, <1>4, <2>1, <2>2 DEF ToldRows
  <2>3. CASE n \in RowAlerts(p)
    BY <1>2, <1>4, <2>1, <2>3 DEF Ascending
  <2> QED BY <1>2, <2>2, <2>3
<1> QED BY <1>3, <1>4

LEMMA PlacesKept ==
    ASSUME NEW t, Shape(t)
    PROVE  /\ \A o, l : Gets(t, o, l).row = t.row /\ Gets(t, o, l).table = t.table
           /\ \A m : Remembers(t, m).row = t.row /\ Remembers(t, m).table = t.table
           /\ GoesOn(t).row = t.row /\ GoesOn(t).table = t.table
BY DEF Gets, Remembers, GoesOn, Shape

LEMMA TellersAre ==
    ASSUME NEW p \in TellsRows
    PROVE  /\ p \notin DOMAIN Shutdown \cup {UnitStatePlugin, StackPlugin, "detect", AnyPlugin}
           /\ p \notin {"hp_sensors_plugin", "brocade_stacking_topology_plugin",
                        "brocade_stacking_version_plugin"}
           /\ p \in DOMAIN Table /\ p \notin DOMAIN Object /\ Table[p] # PortsTable
           /\ p \notin LoadPlugins => p # "brocade_cpu_usage_plugin"
<1>1. p \in {"brocade_fan_table_plugin", "brocade_stack_fan_table_plugin",
             "brocade_psu_table_plugin", "brocade_stack_psu_table_plugin",
             "cisco_fan_table_plugin", "cisco_psu_table_plugin",
             "brocade_agent_temperature_plugin", "brocade_cpu_usage_plugin",
             "cisco_cpu_usage_plugin", "cisco_mem_usage_plugin", "hp_mem_usage_plugin"}
  BY DEF TellsRows, FanPlugins, PsuPlugins, CiscoPlugins, LoadPlugins
<1>2. p \in DOMAIN Table /\ Table[p] # PortsTable
  BY <1>1 DEF Table, PortsTable
<1>3. p \notin DOMAIN Object
  BY <1>1 DEF Object
<1>4. p \notin LoadPlugins => p # "brocade_cpu_usage_plugin"
  BY DEF LoadPlugins
<1> QED BY <1>1, <1>2, <1>3, <1>4, OrdinaryPlugins DEF UnitStatePlugin, StackPlugin, AnyPlugin

\* The walk delivers the row i, which p tells, passes over or asks more of.
RowTold(p, i, u) ==
    /\ i \in Left(p) /\ RowIs(p, i) /\ u.table = task[p].table /\ u.row = i
    /\ \/ u.at = "walk" /\ i \in RowsToTell(p) /\ Adds(p, i, 1)
       \/ u.at = "walk" /\ i \notin RowsToTell(p) /\ Adds(p, << >>, 0)
       \/ u.at = "get" /\ i \in RowsToTell(p) /\ Adds(p, << >>, 0)

\* More of the row arrives.
MoreTold(p, u) ==
    /\ task[p].at = "get" /\ u.table = task[p].table /\ u.row = task[p].row
    /\ \/ u.at = "get" /\ Adds(p, << >>, 0)
       \/ u.at = "walk" /\ Adds(p, task[p].row, 1)

\* The walk is over, or the plugin fails.
LastTold(p, u) == \/ RowsEnd(p) /\ u.at = "done" /\ Adds(p, << >>, 0)
                  \/ u.at = "failed" /\ Adds(p, << >>, 1)

TellerStep(p, u) == \/ \E i : RowTold(p, i, u)
                    \/ MoreTold(p, u)
                    \/ LastTold(p, u)

LEMMA TellerRows ==
    ASSUME IInv, NEW p \in DOMAIN task, p \in TellsRows, RowGood(p, task[p]), RowStep(p)
    PROVE  \E u : Becomes(p, u) /\ TellerStep(p, u)
<1>1. PICK i \in Left(p) :
          /\ RowIs(p, i)
          /\ \/ FanRow(p, i)     \/ PsuRow(p, i)      \/ LoadRow(p, i)   \/ CiscoRow(p, i)
             \/ MemRow(p, i)     \/ SensorRow(p, i)   \/ UnitActual(p, i)
             \/ UnitCounted(p, i) \/ UnitStateRow(p, i) \/ UnitVersionRow(p, i)
             \/ PortSeen(p, i)
  BY DEF RowStep
<1> DEFINE t == At(p, i)
<1>2. /\ Shape(task[p]) /\ task[p].at = "walk" /\ task[p].table = Table[p]
  BY <1>1 DEF IInv, GoodTask, RowIs, RowGood
<1>3. /\ Shape(t) /\ t.at = "walk" /\ t.table = task[p].table /\ t.row = i
  BY <1>2, RowShape DEF At, Shape
<1>4. /\ i \in DOMAIN Column(Table[p])
      /\ p \notin LoadPlugins => i \in RowsToTell(p)
      /\ i \in RowsToTell(p) <=> (p = "brocade_cpu_usage_plugin" => Last(i) = 300)
  <2>1. Rows(Table[p]) = DOMAIN Column(Table[p])
    BY TellersAre DEF Rows, PortsTable
  <2>2. i \in DOMAIN Column(Table[p])
    BY <1>2, <2>1 DEF Left
  <2> QED BY <2>2, TellersAre DEF RowsToTell
<1>5. /\ \A m : /\ Shape(Remembers(t, m)) /\ Remembers(t, m).table = t.table
                /\ Remembers(t, m).row = i
      /\ \A o, l : /\ Gets(t, o, l).at = "get" /\ Gets(t, o, l).table = t.table
                   /\ Gets(t, o, l).row = i
  BY <1>3, Shapes, Fields, PlacesKept
<1>6. \A m, o, l : /\ Gets(Remembers(t, m), o, l).at = "get"
                   /\ Gets(Remembers(t, m), o, l).table = t.table
                   /\ Gets(Remembers(t, m), o, l).row = i
  BY <1>5, Fields, PlacesKept
<1> HIDE DEF t
<1>7. CASE FanRow(p, i)
  <2>1. Alerts(p, i, << FanState(Val(p, i)) >>) /\ Becomes(p, t) /\ p \notin LoadPlugins
    BY <1>7 DEF FanRow, t, FanPlugins, LoadPlugins
  <2>2. Adds(p, i, 1)
    BY <2>1, StateTables, TellsAre
  <2> QED BY <1>1, <1>3, <1>4, <2>1, <2>2 DEF TellerStep, RowTold
<1>8. CASE PsuRow(p, i)
  <2>0. p \notin LoadPlugins
    BY <1>8 DEF PsuRow, PsuPlugins, LoadPlugins
  <2>1. CASE Val(p, i) = 3
    <3>1. Becomes(p, Gets(t, Detail[p], PsuIndex(p, i))) /\ Quiet
      BY <1>8, <2>1 DEF PsuRow, t
    <3>2. Adds(p, << >>, 0)
      BY <3>1, TellsAre
    <3> DEFINE u == Gets(t, Detail[p], PsuIndex(p, i))
    <3>3. RowTold(p, i, u)
      BY <1>1, <1>3, <1>4, <1>5, <2>0, <3>2 DEF RowTold
    <3> HIDE DEF u
    <3> QED BY <3>1, <3>3 DEF TellerStep, u
  <2>2. CASE Val(p, i) # 3
    <3>1. Becomes(p, t) /\ Alerts(p, i, << PsuState(Val(p, i)) >>)
      BY <1>8, <2>2 DEF PsuRow, t
    <3>2. Adds(p, i, 1)
      BY <3>1, StateTables, TellsAre
    <3> QED BY <1>1, <1>3, <1>4, <2>0, <3>1, <3>2 DEF TellerStep, RowTold
  <2> QED BY <2>1, <2>2
<1>9. CASE LoadRow(p, i)
  <2>1. Becomes(p, t)
    BY <1>9 DEF LoadRow, t
  <2>2. CASE p = "brocade_cpu_usage_plugin" /\ Last(i) # 300
    <3>1. Quiet
      BY <1>9, <2>2 DEF LoadRow
    <3>2. Adds(p, << >>, 0) /\ i \notin RowsToTell(p)
      BY <1>4, <2>2, <3>1, TellsAre
    <3> QED BY <1>1, <1>3, <2>1, <3>2 DEF TellerStep, RowTold
  <2>3. CASE ~ (p = "brocade_cpu_usage_plugin" /\ Last(i) # 300)
    <3>1. \E m : Metric(p, i, m)
      BY <1>9, <2>3 DEF LoadRow
    <3>2. Adds(p, i, 1) /\ i \in RowsToTell(p)
      BY <1>4, <2>3, <3>1, TellsAre
    <3> QED BY <1>1, <1>3, <2>1, <3>2 DEF TellerStep, RowTold
  <2> QED BY <2>2, <2>3
<1>10. CASE CiscoRow(p, i) \/ MemRow(p, i)
  <2> DEFINE u == Gets(Remembers(t, << Val(p, i) >>), Detail[p], << Last(i) >>)
  <2>1. Becomes(p, u) /\ Quiet /\ p \notin LoadPlugins
    BY <1>10 DEF CiscoRow, MemRow, t, CiscoPlugins, LoadPlugins
  <2>2. Adds(p, << >>, 0)
    BY <2>1, TellsAre
  <2>3. RowTold(p, i, u)
    BY <1>1, <1>3, <1>4, <1>6, <2>1, <2>2 DEF RowTold
  <2> HIDE DEF u
  <2> QED BY <2>1, <2>3 DEF TellerStep
<1>11. ~ (SensorRow(p, i) \/ UnitActual(p, i) \/ UnitCounted(p, i) \/ UnitStateRow(p, i)
          \/ UnitVersionRow(p, i) \/ PortSeen(p, i))
  BY TellersAre, OrdinaryPlugins
     DEF SensorRow, UnitActual, UnitCounted, UnitStateRow, UnitVersionRow, PortSeen,
         UnitStatePlugin, StackPlugin
<1> QED BY <1>1, <1>7, <1>8, <1>9, <1>10, <1>11

LEMMA TellerAnswers ==
    ASSUME IInv, NEW p \in DOMAIN task, p \in TellsRows, RowGood(p, task[p]),
           EndStep(p) \/ GetStep(p) \/ Fails(p)
    PROVE  \E u : Becomes(p, u) /\ TellerStep(p, u)
<1> DEFINE t == task[p]
<1>0. Shape(t)
  BY DEF IInv, GoodTask
<1>1. /\ GoesOn(t).at = "walk" /\ GoesOn(t).table = t.table /\ GoesOn(t).row = t.row
      /\ \A m, o, l : LET u == Gets(Remembers(t, m), o, l)
                      IN  u.at = "get" /\ u.table = t.table /\ u.row = t.row
  <2>1. \A m : Shape(Remembers(t, m))
    BY <1>0, Shapes
  <2> HIDE DEF t
  <2> QED BY <1>0, <2>1, Fields, PlacesKept
<1>2. /\ Done.at = "done" /\ [Idle EXCEPT !.at = "failed"].at = "failed"
  BY DEF Done, Idle
<1>n. p \notin {"hp_sensors_plugin", "brocade_stacking_topology_plugin",
                "brocade_stacking_version_plugin", "detect", "brocade_stack_plugin"}
  BY TellersAre DEF StackPlugin
<1>3. CASE Fails(p)
  <2>1. Alerts(p, << >>, << "CRITICAL" >>) /\ "CRITICAL" \in States4
    BY <1>3 DEF Fails, States4
  <2>2. Adds(p, << >>, 1)
    BY <2>1, TellsAre
  <2> QED BY <1>2, <1>3, <2>2 DEF Fails, TellerStep, LastTold
<1>4. CASE EndStep(p)
  <2>1. RowsEnd(p) /\ Becomes(p, Done) /\ Quiet
    BY <1>4, <1>n DEF EndStep, TableEnds, StackCounted, TopologyCounted, UnitVersionsEnd, PortsSeen
  <2>2. Adds(p, << >>, 0)
    BY <2>1, TellsAre
  <2> QED BY <1>2, <2>1, <2>2 DEF TellerStep, LastTold
<1>5. ASSUME t.at = "get", NEW i, i = t.row, Adds(p, i, 1), Becomes(p, GoesOn(t))
      PROVE  \E u : Becomes(p, u) /\ TellerStep(p, u)
  <2> DEFINE u == GoesOn(t)
  <2>1. MoreTold(p, u)
    BY <1>1, <1>5 DEF MoreTold
  <2> HIDE DEF u
  <2> QED BY <1>5, <2>1 DEF TellerStep, u
<1>6. CASE PsuDescribed(p)
  <2> DEFINE st == IF Got(p) = "not present" THEN "OK" ELSE "CRITICAL"
  <2>1. Alerts(p, t.row, << st >>) /\ Becomes(p, GoesOn(t)) /\ t.at = "get"
    BY <1>6 DEF PsuDescribed, Gives, Awaits
  <2>2. st \in States4
    BY DEF States4
  <2> HIDE DEF st, t
  <2>3. Adds(p, t.row, 1)
    BY <2>1, <2>2, TellsAre
  <2> QED BY <1>5, <2>1, <2>3
<1>7. CASE CiscoNamed(p)
  <2>1. /\ Alerts(p, t.row, << cisco_state(t.mem[1]) >>) /\ Becomes(p, GoesOn(t)) /\ t.at = "get"
    BY <1>7 DEF CiscoNamed, Gives, Awaits
  <2> HIDE DEF t
  <2>2. Adds(p, t.row, 1)
    BY <2>1, StateTables, TellsAre
  <2> QED BY <1>5, <2>1, <2>2
<1>8. CASE MemGiven(p)
  <2>1. /\ \E m : Metric(p, t.row, m)
        /\ Becomes(p, GoesOn(t)) /\ t.at = "get"
    BY <1>8 DEF MemGiven, Gives, Awaits
  <2> HIDE DEF t
  <2>2. Adds(p, t.row, 1)
    BY <2>1, TellsAre
  <2> QED BY <1>5, <2>1, <2>2
<1>9. CASE CiscoMemUsed(p)
  <2> DEFINE u == Gets(Remembers(t, << Got(p) >>), "ciscoMemoryPoolFree", t.tail)
  <2>1. Becomes(p, u) /\ Quiet /\ t.at = "get"
    BY <1>9 DEF CiscoMemUsed, Gives, Awaits
  <2>2. Adds(p, << >>, 0)
    BY <2>1, TellsAre
  <2>3. MoreTold(p, u)
    BY <1>1, <2>1, <2>2 DEF MoreTold
  <2> HIDE DEF u
  <2> QED BY <2>1, <2>3 DEF TellerStep
<1>10. GetStep(p) => PsuDescribed(p) \/ CiscoNamed(p) \/ MemGiven(p) \/ CiscoMemUsed(p)
  <2>1. p \in DOMAIN Table /\ p \notin DOMAIN Object /\ p \notin DOMAIN Shutdown
    BY TellersAre
  <2>2. /\ DOMAIN Object = {"detect", "brocade_temperature_plugin", "brocade_mem_usage_plugin",
                            "brocade_uptime_plugin", "brocade_version_plugin",
                            "brocade_stack_plugin", "brocade_dhcp_snooping_plugin"}
        /\ DOMAIN Shutdown = {"brocade_temperature_plugin", "brocade_unit_temperature_plugin"}
    BY OrdinaryPlugins DEF Object
  <2>3. ~ (ChassisActual(p) \/ WarningTemperature(p) \/ ShutdownTemperature(p))
    BY <2>1, <2>2 DEF ChassisActual, WarningTemperature, ShutdownTemperature
  <2>4. ~ (DynMemTotal(p) \/ DynMemFree(p) \/ UptimeAsks(p) \/ UptimeGiven(p)
           \/ VersionAsks(p) \/ VersionGiven(p))
    BY <2>1, <2>2 DEF DynMemTotal, DynMemFree, UptimeAsks, UptimeGiven, VersionAsks, VersionGiven
  <2>5. ~ (StackConfigured(p) \/ TopologyGiven(p) \/ DhcpAcl(p) \/ DhcpSnooping(p)
           \/ DetectFamily(p) \/ DetectChassis(p))
    BY <1>n, <2>1, <2>2
       DEF StackConfigured, TopologyGiven, DhcpAcl, DhcpSnooping, DetectFamily, DetectChassis
  <2> QED BY <2>3, <2>4, <2>5 DEF GetStep
<1> QED BY <1>3, <1>4, <1>6, <1>7, <1>8, <1>9, <1>10

\* The plugin's part of the invariant is kept by its steps.
LEMMA TellerKeeps ==
    ASSUME IInv, NEW p \in DOMAIN task, p \in TellsRows, RowGood(p, task[p]), device' = device,
           NEW u, TellerStep(p, u)
    PROVE  RowGood(p, u)'
<1> DEFINE t == task[p]
<1>0. /\ t.row \in Oid /\ device \in Cases
      /\ t.row \in DOMAIN Column(t.table) \cup {<< >>}
      /\ ToldRows(p) \subseteq RowsToTell(p) /\ Ascending(p)
  <2>1. device \in Cases /\ t.row \in DOMAIN Column(t.table) \cup {<< >>}
    BY DEF IInv, GoodTask, Shape
  <2>2. DOMAIN Column(t.table) \subseteq Oid \ {<< >>}
    BY <2>1, ColumnsAre
  <2>3. << >> \in Oid
    BY DEF Oid
  <2> HIDE DEF IInv, t
  <2> QED BY <2>1, <2>2, <2>3 DEF RowGood, t
<1>1. /\ RowsToTell(p)' = RowsToTell(p)
      /\ RowsToTell(p) \subseteq DOMAIN Column(Table[p])
      /\ RowsToTell(p) \subseteq Oid \ {<< >>}
  <2>1. Column(Table[p])' = Column(Table[p])
    BY SameDevice
  <2> QED BY <1>0, <2>1, ColumnsAre DEF RowsToTell
<1>2. Rows(Table[p]) = DOMAIN Column(Table[p])
  BY TellersAre DEF Rows, PortsTable
<1>3. ASSUME NEW i, RowTold(p, i, u) PROVE RowGood(p, u)'
  <2>1. /\ t.at = "walk" /\ t.table = Table[p] /\ i \in Left(p) /\ RowIs(p, i)
        /\ u.table = Table[p] /\ u.row = i
        /\ ToldRows(p) = {j \in RowsToTell(p) : ~ (t.row \prec j)}
    BY <1>3 DEF RowTold, RowIs, RowGood
  <2>2. \A j \in RowsToTell(p) : ~ (i \prec j) <=> (j = i \/ ~ (t.row \prec j))
    <3>1. \A j \in Rows(t.table) : ~ (i \prec j) <=> (j = i \/ ~ (t.row \prec j))
      BY <1>0, <2>1, PassedIs
    <3> QED BY <1>1, <1>2, <2>1, <3>1
  <2>3. i \in Oid \ {<< >>} /\ t.row \prec i
    <3>1. i \in DOMAIN Column(Table[p]) /\ t.row \prec i
      BY <1>2, <2>1 DEF Left
    <3> QED BY <1>0, <3>1, ColumnsAre
  <2>4. \A j \in RowsToTell(p) : i \prec j <=> (j # i /\ t.row \prec j)
    BY <2>2
  <2>5. \A j \in RowsToTell(p) : j \prec i <=> ~ (t.row \prec j)
    <3> SUFFICES ASSUME NEW j \in RowsToTell(p) PROVE j \prec i <=> ~ (t.row \prec j)
      OBVIOUS
    <3>1. j \in Oid
      BY <1>1
    <3>2. j \prec i => ~ (i \prec j) /\ j # i
      BY <2>3, <3>1, PrecIrreflexive, PrecTransitive
    <3>3. ~ (i \prec j) /\ j # i => j \prec i
      BY <2>3, <3>1, PrecTotal
    <3>4. ~ (t.row \prec j) => ~ (i \prec j) /\ j # i
      BY <2>2, <2>3
    <3> QED BY <2>2, <3>2, <3>3, <3>4
  <2>6. CASE u.at = "walk" /\ i \in RowsToTell(p) /\ Adds(p, i, 1)
    <3>1. ToldRows(p)' = ToldRows(p) \cup {i} /\ Ascending(p)'
      <4>1. \A j \in ToldRows(p) : j \prec i
        BY <2>1, <2>5
      <4> QED BY <1>0, <2>3, <2>6, <4>1, RowAdded
    <3>2. ToldRows(p)' = {j \in RowsToTell(p) : ~ (i \prec j)}
      BY <2>1, <2>2, <2>6, <3>1
    <3> QED BY <1>0, <1>1, <2>1, <2>6, <3>1, <3>2 DEF RowGood
  <2>7. CASE u.at = "walk" /\ i \notin RowsToTell(p) /\ Adds(p, << >>, 0)
    <3>1. ToldRows(p)' = ToldRows(p) /\ Ascending(p)'
      BY <1>0, <2>7, NoRowAdded
    <3>2. ToldRows(p)' = {j \in RowsToTell(p) : ~ (i \prec j)}
      BY <2>1, <2>2, <2>7, <3>1
    <3> QED BY <1>0, <1>1, <2>1, <2>7, <3>1, <3>2 DEF RowGood
  <2>8. CASE u.at = "get" /\ i \in RowsToTell(p) /\ Adds(p, << >>, 0)
    <3>1. ToldRows(p)' = ToldRows(p) /\ Ascending(p)'
      BY <1>0, <2>8, NoRowAdded
    <3>2. ToldRows(p)' = {j \in RowsToTell(p) : j \prec i}
      BY <2>1, <2>5, <3>1
    <3> QED BY <1>0, <1>1, <2>1, <2>8, <3>1, <3>2 DEF RowGood
  <2> QED BY <1>3, <2>6, <2>7, <2>8 DEF RowTold
<1>4. CASE MoreTold(p, u)
  <2>1. /\ t.at = "get" /\ u.table = Table[p] /\ u.row = t.row /\ t.row \in RowsToTell(p)
        /\ ToldRows(p) = {j \in RowsToTell(p) : j \prec t.row}
    BY <1>4 DEF MoreTold, RowGood
  <2>2. CASE u.at = "get" /\ Adds(p, << >>, 0)
    <3>1. ToldRows(p)' = ToldRows(p) /\ Ascending(p)'
      BY <1>0, <2>2, NoRowAdded
    <3> QED BY <1>0, <1>1, <2>1, <2>2, <3>1 DEF RowGood
  <2>3. CASE u.at = "walk" /\ Adds(p, t.row, 1)
    <3>1. ToldRows(p)' = ToldRows(p) \cup {t.row} /\ Ascending(p)'
      <4>1. \A j \in ToldRows(p) : j \prec t.row
        BY <2>1
      <4>2. t.row # << >>
        BY <1>1, <2>1
      <4> QED BY <1>0, <2>3, <4>1, <4>2, RowAdded
    <3>2. \A j \in RowsToTell(p) : j \prec t.row \/ j = t.row <=> ~ (t.row \prec j)
      BY <1>0, <1>1, PrecIrreflexive, PrecTransitive, PrecTotal
    <3>3. ToldRows(p)' = {j \in RowsToTell(p) : ~ (t.row \prec j)}
      BY <2>1, <3>1, <3>2
    <3> QED BY <1>0, <1>1, <2>1, <2>3, <3>1, <3>3 DEF RowGood
  <2> QED BY <1>4, <2>2, <2>3 DEF MoreTold
<1>5. CASE LastTold(p, u)
  <2>1. ToldRows(p)' = ToldRows(p) /\ Ascending(p)'
    BY <1>0, <1>5, NoRowAdded DEF LastTold
  <2>2. RowsEnd(p) => ToldRows(p) = RowsToTell(p)
    <3> SUFFICES ASSUME RowsEnd(p) PROVE ToldRows(p) = RowsToTell(p)
      OBVIOUS
    <3>1. /\ t.at = "walk" /\ t.table = Table[p]
          /\ \A j \in Rows(Table[p]) : ~ (t.row \prec j)
          /\ ToldRows(p) = {j \in RowsToTell(p) : ~ (t.row \prec j)}
      BY DEF RowsEnd, Left, RowGood
    <3> QED BY <1>1, <1>2, <3>1
  <2> QED BY <1>0, <1>1, <1>5, <2>1, <2>2 DEF LastTold, RowGood
<1> QED BY <1>3, <1>4, <1>5 DEF TellerStep

\* A step of p adds alerts of p.
LEMMA ToldAdds ==
    ASSUME IInv, NEW p \in DOMAIN task, Told(p)
    PROVE  \E i : \E n \in Nat : Adds(p, i, n)
<1>1. CASE Quiet
  <2>1. Adds(p, << >>, 0)
    BY <1>1, TellsAre
  <2> QED BY <2>1
<1>2. ASSUME NEW i, NEW sts \in Seq(States4), Alerts(p, i, sts)
      PROVE  \E n \in Nat : Adds(p, i, n)
  <2>1. Adds(p, i, Len(sts)) /\ Len(sts) \in Nat
    BY <1>2, TellsAre
  <2> QED BY <2>1
<1>3. ASSUME NEW i, NEW m, Metric(p, i, m) PROVE \E n \in Nat : Adds(p, i, n)
  <2>1. Adds(p, i, 1)
    BY <1>3, TellsAre
  <2> QED BY <2>1
<1> QED BY <1>1, <1>2, <1>3 DEF Told

LEMMA ToldStay ==
    ASSUME NEW p, NEW q, NEW i, NEW n, Adds(q, i, n)
    PROVE  ToldRows(p) \subseteq ToldRows(p)'
<1>1. \A k \in RowAlerts(p) : k \in RowAlerts(p)' /\ about'[k] = about[k]
  <2>1. \A k \in 1 .. Len(about) : k \in 1 .. Len(about')
    BY DEF Adds
  <2> QED BY <2>1 DEF RowAlerts, Adds
<1> QED BY <1>1 DEF ToldRows

LEMMA TellersStay ==
    ASSUME TellersRun, NEW p \in DOMAIN task, NEW i, NEW n, Adds(p, i, n),
           DOMAIN task \subseteq DOMAIN task'
    PROVE  TellersRun'
<1> SUFFICES ASSUME NEW k \in 1 .. Len(about') PROVE about'[k][1] \in DOMAIN task'
  BY DEF TellersRun
<1>1. CASE k \in 1 .. Len(about)
  BY <1>1 DEF Adds, TellersRun
<1>2. CASE about'[k] = <<p, i>>
  BY <1>2
<1> QED BY <1>1, <1>2 DEF Adds

\* No plugin stops being there, and one that moves has become something.
LEMMA TasksStay ==
    ASSUME NEW p \in DOMAIN task, RowStep(p) \/ EndStep(p) \/ GetStep(p) \/ Fails(p)
    PROVE  DOMAIN task \subseteq DOMAIN task'
<1>1. CASE \E t : Becomes(p, t)
  BY <1>1 DEF Becomes
<1>2. CASE \E t, ps : Starts(p, t, ps)
  BY <1>2 DEF Starts
<1>3. CASE p = StackPlugin /\ StackConfigured(p)
  BY <1>1, <1>2, <1>3 DEF StackConfigured
<1>4. CASE DetectFamily(p) \/ DetectChassis(p)
  BY <1>1, <1>2, <1>4 DEF DetectFamily, DetectChassis
<1>5. CASE \E i \in Left(p) : PortSeen(p, i)
  BY <1>1, <1>2, <1>5 DEF PortSeen
<1> QED BY <1>1, <1>3, <1>4, <1>5, MovesOne

\* A plugin of rows that runs is not started again: only the family's step
\* starts one, and nothing but detection runs then.
LEMMA TellersStart ==
    ASSUME IInv, DInv, NEW p \in DOMAIN task,
           RowStep(p) \/ EndStep(p) \/ GetStep(p) \/ Fails(p),
           NEW q \in TellsRows, q \in DOMAIN task', q # p
    PROVE  \/ q \notin DOMAIN task /\ task'[q] \in {Fresh(q), Idle}
           \/ q \in DOMAIN task /\ task'[q] = task[q]
<1>0. /\ q # "detect"
      /\ q \notin {"brocade_dhcp_snooping_plugin"} /\ q \notin {"brocade_temperature_plugin"}
      /\ q \notin StackPlugins
  <2>1. q \in {"brocade_fan_table_plugin", "brocade_stack_fan_table_plugin",
               "brocade_psu_table_plugin", "brocade_stack_psu_table_plugin",
               "cisco_fan_table_plugin", "cisco_psu_table_plugin",
               "brocade_agent_temperature_plugin", "brocade_cpu_usage_plugin",
               "cisco_cpu_usage_plugin", "cisco_mem_usage_plugin", "hp_mem_usage_plugin"}
    BY DEF TellsRows, FanPlugins, PsuPlugins, CiscoPlugins, LoadPlugins
  <2> QED BY <2>1 DEF StackPlugins
<1>1. CASE q \notin DOMAIN task
  BY <1>1, OthersStay
<1>2. CASE q \in DOMAIN task
  <2> SUFFICES task'[q] = task[q]
    BY <1>2
  <2>1. ASSUME NEW t, Becomes(p, t) PROVE task'[q] = task[q]
    BY <1>2, <2>1 DEF Becomes
  <2>2. ASSUME NEW t, NEW ps, Starts(p, t, ps), q \notin ps PROVE task'[q] = task[q]
    BY <1>2, <2>2 DEF Starts
  <2>3. CASE StackConfigured(p)
    BY <1>0, <2>1, <2>2, <2>3 DEF StackConfigured
  <2>4. ~ (p = "detect" /\ DetectFamily(p))
    <3> SUFFICES ASSUME p = "detect", DetectFamily(p) PROVE FALSE
      OBVIOUS
    <3>1. DetectGood(task[p]) /\ task[p].at = "get" /\ task[p].mem = << >>
      BY DEF DetectFamily, Gives, Awaits, DInv
    <3>2. DOMAIN task = {"detect"}
      BY <3>1 DEF DetectGood
    <3> QED BY <1>0, <1>2, <3>2
  <2>5. CASE DetectChassis(p)
    <3>1. PICK ps : ps = IF Got(p) = "snBigIronRXFamily" THEN {} ELSE {"brocade_temperature_plugin"}
      OBVIOUS
    <3>2. Starts(p, Done, ps)
      BY <2>5, <3>1 DEF DetectChassis
    <3>3. q \notin ps
      BY <1>0, <3>1
    <3> QED BY <2>2, <3>2, <3>3
  <2>6. CASE \E i \in Left(p) : PortSeen(p, i)
    BY <1>0, <2>1, <2>2, <2>6 DEF PortSeen
  <2> QED BY <2>1, <2>3, <2>4, <2>5, <2>6, MovesOne
<1> QED BY <1>1, <1>2

\* A plugin of rows that starts has told none and passed none.
LEMMA TellerBegins ==
    ASSUME device \in Cases, device' = device, NEW q \in TellsRows, ToldRows(q)' = {},
           Ascending(q)', NEW u \in {Fresh(q), Idle}
    PROVE  RowGood(q, u)'
<1>1. RowsToTell(q)' \subseteq Oid \ {<< >>}
  <2>1. Column(Table[q])' = Column(Table[q])
    BY SameDevice
  <2>2. DOMAIN Column(Table[q]) \subseteq Oid \ {<< >>}
    BY ColumnsAre
  <2> QED BY <2>1, <2>2 DEF RowsToTell
<1>2. CASE u = Fresh(q)
  <2>1. u = Walks(Idle, Table[q])
    BY <1>2, TellersAre DEF Fresh
  <2>2. u.at = "walk" /\ u.table = Table[q] /\ u.row = << >>
    BY <2>1 DEF Walks, Idle
  <2>3. \A i \in RowsToTell(q)' : << >> \prec i
    BY <1>1, EmptyIsLeast
  <2> QED BY <1>1, <2>2, <2>3 DEF RowGood
<1>3. CASE u = Idle
  <2>1. u.at = "started"
    BY <1>3, FreshAsks
  <2> QED BY <1>1, <2>1 DEF RowGood
<1> QED BY <1>2, <1>3

\* A step of another plugin: q is where it was, or starts.
LEMMA TellerWaits ==
    ASSUME IInv, TellersRun, NEW p, NEW q \in TellsRows, q # p, NEW i, NEW n, Adds(p, i, n),
           device' = device, q \in DOMAIN task',
           q \in DOMAIN task => RowGood(q, task[q]),
           \/ q \notin DOMAIN task /\ task'[q] \in {Fresh(q), Idle}
           \/ q \in DOMAIN task /\ task'[q] = task[q]
    PROVE  RowGood(q, task[q])'
<1>1. ToldRows(q)' = ToldRows(q) /\ (Ascending(q) => Ascending(q)')
  BY NoRowAdded
<1>2. CASE q \in DOMAIN task /\ task'[q] = task[q]
  <2>1. PICK u : u = task[q]
    OBVIOUS
  <2>2. RowsToTell(q)' = RowsToTell(q)
    <3>1. Column(Table[q])' = Column(Table[q])
      BY SameDevice
    <3> QED BY <3>1 DEF RowsToTell
  <2>3. RowGood(q, u)'
    BY <1>1, <1>2, <2>1, <2>2 DEF RowGood
  <2> QED BY <1>2, <2>1, <2>3 DEF RowGood
<1>3. CASE q \notin DOMAIN task /\ task'[q] \in {Fresh(q), Idle}
  <2>1. RowAlerts(q) = {}
    <3>1. DOMAIN about = 1 .. Len(about)
      BY DEF IInv, IsSeq
    <3> QED BY <1>3, <3>1 DEF RowAlerts, TellersRun
  <2>2. ToldRows(q)' = {} /\ Ascending(q)'
    BY <1>1, <2>1 DEF ToldRows, Ascending
  <2>3. PICK u \in {Fresh(q), Idle} : u = task'[q]
    BY <1>3
  <2>4. RowGood(q, u)'
    BY <2>2, TellerBegins DEF IInv
  <2> QED BY <2>3, <2>4 DEF RowGood
<1> QED BY <1>2, <1>3

\* The states of units: a row that is passed is told, if its state has an alert.
LEMMA UnitMoves ==
    ASSUME IInv, NEW p \in DOMAIN task, p = UnitStatePlugin, UnitGood(task[p]), device' = device,
           RowStep(p) \/ EndStep(p) \/ GetStep(p) \/ Fails(p)
    PROVE  p \in DOMAIN task' /\ UnitGood(task[p])'
<1>0. /\ p = "brocade_stacking_unit_state"
      /\ p \notin FanPlugins \cup PsuPlugins \cup LoadPlugins \cup CiscoPlugins
      /\ p \notin DOMAIN Shutdown
  BY OrdinaryPlugins
     DEF UnitStatePlugin, FanPlugins, PsuPlugins, LoadPlugins, CiscoPlugins
<1>1. /\ Shape(task[p]) /\ device \in Cases
      /\ task[p].row \in DOMAIN Column(task[p].table) \cup {<< >>}
  BY DEF IInv, GoodTask, Shape
<1>2. ToldRows(p) \subseteq ToldRows(p)'
  <2>1. PICK i : \E n \in Nat : Adds(p, i, n)
    BY StepTells, ToldAdds
  <2> QED BY <2>1, ToldStay
<1>3. UnitRows' = UnitRows
  <2>1. Column(Table[UnitStatePlugin])' = Column(Table[UnitStatePlugin])
    BY SameDevice
  <2> QED BY <2>1 DEF UnitRows
<1>10. UnitRows \subseteq Rows(Table[UnitStatePlugin])
  <2>1. Table[UnitStatePlugin] # "snVLanByPortMemberTagMode"
    BY DEF Table, UnitStatePlugin
  <2> QED BY <2>1 DEF UnitRows, Rows
<1>4. Done.at = "done" /\ [Idle EXCEPT !.at = "failed"].at = "failed"
  BY DEF Done, Idle
<1>5. ASSUME NEW u, Becomes(p, u), u.at = "failed" PROVE p \in DOMAIN task' /\ UnitGood(task[p])'
  <2>1. p \in DOMAIN task' /\ task'[p].at = "failed"
    BY <1>5 DEF Becomes
  <2> QED BY <2>1 DEF UnitGood
<1>6. CASE Fails(p)
  BY <1>4, <1>5, <1>6 DEF Fails
<1>7. CASE RowStep(p)
  <2>1. PICK i \in Left(p) : RowIs(p, i) /\ UnitStateRow(p, i)
    <3>1. PICK i \in Left(p) :
            /\ RowIs(p, i)
            /\ \/ FanRow(p, i)     \/ PsuRow(p, i)      \/ LoadRow(p, i)   \/ CiscoRow(p, i)
               \/ MemRow(p, i)     \/ SensorRow(p, i)   \/ UnitActual(p, i)
               \/ UnitCounted(p, i) \/ UnitStateRow(p, i) \/ UnitVersionRow(p, i)
               \/ PortSeen(p, i)
      BY <1>7 DEF RowStep
    <3>2. ~ (FanRow(p, i) \/ PsuRow(p, i) \/ LoadRow(p, i) \/ CiscoRow(p, i))
      BY <1>0 DEF FanRow, PsuRow, LoadRow, CiscoRow
    <3>3. ~ (MemRow(p, i) \/ SensorRow(p, i) \/ UnitActual(p, i) \/ UnitCounted(p, i))
      BY <1>0 DEF MemRow, SensorRow, UnitActual, UnitCounted
    <3>4. ~ (UnitVersionRow(p, i) \/ PortSeen(p, i))
      BY <1>0 DEF UnitVersionRow, PortSeen
    <3> QED BY <3>1, <3>2, <3>3, <3>4
  <2> DEFINE v == Val(p, i)
             new == IF v \in DOMAIN UnitStates THEN << UnitStates[v], i >> ELSE task[p].mem
  <2>2. IF new = << >>
        THEN Alerts(p, << >>, << "CRITICAL" >>) /\ Becomes(p, [Idle EXCEPT !.at = "failed"])
        ELSE Alerts(p, new[2], << new[1] >>) /\ Becomes(p, Remembers(At(p, i), new))
    BY <2>1 DEF UnitStateRow
  <2>3. CASE new = << >>
    <3>1. Becomes(p, [Idle EXCEPT !.at = "failed"])
      BY <2>2, <2>3
    <3> HIDE DEF new
    <3> QED BY <1>4, <1>5, <3>1
  <2>4. CASE new # << >>
    <3>1. PICK m : m = new
      OBVIOUS
    <3>2. PICK u : u = Remembers(At(p, i), m)
      OBVIOUS
    <3>3. p \in DOMAIN task' /\ task'[p] = u
      BY <2>2, <2>4, <3>1, <3>2 DEF Becomes
    <3>4. u.at = "walk" /\ u.table = task[p].table /\ u.row = i
      <4>1. Shape(At(p, i)) /\ At(p, i).at = task[p].at
        BY <1>1, RowShape
      <4>2. At(p, i).table = task[p].table /\ At(p, i).row = i
        BY <1>1 DEF At, Shape
      <4> QED BY <2>1, <3>2, <4>1, <4>2, Fields, PlacesKept DEF RowIs
    <3>5. /\ task[p].at = "walk" /\ task[p].table = Table[UnitStatePlugin]
          /\ \A j \in UnitRows : task[p].row \prec j \/ j \in ToldRows(p)
      BY <2>1 DEF RowIs, UnitGood
    <3>6. i \in UnitRows => i \in ToldRows(p)'
      <4> SUFFICES ASSUME i \in UnitRows PROVE i \in ToldRows(p)'
        OBVIOUS
      <4>1. v \in 1 .. 4
        BY <1>0, <3>5 DEF UnitRows, Val
      <4> HIDE DEF v
      <4>2. v \in DOMAIN UnitStates
        BY <4>1 DEF UnitStates
      <4>3. UnitStates[v] \in States4
        BY <4>2, StateTables
      <4>4. Alerts(p, i, << UnitStates[v] >>)
        BY <2>2, <2>4, <4>2
      <4>5. Adds(p, i, 1)
        BY <4>3, <4>4, TellsAre
      <4>6. i # << >>
        <5>1. i \in DOMAIN Column(Table[UnitStatePlugin])
          BY DEF UnitRows
        <5> QED BY <1>1, <5>1, ColumnsAre
      <4> QED BY <4>5, <4>6, RowAdded
    <3>7. \A j \in UnitRows : i \prec j \/ j \in ToldRows(p)'
      <4> SUFFICES ASSUME NEW j \in UnitRows, ~ (i \prec j) PROVE j \in ToldRows(p)'
        OBVIOUS
      <4>1. j \in Rows(task[p].table)
        BY <1>10, <3>5
      <4>2. task[p].row \in Oid
        <5>1. DOMAIN Column(task[p].table) \subseteq Oid \ {<< >>}
          BY <1>1, ColumnsAre
        <5>2. << >> \in Oid
          BY DEF Oid
        <5> QED BY <1>1, <5>1, <5>2
      <4>3. j = i \/ ~ (task[p].row \prec j)
        BY <1>1, <2>1, <4>1, <4>2, PassedIs
      <4> QED BY <1>2, <3>5, <3>6, <4>3
    <3>8. UnitGood(u)'
      BY <1>3, <3>4, <3>5, <3>7 DEF UnitGood
    <3> QED BY <3>3, <3>8 DEF UnitGood
  <2> QED BY <2>3, <2>4
<1>8. CASE EndStep(p)
  <2>1. RowsEnd(p) /\ Becomes(p, Done)
    <3>1. ~ (StackCounted(p) \/ TopologyCounted(p) \/ UnitVersionsEnd(p) \/ PortsSeen(p))
      BY <1>0 DEF StackCounted, TopologyCounted, UnitVersionsEnd, PortsSeen
    <3> QED BY <1>8, <3>1 DEF EndStep, TableEnds
  <2>2. p \in DOMAIN task' /\ task'[p].at = "done"
    BY <1>4, <2>1 DEF Becomes
  <2>3. UnitRows \subseteq ToldRows(p)
    <3> SUFFICES ASSUME NEW j \in UnitRows PROVE j \in ToldRows(p)
      OBVIOUS
    <3>1. /\ task[p].at = "walk" /\ task[p].table = Table[UnitStatePlugin]
          /\ task[p].row \prec j \/ j \in ToldRows(p)
      BY <2>1 DEF RowsEnd, UnitGood
    <3>2. j \in Rows(task[p].table)
      BY <1>10, <3>1
    <3> QED BY <2>1, <3>1, <3>2 DEF RowsEnd, Left
  <2> QED BY <1>2, <1>3, <2>2, <2>3 DEF UnitGood
<1>9. CASE GetStep(p)
  <2>1. task[p].at = "get"
    <3>1. CASE \/ PsuDescribed(p) \/ CiscoNamed(p) \/ CiscoMemUsed(p) \/ MemGiven(p)
               \/ ChassisActual(p) \/ WarningTemperature(p) \/ ShutdownTemperature(p)
      BY <3>1 DEF PsuDescribed, CiscoNamed, CiscoMemUsed, MemGiven, ChassisActual,
                  WarningTemperature, ShutdownTemperature, Gives, Awaits
    <3>2. CASE \/ DynMemTotal(p) \/ DynMemFree(p) \/ UptimeAsks(p) \/ UptimeGiven(p)
               \/ VersionAsks(p) \/ VersionGiven(p) \/ StackConfigured(p) \/ TopologyGiven(p)
               \/ DhcpAcl(p) \/ DhcpSnooping(p) \/ DetectFamily(p) \/ DetectChassis(p)
      BY <3>2 DEF DynMemTotal, DynMemFree, UptimeAsks, UptimeGiven, VersionAsks, VersionGiven,
                  StackConfigured, TopologyGiven, DhcpAcl, DhcpSnooping, DetectFamily,
                  DetectChassis, Gives, Awaits
    <3> QED BY <1>9, <3>1, <3>2 DEF GetStep
  <2> QED BY <2>1 DEF UnitGood
<1> QED BY <1>6, <1>7, <1>8, <1>9

LEMMA UnitBegins ==
    ASSUME device \in Cases, NEW u \in {Fresh(UnitStatePlugin), Idle}
    PROVE  UnitGood(u)
<1>1. \A i \in UnitRows : << >> \prec i
  <2>1. UnitRows \subseteq Oid \ {<< >>}
    BY ColumnsAre DEF UnitRows
  <2> QED BY <2>1, EmptyIsLeast
<1>2. CASE u = Fresh(UnitStatePlugin)
  <2>1. u = Walks(Idle, Table[UnitStatePlugin])
    BY <1>2 DEF Fresh, Table, UnitStatePlugin
  <2>2. u.at = "walk" /\ u.table = Table[UnitStatePlugin] /\ u.row = << >>
    BY <2>1 DEF Walks, Idle
  <2> QED BY <1>1, <2>2 DEF UnitGood
<1>3. CASE u = Idle
  BY <1>3, FreshAsks DEF UnitGood
<1> QED BY <1>2, <1>3

LEMMA UnitStarts ==
    ASSUME device \in Cases, device' = device,
           task'[UnitStatePlugin] \in {Fresh(UnitStatePlugin), Idle}
    PROVE  UnitGood(task[UnitStatePlugin])'
<1>1. PICK u \in {Fresh(UnitStatePlugin), Idle} : u = task'[UnitStatePlugin]
  OBVIOUS
<1>2. UnitRows' = UnitRows
  <2>1. Column(Table[UnitStatePlugin])' = Column(Table[UnitStatePlugin])
    BY SameDevice
  <2> QED BY <2>1 DEF UnitRows
<1>3. \A i \in UnitRows : << >> \prec i
  <2>1. UnitRows \subseteq Oid \ {<< >>}
    BY ColumnsAre DEF UnitRows
  <2> QED BY <2>1, EmptyIsLeast
<1>4. CASE u = Fresh(UnitStatePlugin)
  <2>1. u = Walks(Idle, Table[UnitStatePlugin])
    BY <1>4 DEF Fresh, Table, UnitStatePlugin
  <2>2. u.at = "walk" /\ u.table = Table[UnitStatePlugin] /\ u.row = << >>
    BY <2>1 DEF Walks, Idle
  <2> QED BY <1>1, <1>2, <1>3, <2>2 DEF UnitGood
<1>5. CASE u = Idle
  BY <1>1, <1>5, FreshAsks DEF UnitGood
<1> QED BY <1>4, <1>5

LEMMA UnitStays ==
    ASSUME device' = device, task'[UnitStatePlugin] = task[UnitStatePlugin],
           ToldRows(UnitStatePlugin) \subseteq ToldRows(UnitStatePlugin)',
           UnitGood(task[UnitStatePlugin])
    PROVE  UnitGood(task[UnitStatePlugin])'
<1>1. UnitRows' = UnitRows
  <2>1. Column(Table[UnitStatePlugin])' = Column(Table[UnitStatePlugin])
    BY SameDevice
  <2> QED BY <2>1 DEF UnitRows
<1> QED BY <1>1 DEF UnitGood

LEMMA AppendAdds ==
    ASSUME IsSeq(about), NEW p, NEW i, about' = Append(about, <<p, i>>)
    PROVE  Adds(p, i, 1)
<1>1. /\ IsSeq(about') /\ Len(about') = Len(about) + 1
      /\ \A k \in 1 .. Len(about) : about'[k] = about[k]
      /\ about'[Len(about) + 1] = <<p, i>>
  BY AppendIs
<1>2. /\ Len(about) \in Nat /\ DOMAIN about = 1 .. Len(about)
      /\ DOMAIN about' = 1 .. Len(about')
  BY <1>1 DEF IsSeq
<1>3. \A k \in 1 .. Len(about') : k \in 1 .. Len(about) \/ k = Len(about) + 1
  BY <1>1, <1>2
<1> QED BY <1>1, <1>2, <1>3 DEF Adds

\* No plugin of rows moves.
LEMMA OthersPlaces ==
    ASSUME IInv, RInv, task' = task, device' = device, AnyPlugin \in DOMAIN task,
           Adds(AnyPlugin, << >>, 1)
    PROVE  RInv'
<1>1. TellersRun'
  BY TellersStay DEF RInv
<1>2. ASSUME NEW q \in TellsRows, q \in DOMAIN task' PROVE RowGood(q, task[q])'
  <2>1. q # AnyPlugin /\ q \in DOMAIN task /\ task'[q] = task[q]
    BY <1>2, TellersAre
  <2>2. TellersRun /\ RowGood(q, task[q])
    BY <2>1 DEF RInv
  <2> QED BY <1>2, <2>1, <2>2, TellerWaits
<1>3. ASSUME UnitStatePlugin \in DOMAIN task' PROVE UnitGood(task[UnitStatePlugin])'
  <2>1. UnitGood(task[UnitStatePlugin])
    BY <1>3 DEF RInv
  <2>2. ToldRows(UnitStatePlugin) \subseteq ToldRows(UnitStatePlugin)'
    BY ToldStay
  <2> QED BY <2>1, <2>2, UnitStays
<1> QED BY <1>1, <1>2, <1>3 DEF RInv

LEMMA SamePlaces ==
    ASSUME RInv, task' = task, device' = device, about' = about
    PROVE  RInv'
<1>1. \A o : Column(o)' = Column(o)
  BY SameDevice
<1>2. \A p : RowsToTell(p)' = RowsToTell(p)
  BY <1>1 DEF RowsToTell
<1>3. \A p : ToldRows(p)' = ToldRows(p) /\ RowAlerts(p)' = RowAlerts(p)
  BY DEF ToldRows, RowAlerts
<1>4. UnitRows' = UnitRows
  BY <1>1 DEF UnitRows
<1>5. TellersRun'
  BY DEF RInv, TellersRun
<1>6. \A p : Ascending(p)' <=> Ascending(p)
  BY <1>3 DEF Ascending
<1>7. ASSUME NEW p \in TellsRows, p \in DOMAIN task' PROVE RowGood(p, task[p])'
  BY <1>2, <1>3, <1>6, <1>7 DEF RInv, RowGood
<1>8. ASSUME UnitStatePlugin \in DOMAIN task' PROVE UnitGood(task[UnitStatePlugin])'
  BY <1>3, <1>4, <1>8 DEF RInv, UnitGood
<1> QED BY <1>5, <1>7, <1>8 DEF RInv

LEMMA InitRows == PluginInit /\ IInv => RInv
<1> SUFFICES ASSUME PluginInit, IInv PROVE RInv
  OBVIOUS
<1>1. DOMAIN task = {device.plugin} /\ task[device.plugin] = Fresh(device.plugin)
  BY DEF PluginInit
<1>2. about = << >> /\ Len(about) = 0 /\ DOMAIN about = {}
  BY DEF PluginInit
<1>3. TellersRun
  BY <1>2 DEF TellersRun
<1>4. ASSUME NEW p \in TellsRows \cap DOMAIN task PROVE RowGood(p, task[p])
  <2>1. ToldRows(p) = {} /\ Ascending(p)
    BY <1>2 DEF ToldRows, RowAlerts, Ascending
  <2>2. RowsToTell(p) \subseteq Oid \ {<< >>}
    BY ColumnsAre DEF RowsToTell, IInv
  <2>3. task[p] = Walks(Idle, Table[p])
    BY <1>1, TellersAre DEF Fresh
  <2>4. task[p].at = "walk" /\ task[p].table = Table[p] /\ task[p].row = << >>
    BY <2>3 DEF Walks, Idle
  <2>5. \A i \in RowsToTell(p) : << >> \prec i
    BY <2>2, EmptyIsLeast
  <2> QED BY <2>1, <2>4, <2>5 DEF RowGood
<1>5. ASSUME UnitStatePlugin \in DOMAIN task PROVE UnitGood(task[UnitStatePlugin])
  BY <1>1, <1>5, UnitBegins DEF IInv
<1> QED BY <1>3, <1>4, <1>5 DEF RInv

LEMMA StepRows ==
    ASSUME IInv, DInv, RInv, [PluginNext]_pluginVars
    PROVE  RInv'
<1>1. CASE UNCHANGED pluginVars
  BY <1>1, SamePlaces DEF pluginVars
<1>2. CASE AnyReports /\ device' = device
  <2>1. task' = task /\ about' = Append(about, << AnyPlugin, << >> >>) /\ AnyPlugin \in DOMAIN task
    BY <1>2 DEF AnyReports
  <2>2. Adds(AnyPlugin, << >>, 1)
    <3>1. IsSeq(about) /\ Len(about) \in Nat
      BY DEF IInv, IsSeq
    <3> QED BY <2>1, <3>1, AppendAdds
  <2> QED BY <1>2, <2>1, <2>2, OthersPlaces
<1>3. ASSUME NEW p \in DOMAIN task, RowStep(p) \/ EndStep(p) \/ GetStep(p) \/ Fails(p),
             device' = device
      PROVE  RInv'
  <2>1. PICK i : \E n \in Nat : Adds(p, i, n)
    BY <1>3, StepTells, ToldAdds
  <2>2. DOMAIN task \subseteq DOMAIN task'
    BY <1>3, TasksStay
  <2>3. TellersRun'
    BY <2>1, <2>2, TellersStay DEF RInv
  <2>4. ASSUME NEW q \in TellsRows, q \in DOMAIN task' PROVE RowGood(q, task[q])'
    <3>1. CASE q = p
      <4>1. PICK u : Becomes(p, u) /\ TellerStep(p, u)
        BY <1>3, <2>4, <3>1, TellerRows, TellerAnswers DEF RInv
      <4>2. RowGood(p, u)'
        BY <1>3, <2>4, <3>1, <4>1, TellerKeeps DEF RInv
      <4>3. task'[p] = u
        BY <4>1 DEF Becomes
      <4> QED BY <3>1, <4>2, <4>3 DEF RowGood
    <3>2. CASE q # p
      <4>1. \/ q \notin DOMAIN task /\ task'[q] \in {Fresh(q), Idle}
            \/ q \in DOMAIN task /\ task'[q] = task[q]
        BY <1>3, <2>4, <3>2, TellersStart
      <4>2. q \in DOMAIN task => RowGood(q, task[q])
        BY <2>4 DEF RInv
      <4>3. TellersRun
        BY DEF RInv
      <4> QED BY <1>3, <2>1, <2>4, <3>2, <4>1, <4>2, <4>3, TellerWaits
    <3> QED BY <3>1, <3>2
  <2>5. ASSUME UnitStatePlugin \in DOMAIN task' PROVE UnitGood(task[UnitStatePlugin])'
    <3>1. CASE p = UnitStatePlugin
      <4>1. UnitGood(task[p])
        BY <3>1 DEF RInv
      <4>2. UnitGood(task[p])'
        BY <1>3, <3>1, <4>1, UnitMoves
      <4> QED BY <3>1, <4>2
    <3>2. CASE p # UnitStatePlugin
      <4>1. ToldRows(UnitStatePlugin) \subseteq ToldRows(UnitStatePlugin)'
        BY <2>1, ToldStay
      <4>2. CASE task'[UnitStatePlugin] \in {Fresh(UnitStatePlugin), Idle}
        BY <1>3, <4>2, UnitStarts DEF IInv
      <4>3. CASE UnitStatePlugin \in DOMAIN task /\ task'[UnitStatePlugin] = task[UnitStatePlugin]
        BY <1>3, <4>1, <4>3, UnitStays DEF RInv
      <4> QED BY <1>3, <2>5, <3>2, <4>2, <4>3, OthersStay
    <3> QED BY <3>1, <3>2
  <2> QED BY <2>3, <2>4, <2>5 DEF RInv
<1> QED BY <1>1, <1>2, <1>3 DEF PluginNext

(* Every plugin that reports the rows of a table reports each once, in the   *)
(* table's order, and all of them before it ends, whatever it asks about a   *)
(* row in between and whatever others do; and every unit of a stack that has *)
(* a state of its own is reported (the table plugins' `async for`).          *)
THEOREM RowsAreTold == PluginSpec => []RowsAreToldOnce
<1>1. RInv => RowsAreToldOnce
  <2> SUFFICES ASSUME RInv PROVE RowsAreToldOnce
    OBVIOUS
  <2>1. UnitsAreTold
    BY DEF RInv, UnitGood, UnitRows, UnitStatePlugin, UnitsAreTold
  <2> QED BY <2>1 DEF RInv, RowGood, Ascending, RowsAreToldOnce
<1>2. PluginInit => IInv /\ DInv /\ RInv
  BY InitGood, InitDetects, InitRows
<1>3. IInv /\ DInv /\ RInv /\ [PluginNext]_pluginVars => (IInv /\ DInv /\ RInv)'
  BY StepGood, StepDetects, StepRows
<1> QED BY <1>1, <1>2, <1>3, PTL DEF PluginSpec

-----------------------------------------------------------------------------
(* A step adds alerts of one plugin about one row, in states of its own.     *)

\* The lists have no entries but those they had and some of p about i, in the
\* states of S; and each state of S has one.
NewAlerts(p, i, S) ==
    /\ \A st \in States4 : \A j \in 1 .. Len(alerts'[st]) :
          \/ \E l \in 1 .. Len(alerts[st]) : about'[alerts'[st][j]] = about[alerts[st][l]]
          \/ st \in S /\ about'[alerts'[st][j]] = <<p, i>>
    /\ NoneLost(alerts, alerts') /\ \A st \in S : alerts'[st] # << >>

LEMMA EntriesAre ==
    ASSUME IInv, NEW st \in States4, NEW j \in 1 .. Len(alerts[st])
    PROVE  alerts[st][j] \in 1 .. Len(about)
<1>1. alerts \in [States4 -> Seq(1 .. made)] /\ Len(about) = made
  BY DEF IInv, Kept, Numbered
<1> DEFINE N == 1 .. made
           l == alerts[st]
<1>2. l \in Seq(N)
  BY <1>1
<1>3. j \in 1 .. Len(l)
  OBVIOUS
<1> HIDE DEF N, l
<1>4. l[j] \in N
  BY <1>2, <1>3
<1> QED BY <1>1, <1>4 DEF N, l

LEMMA NewAre ==
    ASSUME IInv, NEW p, NEW i, NEW sts \in Seq(States4), alerts' = Appended(sts),
           Adds(p, i, Len(sts))
    PROVE  NewAlerts(p, i, {sts[k] : k \in 1 .. Len(sts)})
<1> DEFINE S == {sts[k] : k \in 1 .. Len(sts)}
<1>1. /\ NoneLost(alerts, alerts') /\ OnlyTold(alerts', sts, Len(sts))
      /\ \A k \in 1 .. Len(sts) : alerts'[sts[k]] # << >>
  BY AppendedIs DEF IInv, Kept
<1>2. /\ Len(about) \in Nat /\ Len(about) = made /\ Len(about') = made + Len(sts)
      /\ Len(sts) \in Nat
      /\ \A k \in 1 .. Len(about) : about'[k] = about[k]
      /\ \A k \in 1 .. Len(about') : k \in 1 .. Len(about) \/ about'[k] = <<p, i>>
  BY DEF Adds, IInv
<1>3. ASSUME NEW k \in 1 .. Len(sts) PROVE about'[made + k] = <<p, i>>
  <2>1. made + k \in 1 .. Len(about') /\ made + k \notin 1 .. Len(about)
    BY <1>2
  <2> QED BY <1>2, <2>1
<1>4. ASSUME NEW st \in States4, NEW j \in 1 .. Len(alerts'[st])
      PROVE  \/ \E l \in 1 .. Len(alerts[st]) : about'[alerts'[st][j]] = about[alerts[st][l]]
             \/ st \in S /\ about'[alerts'[st][j]] = <<p, i>>
  <2>1. CASE \E l \in 1 .. Len(alerts[st]) : alerts'[st][j] = alerts[st][l]
    <3>1. PICK l \in 1 .. Len(alerts[st]) : alerts'[st][j] = alerts[st][l]
      BY <2>1
    <3>2. about'[alerts[st][l]] = about[alerts[st][l]]
      BY <1>2, EntriesAre
    <3> QED BY <3>1, <3>2
  <2>2. CASE \E k \in 1 .. Len(sts) : sts[k] = st /\ alerts'[st][j] = made + k
    <3>1. PICK k \in 1 .. Len(sts) : sts[k] = st /\ alerts'[st][j] = made + k
      BY <2>2
    <3> QED BY <1>3, <3>1
  <2> QED BY <1>1, <2>1, <2>2 DEF OnlyTold
<1>5. \A st \in S : alerts'[st] # << >>
  BY <1>1
<1> HIDE DEF S
<1> QED BY <1>1, <1>4, <1>5 DEF NewAlerts, S

LEMMA NewIs ==
    ASSUME IInv, NEW p, NEW i, NEW st \in States4, alerts' = Appended(<< st >>), Adds(p, i, 1)
    PROVE  NewAlerts(p, i, {st})
<1> DEFINE sts == << st >>
<1>1. sts \in Seq(States4) /\ Len(sts) = 1 /\ {sts[k] : k \in 1 .. Len(sts)} = {st}
  OBVIOUS
<1>2. alerts' = Appended(sts)
  OBVIOUS
<1> HIDE DEF sts
<1>3. NewAlerts(p, i, {sts[k] : k \in 1 .. Len(sts)})
  BY <1>1, <1>2, NewAre
<1> QED BY <1>1, <1>3

\* What a step of p tells the collector is new in it.
LEMMA TellsThese ==
    ASSUME IInv, NEW p \in DOMAIN task
    PROVE  /\ Quiet => NewAlerts(p, << >>, {})
           /\ \A i : \A sts \in Seq(States4) :
                 Alerts(p, i, sts) => NewAlerts(p, i, {sts[k] : k \in 1 .. Len(sts)})
           /\ \A i : \A st \in States4 : Alerts(p, i, << st >>) => NewAlerts(p, i, {st})
           /\ \A i, m : Metric(p, i, m) => NewAlerts(p, i, {StateOf(m)})
<1>1. ASSUME Quiet PROVE NewAlerts(p, << >>, {})
  <2>1. alerts' = alerts /\ about' = about
    BY <1>1 DEF Quiet, vars
  <2> QED BY <2>1 DEF NewAlerts, NoneLost
<1>2. ASSUME NEW i, NEW sts \in Seq(States4), Alerts(p, i, sts)
      PROVE  NewAlerts(p, i, {sts[k] : k \in 1 .. Len(sts)})
  <2>1. alerts' = Appended(sts) /\ Adds(p, i, Len(sts))
    BY <1>2, TellsAre DEF Alerts, AddAlerts
  <2> QED BY <2>1, NewAre
<1>3. ASSUME NEW i, NEW st \in States4, Alerts(p, i, << st >>) PROVE NewAlerts(p, i, {st})
  <2>1. alerts' = Appended(<< st >>) /\ Adds(p, i, 1)
    BY <1>3, TellsAre DEF Alerts, AddAlerts
  <2> QED BY <2>1, NewIs
<1>4. ASSUME NEW i, NEW m, Metric(p, i, m) PROVE NewAlerts(p, i, {StateOf(m)})
  <2>1. alerts' = Appended(<< StateOf(m) >>) /\ Adds(p, i, 1)
    BY <1>4, TellsAre DEF Metric, AddMetric
  <2>2. StateOf(m) \in States4
    BY JudgesAre DEF StateOf
  <2> QED BY <2>1, <2>2, NewIs
<1> QED BY <1>1, <1>2, <1>3, <1>4

-----------------------------------------------------------------------------
(* What plugins say of the device is so: the verdict on each row and object  *)
(* follows from the device alone, whatever is asked in between.              *)

ChassisPlugin  == "brocade_temperature_plugin"
TopologyPlugin == "brocade_stacking_topology_plugin"
UptimePlugin   == "brocade_uptime_plugin"
VersionPlugin  == "brocade_version_plugin"
VersionsPlugin == "brocade_stacking_version_plugin"
UnitHeatPlugin == "brocade_unit_temperature_plugin"
DhcpPlugin     == "brocade_dhcp_snooping_plugin"

RowTellers   == FanPlugins \cup PsuPlugins \cup CiscoPlugins \cup {UnitStatePlugin}
WholeTellers == {StackPlugin, TopologyPlugin, UptimePlugin, ChassisPlugin}

\* Nothing is claimed of what these say: values kept of several sensors, or
\* anything.
Opaque == {"hp_sensors_plugin", AnyPlugin}

\* The versions of a stack, by unit.
Images == "snStackingOperUnitImgVer"
Builds == "snStackingOperUnitBuildlVer"
Mixed(o) == Cardinality(Vals(o)) > 1

\* Versions that differ: of the builds, if there are images as well.
Differ == Mixed(Images) \/ (Mixed(Builds) /\ Vals(Images) # {})

\* A supply that failed is none if its description says so.
RowVerdict(p, i) ==
    LET v == Column(Table[p])[i]
    IN  IF p \in FanPlugins THEN FanState(v)
        ELSE IF p \in PsuPlugins
        THEN IF /\ v = 3 /\ PsuIndex(p, i) \in DOMAIN Column(Detail[p])
                /\ Column(Detail[p])[PsuIndex(p, i)] = "not present"
             THEN "OK" ELSE PsuState(v)
        ELSE IF p \in CiscoPlugins THEN cisco_state(v)
        ELSE UnitStates[v]

HeatVerdict(act, warn, shut) ==
    Judge(act, UpTo(warn), IF act < warn THEN NoRange ELSE UpTo(shut))

\* Of a unit, whose limits are found by the last number of its row.
UnitHeat(i)  == Column("snChasUnitActualTemp")[i]
UnitLimit(o, i) == Column(o)[<< Last(i) >>]
UnitHeatVerdict(i) == HeatVerdict(UnitHeat(i), UnitLimit("snChasUnitWarningTem", i),
                                  UnitLimit("snChasUnitShutdownTemperature", i))
UnitLimited(i) ==
    /\ i \in DOMAIN Column("snChasUnitActualTemp")
    /\ << Last(i) >> \in DOMAIN Column("snChasUnitWarningTem")
    /\ \/ UnitHeat(i) < UnitLimit("snChasUnitWarningTem", i)
       \/ << Last(i) >> \in DOMAIN Column("snChasUnitShutdownTemperature")

UptimeVerdict(descr, version, time) ==
    Judge(time, UptimeLimits(descr, version)[1], UptimeLimits(descr, version)[2])

WholeVerdict(p) ==
    IF p = StackPlugin THEN IF IsStack /\ Units <= 1 THEN "CRITICAL" ELSE "OK"
    ELSE IF p = TopologyPlugin THEN TopologyState(The("snStackingGlobalTopology"), Units)
    ELSE IF p = UptimePlugin
    THEN UptimeVerdict(The("sysDescr"), The("snAgImgVer"), The("snmpEngineTime"))
    ELSE HeatVerdict(The("snChasActualTemperature"), The("snChasWarningTemperature"),
                     The("snChasShutdownTemperature"))

WholeKnown(p) ==
    /\ p = StackPlugin /\ IsStack => Units \in Nat
    /\ p = TopologyPlugin => Units \in Nat /\ Scalar \in DOMAIN Column("snStackingGlobalTopology")
    /\ p = UptimePlugin => Scalar \in DOMAIN Column("snmpEngineTime")

\* What p may say of the row i, or of the device.
Sayable(p, i, st) ==
    \/ p \in Opaque
    \/ p \in RowTellers /\ i \in DOMAIN Column(Table[p]) /\ st = RowVerdict(p, i)
                        /\ (p = UnitStatePlugin => i \in UnitRows)
    \/ p \in WholeTellers /\ i = << >> /\ WholeKnown(p) /\ st = WholeVerdict(p)
    \/ p = DhcpPlugin /\ st = "CRITICAL" /\ DhcpFault(p)
    \/ p = VersionPlugin /\ st = "WARNING" /\ VersionFault(p)
    \/ p = VersionsPlugin /\ st = "WARNING" /\ Differ
    \/ p = UnitHeatPlugin /\ UnitLimited(i) /\ st = UnitHeatVerdict(i)
    \/ p \notin RowTellers \cup WholeTellers /\ st \in {"OK", "UNKNOWN"}

Failed(p, i, st, t) == i = << >> /\ st = "CRITICAL" /\ t.at = "failed"

Right(a, st) == Failed(a[1], a[2], st, task[a[1]]) \/ Sayable(a[1], a[2], st)

\* Every alert is in the list of the state that its plugin should have said.
AlertsAreRight ==
    \A st \in States4 : \A j \in 1 .. Len(alerts[st]) : Right(about[alerts[st][j]], st)

\* Where a plugin is, and what it remembers there.
SupplyKnows(p, t) ==
    t.at = "get" => /\ t.obj = Detail[p] /\ t.tail = PsuIndex(p, t.row)
                    /\ Column(Table[p])[t.row] = 3

NameKnows(p, t) == t.at = "get" => t.mem[1] = Column(Table[p])[t.row]

UnitKnows(t) ==
    t.mem # << >> =>
        t.mem[2] \in UnitRows /\ t.mem[1] = RowVerdict(UnitStatePlugin, t.mem[2])

HeatKnows(t) ==
    t.at = "get" =>
        /\ t.row = << >> /\ t.tail = Scalar
        /\ \/ t.obj = "snChasActualTemperature"
           \/ /\ t.obj = "snChasWarningTemperature"
              /\ t.mem[1] = The("snChasActualTemperature")
           \/ /\ t.obj = "snChasShutdownTemperature"
              /\ t.mem[1] = The("snChasActualTemperature")
              /\ t.mem[2] = The("snChasWarningTemperature")
              /\ ~ (The("snChasActualTemperature") < The("snChasWarningTemperature"))

UnitHeatKnows(t) ==
    /\ t.at \in {"walk", "get"} => t.table = "snChasUnitActualTemp"
    /\ t.at = "get" =>
          /\ t.row \in DOMAIN Column("snChasUnitActualTemp") /\ t.tail = << Last(t.row) >>
          /\ t.mem[1] = UnitHeat(t.row)
          /\ \/ t.obj = "snChasUnitWarningTem"
             \/ /\ t.obj = "snChasUnitShutdownTemperature"
                /\ t.tail \in DOMAIN Column("snChasUnitWarningTem")
                /\ t.mem[2] = UnitLimit("snChasUnitWarningTem", t.row)
                /\ ~ (t.mem[1] < t.mem[2])

UptimeKnows(t) ==
    t.at = "get" =>
        /\ t.tail = Scalar
        /\ \/ t.obj = "sysDescr" /\ t.mem = << >>
           \/ t.obj = "snAgImgVer" /\ t.mem = << The("sysDescr") >>
           \/ t.obj = "snmpEngineTime" /\ t.mem = << The("sysDescr"), The("snAgImgVer") >>

VersionKnows(t) ==
    t.at = "get" =>
        /\ t.tail = Scalar
        /\ \/ t.obj = "snAgImgVer" /\ t.mem \in {<< >>, << The("snAgImgVer") >>}
           \/ t.obj = "sysDescr" /\ t.mem = << The("snAgImgVer"), The("snAgImgVer") >>

\* The units that a walk has passed are counted.
Passed(row) == {i \in DOMAIN Column("snStackingConfigUnitPriority") : ~ (row \prec i)}

Counted(t) ==
    /\ t.table = "snStackingConfigUnitPriority" /\ IsSeq(t.mem)
    /\ IsFiniteSet(Passed(t.row)) /\ Cardinality(Passed(t.row)) = Len(t.mem)

StackKnows(t) ==
    /\ t.at = "get" => /\ t.obj = "snStackingGlobalConfigSt" /\ t.tail = Scalar
                       /\ t.mem = << >>
    /\ t.at = "walk" => Counted(t) /\ IsStack

TopologyKnows(t) ==
    /\ t.at = "get" => /\ t.obj = "snStackingGlobalTopology" /\ t.tail = Scalar
                       /\ Len(t.mem) = Units /\ Units \in Nat
    /\ t.at = "walk" => Counted(t)

\* The plugin of DHCP snooping has told of the object it has passed.
DhcpKnows(t) ==
    /\ t.at = "get" =>
          \/ t.obj = Object[DhcpPlugin] /\ t.tail = Scalar
          \/ /\ t.obj = "fdryDhcpSnoopVlanDhcpSnoopEnable" /\ t.tail = << ThirdOctet >>
             /\ Reads(Object[DhcpPlugin], {0}) => alerts["CRITICAL"] # << >>
    /\ t.at = "done" => (DhcpFault(DhcpPlugin) => alerts["CRITICAL"] # << >>)

\* What a walk has passed of a table is kept by unit.
Past(o, row) == {i \in DOMAIN Column(o) : ~ (row \prec i)}

Collected(t) ==
    LET rows == Past(t.table, t.row)
    IN  /\ IsFiniteSet(rows) /\ DOMAIN t.mem = {Head(i) : i \in rows}
        /\ rows = {} => t.mem = << >>
        /\ \A u \in DOMAIN t.mem : \E i \in rows : Head(i) = u /\ t.mem[u] = Column(t.table)[i]

\* A stack's units have one version each.
ByUnit(o) == \A i, j \in DOMAIN Column(o) : Head(i) = Head(j) => i = j
Stacked   == ByUnit(Images) /\ ByUnit(Builds)

VersionsKnow(t) ==
    /\ t.at = "walk" =>
          /\ t.table \in {Images, Builds} /\ Collected(t)
          /\ t.table = Builds => Vals(Images) # {}
          /\ t.table = Builds /\ Stacked /\ Mixed(Images) => alerts["WARNING"] # << >>
    /\ t.at = "done" =>
          (Stacked /\ Differ => alerts["WARNING"] # << >>)

Knows(p, t) ==
    /\ p \in PsuPlugins     => SupplyKnows(p, t)
    /\ p \in CiscoPlugins   => NameKnows(p, t)
    /\ p = UnitStatePlugin  => UnitKnows(t)
    /\ p = ChassisPlugin    => HeatKnows(t)
    /\ p = UptimePlugin     => UptimeKnows(t)
    /\ p = VersionPlugin    => VersionKnows(t)
    /\ p = StackPlugin      => StackKnows(t)
    /\ p = TopologyPlugin   => TopologyKnows(t)
    /\ p = DhcpPlugin       => DhcpKnows(t)
    /\ p = VersionsPlugin   => VersionsKnow(t)
    /\ p = UnitHeatPlugin   => UnitHeatKnows(t)
    /\ p = AnyPlugin        => t.at = AnyPlugin

\* A plugin of one verdict has told it before it ends.
Spoken(p) == \E k \in 1 .. Len(about) : about[k] = << p, << >> >>

\* A stack's plugins are not there before the plugin that starts them asks.
Unstacked == StackPlugin \in DOMAIN task /\ task[StackPlugin].at = "get"
                 => DOMAIN task \cap StackPlugins = {}

VInv == /\ AlertsAreRight /\ Unstacked
        /\ \A p \in DOMAIN task : Knows(p, task[p])
        /\ \A p \in WholeTellers \cap DOMAIN task : task[p].at = "done" => Spoken(p)
        /\ \A p \in DOMAIN task : task[p].at = "failed" => alerts["CRITICAL"] # << >>

-----------------------------------------------------------------------------
(* No plugin is started twice.                                               *)

LEMMA FamiliesAre ==
    /\ AnyPlugin \notin BrocadePlugins /\ "detect" \notin BrocadePlugins
    /\ BrocadePlugins \cap StackPlugins = {}
    /\ ChassisPlugin \notin BrocadePlugins /\ DhcpPlugin \notin BrocadePlugins
    /\ \A id \in DOMAIN FamilyPlugins :
          /\ AnyPlugin \notin FamilyPlugins[id] /\ "detect" \notin FamilyPlugins[id]
          /\ FamilyPlugins[id] \cap StackPlugins = {} /\ StackPlugin \notin FamilyPlugins[id]
    /\ StackPlugin \notin StackPlugins /\ AnyPlugin \notin StackPlugins
    /\ "detect" \notin StackPlugins
    /\ ChassisPlugin \notin StackPlugins /\ DhcpPlugin \notin StackPlugins
    /\ ChassisPlugin \notin {"detect", DhcpPlugin, StackPlugin, AnyPlugin}
    /\ DhcpPlugin \notin {"detect", StackPlugin, AnyPlugin}
    /\ StackPlugin # "detect"
<1>1. /\ AnyPlugin \notin BrocadePlugins /\ "detect" \notin BrocadePlugins
      /\ BrocadePlugins \cap StackPlugins = {}
      /\ ChassisPlugin \notin BrocadePlugins /\ DhcpPlugin \notin BrocadePlugins
  BY DEF BrocadePlugins, StackPlugins, AnyPlugin, ChassisPlugin, DhcpPlugin
<1>2. ASSUME NEW id \in DOMAIN FamilyPlugins
      PROVE  /\ AnyPlugin \notin FamilyPlugins[id] /\ "detect" \notin FamilyPlugins[id]
             /\ FamilyPlugins[id] \cap StackPlugins = {} /\ StackPlugin \notin FamilyPlugins[id]
  <2>1. CASE id = "cisco"
    BY <2>1 DEF FamilyPlugins, StackPlugins, AnyPlugin, StackPlugin
  <2>2. CASE id = "hp"
    BY <2>2 DEF FamilyPlugins, StackPlugins, AnyPlugin, StackPlugin
  <2> QED BY <2>1, <2>2 DEF FamilyPlugins
<1>3. /\ StackPlugin \notin StackPlugins /\ AnyPlugin \notin StackPlugins
      /\ "detect" \notin StackPlugins
      /\ ChassisPlugin \notin StackPlugins /\ DhcpPlugin \notin StackPlugins
  BY DEF StackPlugins, StackPlugin, AnyPlugin, ChassisPlugin, DhcpPlugin
<1>4. /\ ChassisPlugin \notin {"detect", DhcpPlugin, StackPlugin, AnyPlugin}
      /\ DhcpPlugin \notin {"detect", StackPlugin, AnyPlugin}
      /\ StackPlugin # "detect"
  BY DEF StackPlugin, AnyPlugin, ChassisPlugin, DhcpPlugin
<1> QED BY <1>1, <1>2, <1>3, <1>4

\* What p starts is new, and no plugin of a stack unless the stack's does.
StartsNew(p, ps) ==
    /\ AnyPlugin \notin ps /\ ps \cap DOMAIN task = {}
    /\ p = StackPlugin \/ ps \cap StackPlugins = {}
    /\ StackPlugin \in ps => DOMAIN task = {"detect"}

LEMMA StartsWhat ==
    ASSUME IInv, DInv, Unstacked, NEW p \in DOMAIN task,
           RowStep(p) \/ EndStep(p) \/ GetStep(p) \/ Fails(p)
    PROVE  \/ \E t : Becomes(p, t)
           \/ \E t, ps : Starts(p, t, ps) /\ StartsNew(p, ps)
<1> DEFINE Moves == \E t : Becomes(p, t)
<1>1. CASE p = StackPlugin /\ StackConfigured(p)
  <2>1. CASE There(p) /\ Got(p) = 1
    <3>1. \E t : Starts(p, t, StackPlugins)
      BY <1>1, <2>1 DEF StackConfigured
    <3>2. DOMAIN task \cap StackPlugins = {}
      BY <1>1 DEF StackConfigured, Awaits, Unstacked
    <3>3. StartsNew(p, StackPlugins)
      BY <1>1, <3>2, FamiliesAre DEF StartsNew
    <3> QED BY <3>1, <3>3
  <2>2. CASE ~ (There(p) /\ Got(p) = 1)
    BY <1>1, <2>2 DEF StackConfigured
  <2> QED BY <2>1, <2>2
<1>2. CASE p = "detect" /\ DetectFamily(p)
  <2>1. DOMAIN task = {"detect"}
    BY <1>2 DEF DetectFamily, Gives, Awaits, DInv, DetectGood
  <2>2. ASSUME NEW ps, AnyPlugin \notin ps, "detect" \notin ps, ps \cap StackPlugins = {}
        PROVE  StartsNew(p, ps)
    BY <2>1, <2>2 DEF StartsNew
  <2>3. CASE Got(p) \in BrocadeIds
    <3>1. StartsNew(p, BrocadePlugins)
      BY <2>2, FamiliesAre
    <3>2. (\E t : Starts(p, t, BrocadePlugins)) \/ Moves \/ Got(p) \in DOMAIN FamilyPlugins
      BY <1>2 DEF DetectFamily
    <3>3. Got(p) \notin DOMAIN FamilyPlugins
      BY <2>3 DEF BrocadeIds, FamilyPlugins
    <3> QED BY <3>1, <3>2, <3>3
  <2>4. CASE Got(p) \in DOMAIN FamilyPlugins
    <3>1. PICK id \in DOMAIN FamilyPlugins : id = Got(p)
      BY <2>4
    <3>2. StartsNew(p, FamilyPlugins[id])
      BY <2>2, FamiliesAre
    <3>3. Got(p) \notin BrocadeIds /\ Got(p) # "allied_telesis"
      BY <2>4 DEF BrocadeIds, FamilyPlugins
    <3>4. Starts(p, Done, FamilyPlugins[id])
      BY <1>2, <3>1, <3>3 DEF DetectFamily
    <3> QED BY <3>2, <3>4
  <2>5. CASE Got(p) \notin BrocadeIds \cup DOMAIN FamilyPlugins
    BY <1>2, <2>5 DEF DetectFamily
  <2> QED BY <2>3, <2>4, <2>5
<1>3. CASE p = "detect" /\ DetectChassis(p)
  <2>1. Called(WithPorts)
    BY <1>3 DEF DetectChassis, Gives, Awaits, DInv, DetectGood
  <2>2. ChassisPlugin \notin DOMAIN task
    BY <2>1, FamiliesAre DEF Called, WithPorts, DhcpPlugin
  <2>3. PICK ps : ps = IF Got(p) = "snBigIronRXFamily" THEN {} ELSE {"brocade_temperature_plugin"}
    OBVIOUS
  <2>4. Starts(p, Done, ps)
    BY <1>3, <2>3 DEF DetectChassis
  <2>5. ps \subseteq {ChassisPlugin}
    BY <2>3 DEF ChassisPlugin
  <2>6. StartsNew(p, ps)
    BY <2>2, <2>5, FamiliesAre DEF StartsNew
  <2> QED BY <2>4, <2>6
<1>4. CASE p = "detect" /\ \E i \in Left(p) : RowIs(p, i) /\ PortSeen(p, i)
  <2>1. Called(BrocadePlugins)
    BY <1>4 DEF RowIs, DInv, DetectGood
  <2>2. DhcpPlugin \notin DOMAIN task
    BY <2>1, FamiliesAre DEF Called
  <2>3. StartsNew(p, {"brocade_dhcp_snooping_plugin"})
    BY <2>2, FamiliesAre DEF StartsNew, DhcpPlugin
  <2>4. (\E t : Starts(p, t, {"brocade_dhcp_snooping_plugin"})) \/ Moves
    BY <1>4 DEF PortSeen
  <2> QED BY <2>3, <2>4
<1> QED BY <1>1, <1>2, <1>3, <1>4, MovesOne

\* The others: those that were there are as they were, those that were not start.
LEMMA OthersAsTheyWere ==
    ASSUME IInv, DInv, Unstacked, NEW p \in DOMAIN task,
           RowStep(p) \/ EndStep(p) \/ GetStep(p) \/ Fails(p),
           NEW q \in DOMAIN task', q # p
    PROVE  \/ q \in DOMAIN task /\ task'[q] = task[q]
           \/ q \notin DOMAIN task /\ q # AnyPlugin /\ task'[q] \in {Fresh(q), Idle}
<1>1. CASE \E t : Becomes(p, t)
  BY <1>1 DEF Becomes
<1>2. CASE \E t, ps : Starts(p, t, ps) /\ StartsNew(p, ps)
  BY <1>2 DEF Starts, StartsNew
<1> QED BY <1>1, <1>2, StartsWhat

LEMMA StaysUnstacked ==
    ASSUME IInv, DInv, Unstacked, NEW p \in DOMAIN task,
           RowStep(p) \/ EndStep(p) \/ GetStep(p) \/ Fails(p)
    PROVE  Unstacked'
<1> SUFFICES ASSUME StackPlugin \in DOMAIN task', task'[StackPlugin].at = "get"
             PROVE  DOMAIN task' \cap StackPlugins = {}
  BY DEF Unstacked
<1>1. p # StackPlugin
  BY StackMoves
<1>2. CASE \E t : Becomes(p, t)
  <2>1. DOMAIN task' = DOMAIN task /\ task'[StackPlugin] = task[StackPlugin]
    BY <1>1, <1>2 DEF Becomes
  <2> QED BY <2>1 DEF Unstacked
<1>3. CASE \E t, ps : Starts(p, t, ps) /\ StartsNew(p, ps)
  <2>1. PICK t, ps : Starts(p, t, ps) /\ StartsNew(p, ps)
    BY <1>3
  <2>2. DOMAIN task' = DOMAIN task \cup ps /\ ps \cap StackPlugins = {}
    BY <1>1, <2>1 DEF Starts, StartsNew
  <2>3. CASE StackPlugin \in ps
    <3>1. DOMAIN task = {"detect"}
      BY <2>1, <2>3 DEF StartsNew
    <3> QED BY <2>2, <3>1, FamiliesAre
  <2>4. CASE StackPlugin \notin ps
    <3>1. StackPlugin \in DOMAIN task /\ task'[StackPlugin] = task[StackPlugin]
      BY <1>1, <2>1, <2>2, <2>4 DEF Starts
    <3> QED BY <2>2, <3>1 DEF Unstacked
  <2> QED BY <2>3, <2>4
<1> QED BY <1>2, <1>3, StartsWhat

-----------------------------------------------------------------------------
(* Knowledge of a device that stays the same.                                *)

LEMMA SameVerdicts ==
    ASSUME device' = device
    PROVE  /\ \A o : Column(o)' = Column(o) /\ The(o)' = The(o)
           /\ UnitRows' = UnitRows /\ Units' = Units /\ (IsStack' <=> IsStack)
           /\ \A p, i : RowVerdict(p, i)' = RowVerdict(p, i)
           /\ \A p : /\ WholeVerdict(p)' = WholeVerdict(p) /\ (WholeKnown(p)' <=> WholeKnown(p))
                     /\ DhcpFault(p)' <=> DhcpFault(p)
                     /\ VersionFault(p)' <=> VersionFault(p)
           /\ \A o : (Mixed(o)' <=> Mixed(o)) /\ (ByUnit(o)' <=> ByUnit(o))
           /\ (Differ' <=> Differ) /\ \A o : Vals(o)' = Vals(o)
           /\ \A i : /\ UnitHeat(i)' = UnitHeat(i) /\ (UnitLimited(i)' <=> UnitLimited(i))
                     /\ UnitHeatVerdict(i)' = UnitHeatVerdict(i)
                     /\ \A o : UnitLimit(o, i)' = UnitLimit(o, i)
           /\ \A p, i, st : Sayable(p, i, st)' <=> Sayable(p, i, st)
<1>1. /\ \A o : Column(o)' = Column(o)
      /\ (IsStack' <=> IsStack) /\ ThirdOctet' = ThirdOctet
      /\ \A o, vs : Reads(o, vs)' <=> Reads(o, vs)
  BY SameDevice
<1>2. \A o : The(o)' = The(o)
  BY <1>1 DEF The
<1>3. UnitRows' = UnitRows /\ Units' = Units
  BY <1>1 DEF UnitRows, Units
<1>4. \A p, i : RowVerdict(p, i)' = RowVerdict(p, i)
  BY <1>1 DEF RowVerdict
<1>5. \A p : WholeVerdict(p)' = WholeVerdict(p) /\ (WholeKnown(p)' <=> WholeKnown(p))
  BY <1>1, <1>2, <1>3 DEF WholeVerdict, WholeKnown
<1>6. \A p : (DhcpFault(p)' <=> DhcpFault(p)) /\ (VersionFault(p)' <=> VersionFault(p))
  BY <1>1, <1>2 DEF DhcpFault, VersionFault
<1>7. /\ \A o : (Mixed(o)' <=> Mixed(o)) /\ (ByUnit(o)' <=> ByUnit(o))
      /\ (Differ' <=> Differ) /\ \A o : Vals(o)' = Vals(o)
  <2>1. \A o : Vals(o)' = Vals(o)
    BY <1>1 DEF Vals
  <2> QED BY <1>1, <2>1 DEF Mixed, ByUnit, Differ
<1>8. \A i : /\ UnitHeat(i)' = UnitHeat(i) /\ (UnitLimited(i)' <=> UnitLimited(i))
             /\ UnitHeatVerdict(i)' = UnitHeatVerdict(i)
             /\ \A o : UnitLimit(o, i)' = UnitLimit(o, i)
  BY <1>1 DEF UnitHeat, UnitLimit, UnitLimited, UnitHeatVerdict
<1>9. \A p, i, st : Sayable(p, i, st)' <=> Sayable(p, i, st)
  BY <1>1, <1>3, <1>4, <1>5, <1>6, <1>7, <1>8 DEF Sayable
<1> QED BY <1>1, <1>2, <1>3, <1>4, <1>5, <1>6, <1>7, <1>8, <1>9

\* What a plugin knows it still knows in the next state, if no alert is lost.
LEMMA KnowsStays ==
    ASSUME device' = device, NEW p, NEW t, Knows(p, t),
           p \in {DhcpPlugin, VersionsPlugin} =>
              \A st \in {"CRITICAL", "WARNING"} : alerts[st] # << >> => alerts'[st] # << >>
    PROVE  Knows(p, t)'
<1>1. /\ \A o : Column(o)' = Column(o) /\ The(o)' = The(o)
      /\ UnitRows' = UnitRows /\ Units' = Units /\ (IsStack' <=> IsStack)
      /\ \A q, i : RowVerdict(q, i)' = RowVerdict(q, i)
      /\ \A q : DhcpFault(q)' <=> DhcpFault(q)
      /\ \A o : (Mixed(o)' <=> Mixed(o)) /\ (ByUnit(o)' <=> ByUnit(o))
      /\ (Differ' <=> Differ) /\ \A o : Vals(o)' = Vals(o)
  BY SameVerdicts
<1>2. ThirdOctet' = ThirdOctet /\ \A o, vs : Reads(o, vs)' <=> Reads(o, vs)
  BY SameDevice
<1>3. \A row : Passed(row)' = Passed(row)
  BY <1>1 DEF Passed
<1>4. Counted(t)' <=> Counted(t)
  BY <1>3 DEF Counted
<1>5. /\ SupplyKnows(p, t)' <=> SupplyKnows(p, t)
      /\ NameKnows(p, t)' <=> NameKnows(p, t)
      /\ UnitKnows(t)' <=> UnitKnows(t)
  BY <1>1 DEF SupplyKnows, NameKnows, UnitKnows
<1>6. /\ HeatKnows(t)' <=> HeatKnows(t)
      /\ UptimeKnows(t)' <=> UptimeKnows(t)
      /\ VersionKnows(t)' <=> VersionKnows(t)
  BY <1>1 DEF HeatKnows, UptimeKnows, VersionKnows
<1>7. (StackKnows(t)' <=> StackKnows(t)) /\ (TopologyKnows(t)' <=> TopologyKnows(t))
  BY <1>1, <1>4 DEF StackKnows, TopologyKnows
<1>8. ASSUME p = DhcpPlugin, DhcpKnows(t) PROVE DhcpKnows(t)'
  BY <1>1, <1>2, <1>8 DEF DhcpKnows
<1>9. ASSUME p = VersionsPlugin, VersionsKnow(t) PROVE VersionsKnow(t)'
  <2>1. \A o, row : Past(o, row)' = Past(o, row)
    BY <1>1 DEF Past
  <2>2. (Collected(t)' <=> Collected(t)) /\ (Stacked' <=> Stacked)
    BY <1>1, <2>1 DEF Collected, Stacked
  <2> QED BY <1>1, <1>9, <2>2 DEF VersionsKnow
<1>10. UnitHeatKnows(t)' <=> UnitHeatKnows(t)
  <2>1. \A i : /\ UnitHeat(i)' = UnitHeat(i)
               /\ \A o : UnitLimit(o, i)' = UnitLimit(o, i)
    BY SameVerdicts
  <2> QED BY <1>1, <2>1 DEF UnitHeatKnows
<1> QED BY <1>5, <1>6, <1>7, <1>8, <1>9, <1>10 DEF Knows

\* The plugins that keep nothing that matters.
Knowing == PsuPlugins \cup CiscoPlugins
           \cup {UnitStatePlugin, ChassisPlugin, UptimePlugin, VersionPlugin, StackPlugin,
                 TopologyPlugin, DhcpPlugin, VersionsPlugin, UnitHeatPlugin, AnyPlugin}

LEMMA KnowsOne ==
    ASSUME NEW p, NEW t
    PROVE  /\ p \notin Knowing => Knows(p, t)
           /\ p \in PsuPlugins /\ SupplyKnows(p, t) => Knows(p, t)
           /\ p \in CiscoPlugins /\ NameKnows(p, t) => Knows(p, t)
           /\ p = UnitStatePlugin /\ UnitKnows(t) => Knows(p, t)
           /\ p = ChassisPlugin /\ HeatKnows(t) => Knows(p, t)
           /\ p = UptimePlugin /\ UptimeKnows(t) => Knows(p, t)
           /\ p = VersionPlugin /\ VersionKnows(t) => Knows(p, t)
           /\ p = StackPlugin /\ StackKnows(t) => Knows(p, t)
           /\ p = TopologyPlugin /\ TopologyKnows(t) => Knows(p, t)
           /\ p = DhcpPlugin /\ DhcpKnows(t) => Knows(p, t)
           /\ p = VersionsPlugin /\ VersionsKnow(t) => Knows(p, t)
           /\ p = UnitHeatPlugin /\ UnitHeatKnows(t) => Knows(p, t)
           /\ p = AnyPlugin /\ t.at = AnyPlugin => Knows(p, t)
<1> DEFINE Singles == {UnitStatePlugin, ChassisPlugin, UptimePlugin, VersionPlugin, StackPlugin,
                       TopologyPlugin, DhcpPlugin, VersionsPlugin, UnitHeatPlugin, AnyPlugin}
<1>1. p \notin Knowing => Knows(p, t)
  BY DEF Knowing, Knows
<1>2. /\ PsuPlugins \cap CiscoPlugins = {}
      /\ PsuPlugins \cap Singles = {} /\ CiscoPlugins \cap Singles = {}
  BY DEF PsuPlugins, CiscoPlugins, UnitStatePlugin, ChassisPlugin, UptimePlugin, VersionPlugin,
         StackPlugin, TopologyPlugin, DhcpPlugin, VersionsPlugin, UnitHeatPlugin, AnyPlugin
<1>3. p \in PsuPlugins /\ SupplyKnows(p, t) => Knows(p, t)
  BY <1>2 DEF Knows
<1>4. p \in CiscoPlugins /\ NameKnows(p, t) => Knows(p, t)
  BY <1>2 DEF Knows
<1>5. /\ UnitStatePlugin = "brocade_stacking_unit_state"
      /\ ChassisPlugin = "brocade_temperature_plugin" /\ UptimePlugin = "brocade_uptime_plugin"
      /\ VersionPlugin = "brocade_version_plugin" /\ StackPlugin = "brocade_stack_plugin"
      /\ TopologyPlugin = "brocade_stacking_topology_plugin"
      /\ DhcpPlugin = "brocade_dhcp_snooping_plugin" /\ AnyPlugin = "any"
      /\ VersionsPlugin = "brocade_stacking_version_plugin"
      /\ UnitHeatPlugin = "brocade_unit_temperature_plugin"
  BY DEF UnitStatePlugin, ChassisPlugin, UptimePlugin, VersionPlugin, StackPlugin,
         TopologyPlugin, DhcpPlugin, VersionsPlugin, UnitHeatPlugin, AnyPlugin
<1>6. p \in Singles => p \notin PsuPlugins \cup CiscoPlugins
  BY <1>2
<1>7. /\ p = UnitStatePlugin /\ UnitKnows(t) => Knows(p, t)
      /\ p = ChassisPlugin /\ HeatKnows(t) => Knows(p, t)
      /\ p = UptimePlugin /\ UptimeKnows(t) => Knows(p, t)
  BY <1>5, <1>6 DEF Knows
<1>8. /\ p = VersionPlugin /\ VersionKnows(t) => Knows(p, t)
      /\ p = StackPlugin /\ StackKnows(t) => Knows(p, t)
      /\ p = TopologyPlugin /\ TopologyKnows(t) => Knows(p, t)
      /\ p = DhcpPlugin /\ DhcpKnows(t) => Knows(p, t)
      /\ p = VersionsPlugin /\ VersionsKnow(t) => Knows(p, t)
      /\ p = UnitHeatPlugin /\ UnitHeatKnows(t) => Knows(p, t)
      /\ p = AnyPlugin /\ t.at = AnyPlugin => Knows(p, t)
  BY <1>5, <1>6 DEF Knows
<1> QED BY <1>1, <1>3, <1>4, <1>7, <1>8

\* A plugin that has ended keeps nothing, one that starts knows where it is.
LEMMA KnowsLast ==
    ASSUME NEW p, p \notin {DhcpPlugin, AnyPlugin, VersionsPlugin},
           NEW t \in {Done, [Idle EXCEPT !.at = "failed"]}
    PROVE  Knows(p, t)
<1>1. t.at \in {"done", "failed"} /\ t.mem = << >>
  BY DEF Done, Idle
<1>2. /\ SupplyKnows(p, t) /\ NameKnows(p, t) /\ UnitKnows(t) /\ HeatKnows(t)
      /\ UptimeKnows(t) /\ VersionKnows(t) /\ StackKnows(t) /\ TopologyKnows(t)
      /\ UnitHeatKnows(t)
  BY <1>1 DEF SupplyKnows, NameKnows, UnitKnows, HeatKnows, UptimeKnows, VersionKnows,
              StackKnows, TopologyKnows, UnitHeatKnows
<1> QED BY <1>2 DEF Knows

\* A walk that starts has passed nothing.
LEMMA NonePast ==
    ASSUME device \in Cases, NEW t, t.row = << >>, t.mem = << >>
    PROVE  Collected(t)
<1>1. Past(t.table, << >>) = {}
  BY ColumnsAre, EmptyIsLeast DEF Past
<1>2. DOMAIN << >> = {} /\ {Head(i) : i \in {}} = {}
  OBVIOUS
<1>3. PICK m, rows : m = t.mem /\ rows = Past(t.table, t.row)
  OBVIOUS
<1>4. rows = {} /\ DOMAIN m = {}
  BY <1>1, <1>2, <1>3
<1>5. DOMAIN m = {Head(i) : i \in rows} /\ IsFiniteSet(rows)
  BY <1>2, <1>4, FS_EmptySet
<1> QED BY <1>3, <1>4, <1>5 DEF Collected

LEMMA KnowsFirst ==
    ASSUME device \in Cases, NEW p \in AllPlugins, NEW t \in {Fresh(p), Idle},
           p = AnyPlugin => t = Fresh(p)
    PROVE  Knows(p, t)
<1>1. Idle.at = "started" /\ Idle.mem = << >>
  BY DEF Idle
<1>2. CASE t = Idle
  <2>1. t.at = "started" /\ t.mem = << >>
    BY <1>1, <1>2
  <2>2. /\ SupplyKnows(p, t) /\ NameKnows(p, t) /\ UnitKnows(t) /\ HeatKnows(t)
        /\ UptimeKnows(t) /\ VersionKnows(t) /\ StackKnows(t) /\ TopologyKnows(t)
        /\ DhcpKnows(t) /\ VersionsKnow(t) /\ UnitHeatKnows(t)
    BY <2>1 DEF SupplyKnows, NameKnows, UnitKnows, HeatKnows, UptimeKnows, VersionKnows,
                StackKnows, TopologyKnows, DhcpKnows, VersionsKnow, UnitHeatKnows
  <2>3. CASE p # AnyPlugin
    BY <2>2, <2>3 DEF Knows
  <2>4. CASE p = AnyPlugin
    <3>1. Fresh(p).at = AnyPlugin /\ AnyPlugin # "started"
      BY <2>4 DEF Fresh, AnyPlugin, Table, Object, Idle
    <3> QED BY <2>1, <2>4, <3>1
  <2> QED BY <2>3, <2>4
<1>3. CASE t = Fresh(p) /\ p \in PsuPlugins \cup CiscoPlugins
                                   \cup {UnitStatePlugin, UnitHeatPlugin}
  <2>1. p \in DOMAIN Table /\ p # "hp_sensors_plugin"
    BY <1>3 DEF PsuPlugins, CiscoPlugins, UnitStatePlugin, UnitHeatPlugin, Table
  <2>2. t = Walks(Idle, Table[p])
    BY <1>3, <2>1 DEF Fresh
  <2>3. t.at = "walk" /\ t.mem = << >> /\ t.table = Table[p]
    BY <1>1, <2>2 DEF Walks, Idle
  <2>4. SupplyKnows(p, t) /\ NameKnows(p, t) /\ UnitKnows(t)
    BY <2>3 DEF SupplyKnows, NameKnows, UnitKnows
  <2>5. p = UnitHeatPlugin => UnitHeatKnows(t)
    BY <2>3 DEF UnitHeatKnows, UnitHeatPlugin, Table
  <2> QED BY <1>3, <2>4, <2>5, KnowsOne
<1>4. CASE t = Fresh(p) /\ p \in {ChassisPlugin, UptimePlugin, VersionPlugin, StackPlugin,
                                  DhcpPlugin}
  <2>1. p \in DOMAIN Object /\ p \notin DOMAIN Table /\ p # "hp_sensors_plugin"
    BY <1>4 DEF ChassisPlugin, UptimePlugin, VersionPlugin, StackPlugin, DhcpPlugin,
                Table, Object
  <2>2. t = Gets(Idle, Object[p], Scalar)
    BY <1>4, <2>1 DEF Fresh
  <2>3. t.at = "get" /\ t.mem = << >> /\ t.obj = Object[p] /\ t.tail = Scalar /\ t.row = << >>
    BY <1>1, <2>2 DEF Gets, Idle
  <2>4. /\ Object[ChassisPlugin] = "snChasActualTemperature" /\ Object[UptimePlugin] = "sysDescr"
        /\ Object[VersionPlugin] = "snAgImgVer"
        /\ Object[StackPlugin] = "snStackingGlobalConfigSt"
    BY DEF ChassisPlugin, UptimePlugin, VersionPlugin, StackPlugin, Object
  <2>5. /\ p = ChassisPlugin => HeatKnows(t)
        /\ p = UptimePlugin => UptimeKnows(t)
        /\ p = VersionPlugin => VersionKnows(t)
    BY <2>3, <2>4 DEF HeatKnows, UptimeKnows, VersionKnows
  <2>6. /\ p = StackPlugin => StackKnows(t)
        /\ p = DhcpPlugin => DhcpKnows(t)
    BY <2>3, <2>4 DEF StackKnows, DhcpKnows
  <2> QED BY <1>4, <2>5, <2>6, KnowsOne
<1>5. CASE t = Fresh(p) /\ p = TopologyPlugin
  <2>1. p \in DOMAIN Table /\ p # "hp_sensors_plugin"
        /\ Table[p] = "snStackingConfigUnitPriority"
    BY <1>5 DEF TopologyPlugin, Table
  <2>2. t = Walks(Idle, Table[p])
    BY <1>5, <2>1 DEF Fresh
  <2>3. /\ t.at = "walk" /\ t.mem = << >> /\ t.row = << >>
        /\ t.table = "snStackingConfigUnitPriority"
    BY <1>1, <2>1, <2>2 DEF Walks, Idle
  <2>4. Passed(<< >>) = {}
    BY ColumnsAre, EmptyIsLeast DEF Passed
  <2>5. Counted(t)
    <3>1. IsSeq(<< >>) /\ Len(<< >>) = 0
      BY DEF IsSeq
    <3> QED BY <2>3, <2>4, <3>1, FS_EmptySet DEF Counted
  <2>6. TopologyKnows(t)
    BY <2>3, <2>5 DEF TopologyKnows
  <2> QED BY <1>5, <2>6, KnowsOne
<1>6. CASE t = Fresh(p) /\ p = VersionsPlugin
  <2>1. p \in DOMAIN Table /\ p # "hp_sensors_plugin" /\ Table[p] = Images
    BY <1>6 DEF VersionsPlugin, Images, Table
  <2>2. t = Walks(Idle, Table[p])
    BY <1>6, <2>1 DEF Fresh
  <2>3. t.at = "walk" /\ t.mem = << >> /\ t.row = << >> /\ t.table = Images
    BY <1>1, <2>1, <2>2 DEF Walks, Idle
  <2>4. Collected(t)
    BY <2>3, NonePast
  <2>5. VersionsKnow(t)
    BY <2>3, <2>4 DEF VersionsKnow, Images, Builds
  <2> QED BY <1>6, <2>5, KnowsOne
<1>7. CASE t = Fresh(p) /\ p = AnyPlugin
  <2>1. t.at = AnyPlugin
    BY <1>7 DEF Fresh, AnyPlugin, Table, Object, Idle
  <2> QED BY <1>7, <2>1, KnowsOne
<1>8. CASE p \notin Knowing
  BY <1>8, KnowsOne
<1>9. p \in Knowing => p \in PsuPlugins \cup CiscoPlugins
                                 \cup {UnitStatePlugin, ChassisPlugin, UptimePlugin, VersionPlugin,
                                       StackPlugin, DhcpPlugin, TopologyPlugin, VersionsPlugin,
                                       UnitHeatPlugin, AnyPlugin}
  BY DEF Knowing
<1> QED BY <1>2, <1>3, <1>4, <1>5, <1>6, <1>7, <1>8, <1>9

-----------------------------------------------------------------------------
(* A step of a plugin says what is so, and it knows what it needs next.      *)

\* What p, which becomes u, says.
Honest(p, u) ==
    \E i, S : /\ NewAlerts(p, i, S)
              /\ \A st \in S : Failed(p, i, st, u) \/ Sayable(p, i, st)

Finishes(p, u) ==
    /\ p \in WholeTellers /\ u.at = "done" => \E n \in Nat : n # 0 /\ Adds(p, << >>, n)
    /\ u.at = "failed" => alerts'["CRITICAL"] # << >>

GoodStep(p) ==
    \E u : /\ p \in DOMAIN task' /\ task'[p] = u
           /\ Honest(p, u) /\ Knows(p, u)' /\ Finishes(p, u)

\* p becomes u, and starts the plugins ps.
Goes(p, u) == Becomes(p, u) \/ \E ps : p \notin ps /\ Starts(p, u, ps)

LEMMA GoesTo ==
    ASSUME NEW p \in DOMAIN task, NEW u, Goes(p, u)
    PROVE  p \in DOMAIN task' /\ task'[p] = u
<1>1. CASE Becomes(p, u)
  BY <1>1 DEF Becomes
<1>2. ASSUME NEW ps, p \notin ps, Starts(p, u, ps) PROVE p \in DOMAIN task' /\ task'[p] = u
  BY <1>2 DEF Starts
<1> QED BY <1>1, <1>2 DEF Goes

LEMMA SaysNothing ==
    ASSUME IInv, device' = device, NEW p \in DOMAIN task, NEW u, Quiet, Goes(p, u), Knows(p, u),
           p \notin WholeTellers \/ u.at # "done", u.at # "failed"
    PROVE  GoodStep(p)
<1>1. NewAlerts(p, << >>, {})
  BY TellsThese
<1>2. Honest(p, u)
  BY <1>1 DEF Honest
<1>3. alerts' = alerts
  BY DEF Quiet, vars
<1>4. Knows(p, u)'
  BY <1>3, KnowsStays
<1> QED BY <1>2, <1>4, GoesTo DEF GoodStep, Finishes

\* An alert that is right; what p knows may rest on it.
LEMMA SaysOne ==
    ASSUME IInv, device' = device, NEW p \in DOMAIN task, NEW u, NEW i, NEW st \in States4,
           Alerts(p, i, << st >>), Goes(p, u), Failed(p, i, st, u) \/ Sayable(p, i, st),
           Knows(p, u) \/ Knows(p, u)', p \in WholeTellers => i = << >>,
           u.at = "failed" => st = "CRITICAL"
    PROVE  GoodStep(p)
<1>1. NewAlerts(p, i, {st}) /\ Adds(p, i, 1)
  BY TellsThese, TellsAre
<1>2. Honest(p, u)
  <2> DEFINE S == {st}
  <2>1. NewAlerts(p, i, S) /\ \A su \in S : Failed(p, i, su, u) \/ Sayable(p, i, su)
    BY <1>1
  <2> HIDE DEF S
  <2> QED BY <2>1 DEF Honest
<1>3. Finishes(p, u)
  <2>1. 1 \in Nat /\ 1 # 0 /\ alerts'[st] # << >>
    BY <1>1 DEF NewAlerts
  <2> QED BY <1>1, <2>1 DEF Finishes
<1>4. Knows(p, u)'
  <2>1. NoneLost(alerts, alerts') /\ {"CRITICAL", "WARNING"} \subseteq States4
    BY <1>1 DEF NewAlerts, States4
  <2> QED BY <2>1, KnowsStays DEF NoneLost
<1> QED BY <1>2, <1>3, <1>4, GoesTo DEF GoodStep

LEMMA SaysMetric ==
    ASSUME IInv, device' = device, NEW p \in DOMAIN task, NEW u, NEW i,
           NEW v, NEW warn, NEW crit, Metric(p, i, Measured(v, warn, crit)),
           Goes(p, u), Sayable(p, i, Judge(v, warn, crit)), Knows(p, u),
           p \in WholeTellers => i = << >>, u.at # "failed"
    PROVE  GoodStep(p)
<1> DEFINE m == Measured(v, warn, crit)
           st == StateOf(m)
<1>0. st = Judge(v, warn, crit)
  BY DEF StateOf, Measured
<1>1. NewAlerts(p, i, {StateOf(m)}) /\ Adds(p, i, 1)
  <2> HIDE DEF m
  <2>1. Metric(p, i, m)
    BY DEF m
  <2> QED BY <2>1, TellsThese, TellsAre
<1>2. Honest(p, u)
  <2> DEFINE S == {st}
  <2>1. NewAlerts(p, i, S) /\ \A su \in S : Failed(p, i, su, u) \/ Sayable(p, i, su)
    BY <1>0, <1>1
  <2> HIDE DEF S, m, st
  <2> QED BY <2>1 DEF Honest
<1>3. Finishes(p, u)
  <2>1. 1 \in Nat /\ 1 # 0
    OBVIOUS
  <2> QED BY <1>1, <2>1 DEF Finishes
<1>4. Knows(p, u)'
  <2>1. NoneLost(alerts, alerts') /\ {"CRITICAL", "WARNING"} \subseteq States4
    BY <1>1 DEF NewAlerts, States4
  <2> QED BY <2>1, KnowsStays DEF NoneLost
<1> QED BY <1>2, <1>3, <1>4, GoesTo DEF GoodStep

\* A metric without limits is fine.
LEMMA NoRangeIsOK == \A v : Judge(v, NoRange, NoRange) = "OK"
BY DEF Judge, AlertOf, Outside, NoRange

\* The plugins that say nothing a reader would alarm for.
LEMMA SayableOK ==
    ASSUME NEW p, p \notin RowTellers \cup WholeTellers, NEW i, NEW st \in {"OK", "UNKNOWN"}
    PROVE  Sayable(p, i, st)
BY DEF Sayable

LEMMA FailSays ==
    ASSUME IInv, device' = device, NEW p \in DOMAIN task, Knows(p, task[p]), Fails(p)
    PROVE  GoodStep(p)
<1> DEFINE u == [Idle EXCEPT !.at = "failed"]
<1>1. /\ Alerts(p, << >>, << "CRITICAL" >>) /\ Goes(p, u) /\ task[p].at \in {"walk", "get"}
      /\ "CRITICAL" \in States4
  BY DEF Fails, Goes, States4
<1>2. u.at = "failed"
  BY DEF Idle
<1>3. p # AnyPlugin
  BY <1>1 DEF Knows, AnyPlugin
<1>4. CASE p = DhcpPlugin
  <2> HIDE DEF u
  <2>1. DhcpKnows(u)
    BY <1>2 DEF DhcpKnows
  <2>2. Knows(p, u)
    BY <1>4, <2>1, KnowsOne
  <2> QED BY <1>1, <1>2, <2>2, SaysOne DEF Failed
<1>5. CASE p = VersionsPlugin
  <2> HIDE DEF u
  <2>1. VersionsKnow(u)
    BY <1>2 DEF VersionsKnow
  <2>2. Knows(p, u)
    BY <1>5, <2>1, KnowsOne
  <2> QED BY <1>1, <1>2, <2>2, SaysOne DEF Failed
<1>6. CASE p \notin {DhcpPlugin, VersionsPlugin}
  <2>1. Knows(p, u)
    BY <1>3, <1>6, KnowsLast
  <2> HIDE DEF u
  <2> QED BY <1>1, <1>2, <2>1, SaysOne DEF Failed
<1> QED BY <1>4, <1>5, <1>6

\* The plugins of tables, each of one kind.
LEMMA TableKinds ==
    /\ FanPlugins \cap Knowing = {} /\ LoadPlugins \cap Knowing = {}
    /\ {"cisco_mem_usage_plugin", "hp_mem_usage_plugin", "hp_sensors_plugin", "detect",
        "brocade_mem_usage_plugin"} \cap Knowing = {}
    /\ FanPlugins \cap PsuPlugins = {} /\ FanPlugins \cap CiscoPlugins = {}
    /\ PsuPlugins \cap CiscoPlugins = {}
    /\ RowTellers \cap WholeTellers = {} /\ LoadPlugins \cap (RowTellers \cup WholeTellers) = {}
    /\ UnitStatePlugin \notin FanPlugins \cup PsuPlugins \cup CiscoPlugins
    /\ {"cisco_mem_usage_plugin", "hp_mem_usage_plugin", "detect", "hp_sensors_plugin",
        "brocade_unit_temperature_plugin", "brocade_stacking_version_plugin",
        "brocade_mem_usage_plugin", DhcpPlugin, VersionPlugin}
          \cap (RowTellers \cup WholeTellers) = {}
    /\ FanPlugins \cup PsuPlugins \cup CiscoPlugins \cup LoadPlugins \subseteq TellsRows
<1>1. FanPlugins \cap Knowing = {} /\ LoadPlugins \cap Knowing = {}
  BY DEF FanPlugins, LoadPlugins, Knowing, PsuPlugins, CiscoPlugins, UnitStatePlugin,
         ChassisPlugin, UptimePlugin, VersionPlugin, StackPlugin, TopologyPlugin, DhcpPlugin,
         VersionsPlugin, UnitHeatPlugin, AnyPlugin
<1>2. {"cisco_mem_usage_plugin", "hp_mem_usage_plugin", "hp_sensors_plugin", "detect",
        "brocade_mem_usage_plugin"} \cap Knowing = {}
  BY DEF Knowing, PsuPlugins, CiscoPlugins, UnitStatePlugin,
         ChassisPlugin, UptimePlugin, VersionPlugin, StackPlugin, TopologyPlugin, DhcpPlugin,
         VersionsPlugin, UnitHeatPlugin, AnyPlugin
<1>3. /\ FanPlugins \cap PsuPlugins = {} /\ FanPlugins \cap CiscoPlugins = {}
      /\ PsuPlugins \cap CiscoPlugins = {}
      /\ UnitStatePlugin \notin FanPlugins \cup PsuPlugins \cup CiscoPlugins
  BY DEF FanPlugins, PsuPlugins, CiscoPlugins, UnitStatePlugin
<1>4. RowTellers \cap WholeTellers = {}
  BY DEF RowTellers, WholeTellers, FanPlugins, PsuPlugins, CiscoPlugins, UnitStatePlugin,
         StackPlugin, TopologyPlugin, UptimePlugin, ChassisPlugin
<1>5. LoadPlugins \cap (RowTellers \cup WholeTellers) = {}
  BY DEF LoadPlugins, RowTellers, WholeTellers, FanPlugins, PsuPlugins, CiscoPlugins,
         UnitStatePlugin, StackPlugin, TopologyPlugin, UptimePlugin, ChassisPlugin
<1>6. {"cisco_mem_usage_plugin", "hp_mem_usage_plugin", "detect", "hp_sensors_plugin",
        "brocade_unit_temperature_plugin", "brocade_stacking_version_plugin",
        "brocade_mem_usage_plugin", DhcpPlugin, VersionPlugin}
          \cap (RowTellers \cup WholeTellers) = {}
  BY DEF RowTellers, WholeTellers, FanPlugins, PsuPlugins, CiscoPlugins, UnitStatePlugin,
         StackPlugin, TopologyPlugin, UptimePlugin, ChassisPlugin, DhcpPlugin, VersionPlugin
<1>7. FanPlugins \cup PsuPlugins \cup CiscoPlugins \cup LoadPlugins \subseteq TellsRows
  BY DEF TellsRows
<1> QED BY <1>1, <1>2, <1>3, <1>4, <1>5, <1>6, <1>7

-----------------------------------------------------------------------------
(* Each step says what is so.  Steps over the rows of tables:                *)

LEMMA RowAt ==
    ASSUME IInv, NEW p \in DOMAIN task, NEW i \in Left(p), RowIs(p, i)
    PROVE  /\ task[p].at = "walk" /\ i \in DOMAIN Column(task[p].table)
           /\ Shape(At(p, i)) /\ At(p, i).at = "walk" /\ At(p, i).row = i
           /\ At(p, i).mem = task[p].mem /\ At(p, i).table = task[p].table
           /\ \A m : Shape(Remembers(At(p, i), m))
<1>1. Shape(task[p]) /\ task[p].at = "walk"
  BY DEF IInv, GoodTask, RowIs
<1>2. i \in DOMAIN Column(task[p].table)
  BY DEF Left, Rows
<1>3. Shape(At(p, i)) /\ At(p, i).mem = task[p].mem /\ At(p, i).at = "walk"
  BY <1>1, RowShape
<1>4. At(p, i).row = i /\ At(p, i).table = task[p].table
  BY <1>1 DEF At, Shape
<1> QED BY <1>1, <1>2, <1>3, <1>4, Shapes

LEMMA FanSays ==
    ASSUME IInv, RInv, device' = device, NEW p \in DOMAIN task, NEW i \in Left(p), RowIs(p, i),
           FanRow(p, i)
    PROVE  GoodStep(p)
<1>1. p \in FanPlugins /\ p \in TellsRows /\ p \in RowTellers /\ p # UnitStatePlugin
      /\ p \notin Knowing /\ p \notin WholeTellers
  BY TableKinds DEF FanRow, RowTellers
<1>2. task[p].at = "walk" /\ At(p, i).at = "walk" /\ i \in DOMAIN Column(task[p].table)
  BY RowAt
<1>3. task[p].table = Table[p]
  BY <1>1, <1>2 DEF RInv, RowGood
<1>4. RowVerdict(p, i) = FanState(Val(p, i)) /\ FanState(Val(p, i)) \in States4
  BY <1>1, <1>3, StateTables DEF RowVerdict, Val
<1>5. Sayable(p, i, FanState(Val(p, i)))
  BY <1>1, <1>2, <1>3, <1>4 DEF Sayable
<1>6. Knows(p, At(p, i)) /\ Goes(p, At(p, i)) /\ Alerts(p, i, << FanState(Val(p, i)) >>)
  BY <1>1, KnowsOne DEF FanRow, Goes
<1> QED BY <1>1, <1>2, <1>4, <1>5, <1>6, SaysOne

LEMMA PsuSays ==
    ASSUME IInv, RInv, device' = device, NEW p \in DOMAIN task, NEW i \in Left(p), RowIs(p, i),
           PsuRow(p, i)
    PROVE  GoodStep(p)
<1>1. p \in PsuPlugins /\ p \in TellsRows /\ p \in RowTellers /\ p # UnitStatePlugin
      /\ p \notin FanPlugins /\ p \notin WholeTellers
  BY TableKinds DEF PsuRow, RowTellers
<1>2. /\ task[p].at = "walk" /\ Shape(At(p, i)) /\ At(p, i).at = "walk" /\ At(p, i).row = i
      /\ i \in DOMAIN Column(task[p].table)
  BY RowAt
<1>3. task[p].table = Table[p]
  BY <1>1, <1>2 DEF RInv, RowGood
<1>4. CASE Val(p, i) = 3
  <2>1. PICK u : u = Gets(At(p, i), Detail[p], PsuIndex(p, i))
    OBVIOUS
  <2>2. u.at = "get" /\ u.obj = Detail[p] /\ u.tail = PsuIndex(p, i) /\ u.row = i
    BY <1>2, <2>1, PlacesKept DEF Gets, Shape
  <2>3. SupplyKnows(p, u)
    BY <1>3, <1>4, <2>2 DEF SupplyKnows, Val
  <2>4. Knows(p, u) /\ Goes(p, u) /\ Quiet
    BY <1>1, <1>4, <2>1, <2>3, KnowsOne DEF PsuRow, Goes
  <2> QED BY <1>1, <2>2, <2>4, SaysNothing
<1>5. CASE Val(p, i) # 3
  <2>1. RowVerdict(p, i) = PsuState(Val(p, i)) /\ PsuState(Val(p, i)) \in States4
    BY <1>1, <1>3, <1>5, StateTables DEF RowVerdict, Val
  <2>2. Sayable(p, i, PsuState(Val(p, i)))
    BY <1>1, <1>2, <1>3, <2>1 DEF Sayable
  <2>3. SupplyKnows(p, At(p, i))
    BY <1>2 DEF SupplyKnows
  <2>4. Knows(p, At(p, i)) /\ Goes(p, At(p, i)) /\ Alerts(p, i, << PsuState(Val(p, i)) >>)
    BY <1>1, <1>5, <2>3, KnowsOne DEF PsuRow, Goes
  <2> QED BY <1>1, <1>2, <2>1, <2>2, <2>4, SaysOne
<1> QED BY <1>4, <1>5

LEMMA LoadSays ==
    ASSUME IInv, device' = device, NEW p \in DOMAIN task, NEW i \in Left(p), RowIs(p, i),
           LoadRow(p, i)
    PROVE  GoodStep(p)
<1>1. p \in LoadPlugins /\ p \notin Knowing /\ p \notin RowTellers \cup WholeTellers
  BY TableKinds DEF LoadRow
<1>2. At(p, i).at = "walk"
  BY RowAt
<1>3. Knows(p, At(p, i)) /\ Goes(p, At(p, i))
  BY <1>1, KnowsOne DEF LoadRow, Goes
<1>4. CASE Quiet
  BY <1>1, <1>2, <1>3, <1>4, SaysNothing
<1>5. CASE Metric(p, i, Measured(Val(p, i), NoRange, NoRange))
  <2>1. Sayable(p, i, Judge(Val(p, i), NoRange, NoRange))
    BY <1>1, NoRangeIsOK, SayableOK
  <2> QED BY <1>1, <1>2, <1>3, <1>5, <2>1, SaysMetric
<1> QED BY <1>4, <1>5 DEF LoadRow

LEMMA CiscoSays ==
    ASSUME IInv, RInv, device' = device, NEW p \in DOMAIN task, NEW i \in Left(p), RowIs(p, i),
           CiscoRow(p, i)
    PROVE  GoodStep(p)
<1>1. p \in CiscoPlugins /\ p \in TellsRows /\ p \notin WholeTellers
  BY TableKinds DEF CiscoRow, RowTellers
<1>2. /\ task[p].at = "walk" /\ At(p, i).row = i
      /\ \A m : Shape(Remembers(At(p, i), m))
      /\ Shape(At(p, i))
  BY RowAt
<1>3. task[p].table = Table[p]
  BY <1>1, <1>2 DEF RInv, RowGood
<1>4. PICK s : s = Remembers(At(p, i), << Val(p, i) >>)
  OBVIOUS
<1>5. Shape(s) /\ s.mem = << Val(p, i) >> /\ s.row = i
  BY <1>2, <1>4, Fields, PlacesKept
<1>6. PICK u : u = Gets(s, Detail[p], << Last(i) >>)
  OBVIOUS
<1>7. u.at = "get" /\ u.mem = << Val(p, i) >> /\ u.row = i
  BY <1>5, <1>6, Fields, PlacesKept
<1>8. NameKnows(p, u)
  BY <1>3, <1>7 DEF NameKnows, Val
<1>9. Knows(p, u) /\ Goes(p, u) /\ Quiet
  BY <1>1, <1>4, <1>6, <1>8, KnowsOne DEF CiscoRow, Goes
<1> QED BY <1>1, <1>7, <1>9, SaysNothing

\* Plugins that only keep the row's value, to ask for more.
LEMMA KeepSays ==
    ASSUME IInv, device' = device, NEW p \in DOMAIN task, NEW i \in Left(p), RowIs(p, i),
           MemRow(p, i)
    PROVE  GoodStep(p)
<1>1. p \notin Knowing /\ p \notin WholeTellers
  BY TableKinds DEF MemRow
<1>2. \A m : Shape(Remembers(At(p, i), m)) /\ Remembers(At(p, i), m).at = "walk"
  BY RowAt, Fields
<1>3. PICK u : Becomes(p, u) /\ u.at \in {"walk", "get"} /\ Quiet
  BY <1>2, Fields DEF MemRow
<1>4. Knows(p, u) /\ Goes(p, u) /\ u.at # "failed"
  BY <1>1, <1>3, KnowsOne DEF Goes
<1> QED BY <1>1, <1>3, <1>4, SaysNothing

LEMMA SensorSays ==
    ASSUME IInv, device' = device, NEW p \in DOMAIN task, NEW i \in Left(p), RowIs(p, i),
           SensorRow(p, i)
    PROVE  GoodStep(p)
<1>1. p \notin Knowing /\ p \notin WholeTellers /\ p \in Opaque
  BY TableKinds DEF SensorRow, Opaque
<1>2. \A m : Remembers(At(p, i), m).at = "walk"
  BY RowAt, Fields
<1>3. PICK u : /\ Becomes(p, u) /\ u.at = "walk"
               /\ Quiet \/ Alerts(p, i, << hp_state(Val(p, i)) >>)
  BY <1>2 DEF SensorRow
<1>4. Knows(p, u) /\ Goes(p, u)
  BY <1>1, <1>3, KnowsOne DEF Goes
<1>5. CASE Quiet
  BY <1>1, <1>3, <1>4, <1>5, SaysNothing
<1>6. CASE Alerts(p, i, << hp_state(Val(p, i)) >>)
  <2>1. hp_state(Val(p, i)) \in States4 /\ Sayable(p, i, hp_state(Val(p, i)))
    BY <1>1, StateTables DEF Sayable
  <2> QED BY <1>1, <1>3, <1>4, <1>6, <2>1, SaysOne
<1> QED BY <1>3, <1>5, <1>6

\* A unit more has been passed, and counted.
LEMMA CountSays ==
    ASSUME IInv, device' = device, NEW p \in DOMAIN task, Knows(p, task[p]),
           NEW i \in Left(p), RowIs(p, i), UnitCounted(p, i)
    PROVE  GoodStep(p)
<1> DEFINE units == "snStackingConfigUnitPriority"
<1>1. /\ p \in {StackPlugin, TopologyPlugin} /\ StackPlugin # TopologyPlugin
      /\ task[p].at = "walk" /\ Shape(At(p, i)) /\ At(p, i).at = "walk" /\ At(p, i).row = i
      /\ At(p, i).table = task[p].table
  BY RowAt DEF UnitCounted, StackPlugin, TopologyPlugin
<1>2. Counted(task[p]) /\ (p = StackPlugin => IsStack)
  BY <1>1 DEF Knows, StackKnows, TopologyKnows
<1>3. /\ task[p].table = units /\ IsSeq(task[p].mem)
      /\ IsFiniteSet(Passed(task[p].row)) /\ Cardinality(Passed(task[p].row)) = Len(task[p].mem)
  BY <1>2 DEF Counted
<1>4. task[p].row \in Oid /\ Rows(units) = DOMAIN Column(units) /\ i \in DOMAIN Column(units)
  <2>1. Shape(task[p])
    BY DEF IInv, GoodTask
  <2>2. << >> \in Oid
    BY DEF Oid
  <2> QED BY <1>3, <2>1, <2>2, ColumnsAre, RowAt DEF Shape, IInv, Rows
<1>5. Passed(i) = Passed(task[p].row) \cup {i} /\ i \notin Passed(task[p].row)
  <2>1. \A j \in DOMAIN Column(units) : ~ (i \prec j) <=> (j = i \/ ~ (task[p].row \prec j))
    BY <1>3, <1>4, PassedIs DEF IInv
  <2>2. task[p].row \prec i
    BY DEF Left
  <2> QED BY <1>4, <2>1, <2>2 DEF Passed
<1>6. IsFiniteSet(Passed(i)) /\ Cardinality(Passed(i)) = Cardinality(Passed(task[p].row)) + 1
  BY <1>3, <1>5, FS_AddElement
<1>7. PICK m, u : m = Append(task[p].mem, i) /\ u = Remembers(At(p, i), m)
  OBVIOUS
<1>8. /\ u.at = "walk" /\ u.row = i /\ u.table = units
      /\ u.mem = Append(task[p].mem, i)
  <2>1. u.mem = m /\ u.at = "walk"
    BY <1>1, <1>7 DEF Remembers, Shape
  <2>2. u.row = i /\ u.table = units
    BY <1>1, <1>3, <1>7, PlacesKept
  <2> QED BY <1>7, <2>1, <2>2
<1>9. Counted(u)
  <2>1. IsSeq(u.mem) /\ Len(u.mem) = Len(task[p].mem) + 1
    BY <1>3, <1>8, AppendIs
  <2> QED BY <1>3, <1>6, <1>8, <2>1 DEF Counted
<1>10. Knows(p, u)
  <2>1. p = StackPlugin => StackKnows(u)
    BY <1>2, <1>8, <1>9 DEF StackKnows
  <2>2. p = TopologyPlugin => TopologyKnows(u)
    BY <1>8, <1>9 DEF TopologyKnows
  <2> QED BY <1>1, <2>1, <2>2, KnowsOne
<1>11. Goes(p, u) /\ Quiet
  BY <1>7 DEF UnitCounted, Goes
<1> QED BY <1>8, <1>10, <1>11, SaysNothing

LEMMA UnitSays ==
    ASSUME IInv, RInv, device' = device, NEW p \in DOMAIN task, Knows(p, task[p]),
           NEW i \in Left(p), RowIs(p, i), UnitStateRow(p, i)
    PROVE  GoodStep(p)
<1>1. /\ p = UnitStatePlugin /\ p \in RowTellers /\ p \notin WholeTellers
      /\ p \notin FanPlugins \cup PsuPlugins \cup CiscoPlugins
      /\ p \notin {DhcpPlugin, AnyPlugin, VersionsPlugin}
  BY TableKinds DEF UnitStateRow, UnitStatePlugin, RowTellers, DhcpPlugin, VersionsPlugin, AnyPlugin
<1>2. /\ task[p].at = "walk" /\ i \in DOMAIN Column(task[p].table) /\ Shape(At(p, i))
      /\ At(p, i).at = "walk"
  BY RowAt
<1>3. task[p].table = Table[UnitStatePlugin]
  BY <1>1, <1>2 DEF RInv, UnitGood
<1>4. UnitKnows(task[p]) /\ GoodTask(p, task[p])
  BY <1>1 DEF Knows, IInv
<1>5. PICK new : new = IF Val(p, i) \in DOMAIN UnitStates THEN << UnitStates[Val(p, i)], i >>
                       ELSE task[p].mem
  OBVIOUS
<1>6. IF new = << >>
      THEN Alerts(p, << >>, << "CRITICAL" >>) /\ Becomes(p, [Idle EXCEPT !.at = "failed"])
      ELSE Alerts(p, new[2], << new[1] >>) /\ Becomes(p, Remembers(At(p, i), new))
  BY <1>5 DEF UnitStateRow
<1>7. CASE new = << >>
  <2>1. PICK u : u = [Idle EXCEPT !.at = "failed"]
    OBVIOUS
  <2>2. u.at = "failed" /\ Knows(p, u) /\ "CRITICAL" \in States4
    BY <1>1, <2>1, KnowsLast DEF Idle, States4
  <2>3. Alerts(p, << >>, << "CRITICAL" >>) /\ Goes(p, u) /\ Failed(p, << >>, "CRITICAL", u)
    BY <1>6, <1>7, <2>1, <2>2 DEF Goes, Failed
  <2> QED BY <1>1, <2>2, <2>3, SaysOne
<1>8. CASE new # << >>
  <2>1. new[1] \in States4 /\ new[2] \in UnitRows /\ new[1] = RowVerdict(p, new[2])
    <3>1. CASE Val(p, i) \in DOMAIN UnitStates
      <4>1. new = << UnitStates[Val(p, i)], i >> /\ Val(p, i) = Column(Table[UnitStatePlugin])[i]
        BY <1>3, <1>5, <3>1 DEF Val
      <4>2. Val(p, i) \in 1 .. 4
        BY <3>1 DEF UnitStates
      <4>3. i \in UnitRows
        BY <1>2, <1>3, <4>1, <4>2 DEF UnitRows
      <4>4. RowVerdict(p, i) = UnitStates[Val(p, i)]
        BY <1>1, <4>1 DEF RowVerdict
      <4>5. UnitStates[Val(p, i)] \in States4
        BY <3>1, StateTables
      <4> QED BY <4>1, <4>3, <4>4, <4>5
    <3>2. CASE Val(p, i) \notin DOMAIN UnitStates
      <4>1. new = task[p].mem
        BY <1>5, <3>2
      <4> QED BY <1>1, <1>4, <1>8, <4>1 DEF UnitKnows, GoodTask
    <3> QED BY <3>1, <3>2
  <2>2. Sayable(p, new[2], new[1])
    BY <1>1, <2>1 DEF Sayable, UnitRows
  <2>3. PICK u : u = Remembers(At(p, i), new)
    OBVIOUS
  <2>4. u.at = "walk" /\ u.mem = new
    BY <1>2, <2>3, Fields
  <2>5. UnitKnows(u)
    BY <1>1, <2>1, <2>4 DEF UnitKnows
  <2>6. Knows(p, u) /\ Goes(p, u) /\ Alerts(p, new[2], << new[1] >>)
    BY <1>1, <1>6, <1>8, <2>3, <2>5, KnowsOne DEF Goes
  <2> QED BY <1>1, <2>1, <2>2, <2>4, <2>6, SaysOne
<1> QED BY <1>7, <1>8

\* A unit's version is kept with those of the rows before.
LEMMA CollectSays ==
    ASSUME IInv, device' = device, NEW p \in DOMAIN task, Knows(p, task[p]),
           NEW i \in Left(p), RowIs(p, i), UnitVersionRow(p, i)
    PROVE  GoodStep(p)
<1>1. /\ p = VersionsPlugin /\ p \notin WholeTellers /\ Quiet
      /\ task[p].at = "walk" /\ Shape(At(p, i)) /\ At(p, i).at = "walk" /\ At(p, i).row = i
      /\ At(p, i).table = task[p].table
  BY RowAt, TableKinds DEF UnitVersionRow, VersionsPlugin
<1>2. PICK o, old, rows : o = task[p].table /\ old = task[p].mem /\ rows = Past(o, task[p].row)
  OBVIOUS
<1>3. /\ VersionsKnow(task[p]) /\ o \in {Images, Builds}
      /\ IsFiniteSet(rows) /\ DOMAIN old = {Head(j) : j \in rows}
      /\ \A u \in DOMAIN old : \E j \in rows : Head(j) = u /\ old[u] = Column(o)[j]
  BY <1>1, <1>2 DEF Knows, VersionsKnow, Collected
<1>4. task[p].row \in Oid /\ Rows(o) = DOMAIN Column(o) /\ i \in DOMAIN Column(o)
  <2>1. Shape(task[p])
    BY DEF IInv, GoodTask
  <2>2. << >> \in Oid
    BY DEF Oid
  <2>3. o # "snVLanByPortMemberTagMode"
    BY <1>3 DEF Images, Builds
  <2> QED BY <1>2, <2>1, <2>2, <2>3, ColumnsAre, RowAt DEF Shape, IInv, Rows
<1>5. Past(o, i) = rows \cup {i} /\ i \in Past(o, i)
  <2>1. \A j \in DOMAIN Column(o) : ~ (i \prec j) <=> (j = i \/ ~ (task[p].row \prec j))
    BY <1>2, <1>4, PassedIs DEF IInv
  <2> QED BY <1>2, <1>4, <2>1 DEF Past
<1>6. PICK new : new = [u \in DOMAIN old \cup {Head(i)} |->
                           IF u = Head(i) THEN Column(o)[i] ELSE old[u]]
  OBVIOUS
<1>7. PICK t : t = Remembers(At(p, i), new)
  OBVIOUS
<1>8. t.at = "walk" /\ t.row = i /\ t.table = o /\ t.mem = new
  BY <1>1, <1>2, <1>7, Fields, PlacesKept
<1>9. Collected(t)
  <2>1. IsFiniteSet(Past(o, i))
    BY <1>3, <1>5, FS_AddElement
  <2>2. DOMAIN new = {Head(j) : j \in Past(o, i)}
    BY <1>3, <1>5, <1>6
  <2>3. ASSUME NEW u \in DOMAIN new
        PROVE  \E j \in Past(o, i) : Head(j) = u /\ new[u] = Column(o)[j]
    <3>1. CASE u = Head(i)
      BY <1>5, <1>6, <3>1
    <3>2. CASE u # Head(i)
      <4>1. u \in DOMAIN old /\ new[u] = old[u]
        BY <1>6, <3>2
      <4> QED BY <1>3, <1>5, <4>1
    <3> QED BY <3>1, <3>2
  <2> QED BY <1>5, <1>8, <2>1, <2>2, <2>3 DEF Collected
<1>10. Knows(p, t)
  <2>1. VersionsKnow(t)
    BY <1>1, <1>2, <1>3, <1>8, <1>9 DEF VersionsKnow
  <2> QED BY <1>1, <2>1, KnowsOne
<1>11. Goes(p, t)
  BY <1>2, <1>6, <1>7 DEF UnitVersionRow, Goes, Val
<1> QED BY <1>1, <1>8, <1>10, <1>11, SaysNothing

\* The temperature of a unit is kept while its limits are asked for.
LEMMA UnitActualSays ==
    ASSUME IInv, device' = device, NEW p \in DOMAIN task, Knows(p, task[p]),
           NEW i \in Left(p), RowIs(p, i), UnitActual(p, i)
    PROVE  GoodStep(p)
<1> DEFINE heats == "snChasUnitActualTemp"
           warns == "snChasUnitWarningTem"
<1>1. /\ p = UnitHeatPlugin /\ p \notin WholeTellers /\ Quiet /\ Detail[p] = warns
      /\ task[p].at = "walk" /\ i \in DOMAIN Column(task[p].table)
      /\ Shape(At(p, i)) /\ At(p, i).row = i /\ At(p, i).table = task[p].table
  BY RowAt, TableKinds DEF UnitActual, UnitHeatPlugin, Detail
<1>2. task[p].table = heats
  BY <1>1 DEF Knows, UnitHeatKnows
<1>3. PICK v : v = UnitHeat(i) /\ v = Val(p, i)
  BY <1>2 DEF UnitHeat, Val
<1>4. PICK t : t = Remembers(At(p, i), << v >>)
  OBVIOUS
<1>5. Shape(t) /\ t.mem = << v >> /\ t.row = i /\ t.table = heats
  BY <1>1, <1>2, <1>4, Shapes, Fields, PlacesKept
<1>6. PICK u : u = Gets(t, warns, << Last(i) >>)
  OBVIOUS
<1>7. /\ u.at = "get" /\ u.mem = << v >> /\ u.row = i /\ u.table = heats
      /\ u.obj = warns /\ u.tail = << Last(i) >>
  BY <1>5, <1>6 DEF Gets, Shape
<1>8. UnitHeatKnows(u)
  <2>1. u.mem[1] = UnitHeat(u.row) /\ u.row \in DOMAIN Column(heats) /\ u.tail = << Last(u.row) >>
    <3>1. PICK m : m = u.mem
      OBVIOUS
    <3>2. m[1] = v
      BY <1>7, <3>1
    <3> QED BY <1>1, <1>2, <1>3, <1>7, <3>1, <3>2
  <2> QED BY <1>7, <2>1 DEF UnitHeatKnows
<1>9. Knows(p, u)
  BY <1>1, <1>8, KnowsOne
<1>10. Goes(p, u)
  BY <1>1, <1>3, <1>4, <1>6 DEF UnitActual, Goes
<1> QED BY <1>1, <1>7, <1>9, <1>10, SaysNothing

LEMMA PortSays ==
    ASSUME IInv, device' = device, NEW p \in DOMAIN task, NEW i \in Left(p), RowIs(p, i),
           PortSeen(p, i)
    PROVE  GoodStep(p)
<1>1. p = "detect" /\ p \notin Knowing /\ p \notin WholeTellers
      /\ p \notin {"brocade_dhcp_snooping_plugin"} /\ Quiet
  BY TableKinds DEF PortSeen
<1>2. At(p, i).at = "walk" /\ Shape(task[p])
  BY RowAt DEF IInv, GoodTask
<1>3. AskAgain(task[p]).at = "get"
  BY <1>2, Shapes, Fields DEF AskAgain
<1>4. PICK u : Goes(p, u) /\ u.at \in {"walk", "get"}
  BY <1>1, <1>2, <1>3 DEF PortSeen, Goes
<1>5. Knows(p, u)
  BY <1>1, KnowsOne
<1> QED BY <1>1, <1>4, <1>5, SaysNothing

LEMMA RowSays ==
    ASSUME IInv, RInv, device' = device, NEW p \in DOMAIN task, Knows(p, task[p]), RowStep(p)
    PROVE  GoodStep(p)
<1>1. PICK i \in Left(p) :
        /\ RowIs(p, i)
        /\ \/ FanRow(p, i)     \/ PsuRow(p, i)      \/ LoadRow(p, i)   \/ CiscoRow(p, i)
           \/ MemRow(p, i)     \/ SensorRow(p, i)   \/ UnitActual(p, i)
           \/ UnitCounted(p, i) \/ UnitStateRow(p, i) \/ UnitVersionRow(p, i)
           \/ PortSeen(p, i)
  BY DEF RowStep
<1> QED BY <1>1, FanSays, PsuSays, LoadSays, CiscoSays, KeepSays, SensorSays, CountSays,
           UnitSays, CollectSays, UnitActualSays, PortSays

LEMMA KnowsThen ==
    ASSUME NEW t
    PROVE  /\ VersionsKnow(t)' => Knows(VersionsPlugin, t)'
           /\ DhcpKnows(t)' => Knows(DhcpPlugin, t)'
BY DEF Knows, DhcpPlugin, PsuPlugins, CiscoPlugins, UnitStatePlugin, ChassisPlugin, UptimePlugin,
       VersionPlugin, StackPlugin, TopologyPlugin, VersionsPlugin, UnitHeatPlugin, AnyPlugin

\* The versions of all rows are equal, or the rows are mixed.
LEMMA VersionsAre ==
    ASSUME NEW t, Collected(t), Past(t.table, t.row) = DOMAIN Column(t.table)
    PROVE  /\ t.mem = << >> <=> DOMAIN Column(t.table) = {}
           /\ t.mem # << >> /\ VersionsState(t.mem) = "WARNING" => Mixed(t.table)
           /\ ByUnit(t.table) /\ Mixed(t.table) => VersionsState(t.mem) = "WARNING"
<1> DEFINE o    == t.table
           rows == DOMAIN Column(o)
           told == Range(t.mem)
<1>1. /\ IsFiniteSet(rows) /\ DOMAIN t.mem = {Head(i) : i \in rows}
      /\ rows = {} => t.mem = << >>
      /\ \A u \in DOMAIN t.mem : \E i \in rows : Head(i) = u /\ t.mem[u] = Column(o)[i]
  BY DEF Collected
<1>2. t.mem = << >> => rows = {}
  <2>1. DOMAIN << >> = {}
    OBVIOUS
  <2>2. ASSUME t.mem = << >>, NEW i \in rows PROVE FALSE
    <3>1. Head(i) \in DOMAIN t.mem
      BY <1>1
    <3> QED BY <2>1, <2>2, <3>1
  <2> QED BY <2>2
<1>3. told \subseteq Vals(o)
  BY <1>1 DEF Range, Vals
<1>4. IsFiniteSet(Vals(o))
  <2>1. PICK f : f = [i \in rows |-> Column(o)[i]]
    OBVIOUS
  <2>2. f \in Surjection(rows, Vals(o))
    BY <2>1 DEF Surjection, Vals
  <2> QED BY <1>1, <2>2, FS_Surjection
<1>5. ASSUME t.mem # << >>, VersionsState(t.mem) = "WARNING" PROVE Mixed(o)
  <2>1. PICK i \in rows : TRUE
    BY <1>1, <1>5
  <2>2. t.mem[Head(i)] \in told
    BY <1>1 DEF Range
  <2>3. Cardinality(told) # 1
    BY <1>5 DEF VersionsState
  <2>4. IsFiniteSet(told) /\ Cardinality(told) \in Nat /\ Cardinality(Vals(o)) \in Nat
        /\ Cardinality(told) <= Cardinality(Vals(o))
    BY <1>3, <1>4, FS_Subset, FS_CardinalityType
  <2>5. Cardinality(told) # 0
    BY <2>2, <2>4, FS_EmptySet
  <2> QED BY <2>3, <2>4, <2>5 DEF Mixed
<1>6. ASSUME ByUnit(o), Mixed(o) PROVE VersionsState(t.mem) = "WARNING"
  <2>1. ASSUME NEW i \in rows PROVE Column(o)[i] \in told
    <3>1. PICK j \in rows : Head(j) = Head(i) /\ t.mem[Head(i)] = Column(o)[j]
      BY <1>1
    <3>2. j = i
      BY <1>6, <3>1 DEF ByUnit
    <3> QED BY <1>1, <3>1, <3>2 DEF Range
  <2>2. told = Vals(o)
    BY <1>3, <2>1 DEF Vals
  <2>3. Cardinality(told) > 1 /\ Cardinality(told) \in Nat
    BY <1>4, <1>6, <2>2, FS_CardinalityType DEF Mixed
  <2> QED BY <2>3 DEF VersionsState
<1> QED BY <1>1, <1>2, <1>5, <1>6

LEMMA VersionsSay ==
    ASSUME IInv, device' = device, NEW p \in DOMAIN task, Knows(p, task[p]), EndStep(p),
           UnitVersionsEnd(p)
    PROVE  GoodStep(p)
<1> DEFINE t  == task[p]
           o  == t.table
           st == VersionsState(t.mem)
<1>1. Shape(t) /\ t.at = "walk" /\ Left(p) = {}
  BY DEF IInv, GoodTask, EndStep, RowsEnd
<1>2. /\ p = VersionsPlugin /\ p \notin WholeTellers
      /\ p \notin RowTellers /\ Table[p] = Images /\ Images # Builds
  BY TableKinds DEF UnitVersionsEnd, VersionsPlugin, Table, Images, Builds
<1>3. /\ o \in {Images, Builds} /\ Collected(t)
      /\ o = Builds => Vals(Images) # {}
      /\ o = Builds /\ Stacked /\ Mixed(Images) => alerts["WARNING"] # << >>
  BY <1>1, <1>2 DEF Knows, VersionsKnow
<1>4. Past(o, t.row) = DOMAIN Column(o)
  <2>1. Rows(o) = DOMAIN Column(o)
    BY <1>3 DEF Rows, Images, Builds
  <2> QED BY <1>1, <2>1 DEF Left, Past
<1>5. /\ t.mem = << >> <=> DOMAIN Column(o) = {}
      /\ t.mem # << >> /\ st = "WARNING" => Mixed(o)
      /\ ByUnit(o) /\ Mixed(o) => st = "WARNING"
  BY <1>3, <1>4, VersionsAre
<1>v. t.mem # << >> <=> Vals(o) # {}
  BY <1>5 DEF Vals
<1>6. st \in {"OK", "WARNING"} /\ {"OK", "WARNING"} \subseteq States4
  BY DEF VersionsState, States4
<1>7. /\ \A q : (Mixed(q)' <=> Mixed(q)) /\ (ByUnit(q)' <=> ByUnit(q))
      /\ \A q : Column(q)' = Column(q)
  BY SameVerdicts
<1>8. (Stacked' <=> Stacked) /\ (Differ' <=> Differ) /\ Vals(Images)' = Vals(Images)
  BY <1>7 DEF Stacked, Differ, Vals
<1>9. Done.at = "done"
  BY DEF Done, Idle
<1>10. CASE t.mem = << >>
  <2>1. Quiet /\ Goes(p, Done)
    BY <1>10 DEF UnitVersionsEnd, Goes
  <2>2. ~ Mixed(o)
    <3>1. Vals(o) = {}
      BY <1>5, <1>10 DEF Vals
    <3> QED BY <3>1, FS_EmptySet DEF Mixed
  <2>3. o = Images => ~ Differ
    BY <1>v, <1>10, <2>2 DEF Differ
  <2>4. VersionsKnow(Done)
    BY <1>3, <1>9, <2>2, <2>3 DEF VersionsKnow, Differ
  <2>5. Knows(p, Done)
    BY <1>2, <2>4, KnowsOne
  <2> QED BY <1>2, <1>9, <2>1, <2>5, SaysNothing
<1>11. CASE t.mem # << >>
  <2>1. Alerts(p, << >>, << st >>)
    BY <1>11 DEF UnitVersionsEnd
  <2>2. Sayable(p, << >>, st)
    BY <1>2, <1>3, <1>v, <1>5, <1>6, <1>11 DEF Sayable, Differ
  <2>3. /\ alerts["WARNING"] # << >> => alerts'["WARNING"] # << >>
        /\ st = "WARNING" => alerts'["WARNING"] # << >>
    <3>1. NewAlerts(p, << >>, {st})
      BY <1>6, <2>1, TellsThese
    <3> QED BY <1>6, <3>1 DEF NewAlerts, NoneLost
  <2>4. CASE o = Images
    <3>1. PICK u : u = Remembers(Walks(t, Builds), << >>)
      OBVIOUS
    <3>2. /\ u.at = "walk" /\ u.mem = << >> /\ u.row = << >> /\ u.table = Builds
      BY <1>1, <3>1 DEF Remembers, Walks, Shape
    <3>3. Collected(u)'
      <4>1. device \in Cases
        BY DEF IInv
      <4>2. Collected(u)
        BY <3>2, <4>1, NonePast
      <4>3. Past(u.table, u.row)' = Past(u.table, u.row)
        BY <1>7 DEF Past
      <4>4. PICK c, rows : c = Column(u.table) /\ rows = Past(u.table, u.row)
        OBVIOUS
      <4>5. /\ Column(u.table)' = c
            /\ Past(u.table, u.row)' = rows
        BY <1>7, <4>3, <4>4
      <4>6. /\ IsFiniteSet(rows)
            /\ DOMAIN u.mem = {Head(i) : i \in rows}
            /\ rows = {} => u.mem = << >>
            /\ \A v \in DOMAIN u.mem : \E i \in rows : Head(i) = v /\ u.mem[v] = c[i]
        BY <4>2, <4>4 DEF Collected
      <4> QED BY <4>5, <4>6 DEF Collected
    <3>4. VersionsKnow(u)'
      BY <1>v, <1>5, <1>7, <1>8, <1>11, <2>3, <2>4, <3>2, <3>3 DEF VersionsKnow, Stacked
    <3>5. Knows(p, u)'
      BY <1>2, <3>4, KnowsThen
    <3>6. Goes(p, u)
      BY <1>2, <1>11, <2>4, <3>1 DEF UnitVersionsEnd, Goes, Builds
    <3> QED BY <1>2, <1>6, <2>1, <2>2, <3>2, <3>5, <3>6, SaysOne
  <2>5. CASE o = Builds
    <3>1. VersionsKnow(Done)'
      BY <1>3, <1>5, <1>7, <1>8, <1>9, <2>3, <2>5 DEF VersionsKnow, Stacked, Differ
    <3>2. Knows(p, Done)'
      BY <1>2, <3>1, KnowsThen
    <3>3. Goes(p, Done)
      BY <1>2, <1>11, <2>5 DEF UnitVersionsEnd, Goes
    <3> QED BY <1>2, <1>6, <1>9, <2>1, <2>2, <3>2, <3>3, SaysOne
  <2> QED BY <1>3, <2>4, <2>5
<1> QED BY <1>10, <1>11

\* Steps at the end of tables:
LEMMA EndSays ==
    ASSUME IInv, device' = device, NEW p \in DOMAIN task, Knows(p, task[p]), EndStep(p)
    PROVE  GoodStep(p)
<1>0. Shape(task[p]) /\ task[p].at = "walk" /\ Left(p) = {}
  BY DEF IInv, GoodTask, EndStep, RowsEnd
<1>1. Done.at = "done"
  BY DEF Done, Idle
<1>2. CASE TableEnds(p)
  <2>1. p \notin {DhcpPlugin, AnyPlugin, VersionsPlugin} /\ p \notin WholeTellers
    BY <1>2 DEF TableEnds, FanPlugins, PsuPlugins, LoadPlugins, CiscoPlugins, DhcpPlugin,
                VersionsPlugin, AnyPlugin, WholeTellers, StackPlugin, TopologyPlugin,
                UptimePlugin, ChassisPlugin
  <2>2. Knows(p, Done) /\ Goes(p, Done) /\ Quiet
    BY <1>2, <2>1, KnowsLast DEF TableEnds, Goes
  <2> QED BY <1>1, <2>1, <2>2, SaysNothing
<1>3. CASE StackCounted(p) \/ TopologyCounted(p)
  <2>1. p \in {StackPlugin, TopologyPlugin} /\ StackPlugin # TopologyPlugin
        /\ p \notin {DhcpPlugin, AnyPlugin, VersionsPlugin} /\ p \in WholeTellers
    BY <1>3 DEF StackCounted, TopologyCounted, StackPlugin, TopologyPlugin, DhcpPlugin,
                VersionsPlugin, AnyPlugin, WholeTellers
  <2>2. Counted(task[p]) /\ (p = StackPlugin => IsStack)
    BY <1>0, <2>1 DEF Knows, StackKnows, TopologyKnows
  <2>3. Units = Len(task[p].mem) /\ Units \in Nat
    <3>1. Passed(task[p].row) = DOMAIN Column("snStackingConfigUnitPriority")
      BY <1>0, <2>2 DEF Left, Rows, Counted, Passed
    <3>2. Len(task[p].mem) = Units
      BY <2>2, <3>1 DEF Counted, Units
    <3> QED BY <2>2, <3>2 DEF Counted, IsSeq
  <2>4. CASE StackCounted(p)
    <3>1. p = StackPlugin
      BY <2>4 DEF StackCounted, StackPlugin
    <3>2. PICK st : st = IF Len(task[p].mem) <= 1 THEN "CRITICAL" ELSE "OK"
      OBVIOUS
    <3>3. st \in States4 /\ st = WholeVerdict(p)
      BY <2>2, <2>3, <3>1, <3>2 DEF WholeVerdict, States4
    <3>4. WholeKnown(p)
      BY <2>1, <2>3, <3>1 DEF WholeKnown, StackPlugin, TopologyPlugin, UptimePlugin
    <3>5. Sayable(p, << >>, st)
      BY <2>1, <3>3, <3>4 DEF Sayable
    <3>6. Alerts(p, << >>, << st >>) /\ Goes(p, Done) /\ Knows(p, Done)
      BY <2>1, <2>4, <3>2, KnowsLast DEF StackCounted, Goes
    <3> QED BY <1>1, <3>3, <3>5, <3>6, SaysOne
  <2>5. CASE TopologyCounted(p)
    <3>1. p = TopologyPlugin
      BY <2>5 DEF TopologyCounted, TopologyPlugin
    <3>2. PICK u : u = Gets(task[p], "snStackingGlobalTopology", Scalar)
      OBVIOUS
    <3>3. /\ u.at = "get" /\ u.obj = "snStackingGlobalTopology" /\ u.tail = Scalar
          /\ u.mem = task[p].mem
      BY <1>0, <3>2 DEF Gets, Shape
    <3>4. TopologyKnows(u)
      BY <2>3, <3>3 DEF TopologyKnows
    <3>5. Knows(p, u) /\ Goes(p, u) /\ Quiet
      BY <2>5, <3>1, <3>2, <3>4, KnowsOne DEF TopologyCounted, Goes
    <3> QED BY <3>3, <3>5, SaysNothing
  <2> QED BY <1>3, <2>4, <2>5
<1>4. CASE UnitVersionsEnd(p)
  BY <1>4, VersionsSay
<1>5. CASE PortsSeen(p)
  <2>1. p \notin Knowing /\ p \notin WholeTellers /\ Quiet
    BY <1>5, TableKinds DEF PortsSeen
  <2>2. AskAgain(task[p]).at = "get" /\ Goes(p, AskAgain(task[p]))
    BY <1>0, <1>5, Shapes, Fields DEF AskAgain, PortsSeen, Goes
  <2>3. Knows(p, AskAgain(task[p]))
    BY <2>1, KnowsOne
  <2> QED BY <2>1, <2>2, <2>3, SaysNothing
<1> QED BY <1>2, <1>3, <1>4, <1>5 DEF EndStep

\* Steps on the answers to gets:
LEMMA GetAt ==
    ASSUME IInv, NEW p \in DOMAIN task, NEW obj, Gives(p, obj)
    PROVE  /\ task[p].at = "get" /\ task[p].obj = obj /\ Shape(task[p])
           /\ task[p].tail \in DOMAIN Column(obj) /\ Got(p) = Column(obj)[task[p].tail]
           /\ GoesOn(task[p]).at = "walk" /\ Done.at = "done" /\ Done.mem = << >>
<1>1. task[p].at = "get" /\ task[p].obj = obj /\ Shape(task[p])
  BY DEF IInv, GoodTask, Gives, Awaits
<1>2. task[p].tail \in DOMAIN Column(obj) /\ Got(p) = Column(obj)[task[p].tail]
  BY <1>1 DEF Gives, There, Got
<1>3. GoesOn(task[p]).at = "walk"
  BY <1>1, Fields
<1>4. Done.at = "done" /\ Done.mem = << >>
  BY DEF Done, Idle
<1> QED BY <1>1, <1>2, <1>3, <1>4

LEMMA DescribedSays ==
    ASSUME IInv, RInv, device' = device, NEW p \in DOMAIN task, Knows(p, task[p]),
           PsuDescribed(p) \/ CiscoNamed(p)
    PROVE  GoodStep(p)
<1> DEFINE i == task[p].row
           u == GoesOn(task[p])
<1>1. /\ p \in PsuPlugins \cup CiscoPlugins /\ p \in TellsRows /\ p \in RowTellers
      /\ p # UnitStatePlugin /\ p \notin FanPlugins /\ p \notin WholeTellers
      /\ Gives(p, Detail[p]) /\ Goes(p, u)
  BY TableKinds DEF PsuDescribed, CiscoNamed, RowTellers, Goes
<1>2. /\ task[p].at = "get" /\ u.at = "walk" /\ task[p].tail \in DOMAIN Column(Detail[p])
      /\ Got(p) = Column(Detail[p])[task[p].tail]
  BY <1>1, GetAt
<1>3. i \in DOMAIN Column(Table[p])
  BY <1>1, <1>2 DEF RInv, RowGood, RowsToTell
<1>4. SupplyKnows(p, u) /\ NameKnows(p, u)
  BY <1>2 DEF SupplyKnows, NameKnows
<1>5. Knows(p, u)
  BY <1>1, <1>4, KnowsOne
<1>6. CASE PsuDescribed(p)
  <2>1. p \in PsuPlugins
    BY <1>6 DEF PsuDescribed
  <2>2. task[p].tail = PsuIndex(p, i) /\ Column(Table[p])[i] = 3
    BY <1>2, <2>1 DEF Knows, SupplyKnows
  <2>3. PICK st : st = IF Got(p) = "not present" THEN "OK" ELSE "CRITICAL"
    OBVIOUS
  <2>4. st \in States4 /\ st = RowVerdict(p, i)
    <3>1. st \in States4
      BY <2>3 DEF States4
    <3>2. PsuState(3) = "CRITICAL"
      BY DEF PsuState
    <3>3. /\ Got(p) = Column(Detail[p])[PsuIndex(p, i)]
          /\ PsuIndex(p, i) \in DOMAIN Column(Detail[p])
      BY <1>2, <2>2
    <3>4. CASE Got(p) = "not present"
      <4> HIDE DEF i, u
      <4> QED BY <1>1, <2>1, <2>2, <2>3, <3>1, <3>3, <3>4 DEF RowVerdict
    <3>5. CASE Got(p) # "not present"
      <4> HIDE DEF i, u
      <4> QED BY <1>1, <2>1, <2>2, <2>3, <3>1, <3>2, <3>3, <3>5 DEF RowVerdict
    <3> QED BY <3>4, <3>5
  <2>5. Sayable(p, i, st)
    BY <1>1, <1>3, <2>4 DEF Sayable
  <2>6. Alerts(p, i, << st >>)
    BY <1>6, <2>3 DEF PsuDescribed
  <2> HIDE DEF u, i
  <2> QED BY <1>1, <1>2, <1>5, <2>4, <2>5, <2>6, SaysOne
<1>7. CASE CiscoNamed(p)
  <2>1. p \in CiscoPlugins /\ p \notin PsuPlugins
    BY <1>7, TableKinds DEF CiscoNamed
  <2>2. task[p].mem[1] = Column(Table[p])[i]
    BY <1>2, <2>1 DEF Knows, NameKnows
  <2>3. PICK st : st = cisco_state(task[p].mem[1])
    OBVIOUS
  <2>4. st \in States4 /\ st = RowVerdict(p, i)
    BY <1>1, <2>1, <2>2, <2>3, StateTables DEF RowVerdict
  <2>5. Sayable(p, i, st)
    BY <1>1, <1>3, <2>4 DEF Sayable
  <2>6. Alerts(p, i, << st >>)
    BY <1>7, <2>3 DEF CiscoNamed
  <2> HIDE DEF u, i
  <2> QED BY <1>1, <1>2, <1>5, <2>4, <2>5, <2>6, SaysOne
<1> QED BY <1>6, <1>7

LEMMA MemorySays ==
    ASSUME IInv, device' = device, NEW p \in DOMAIN task,
           CiscoMemUsed(p) \/ MemGiven(p) \/ DynMemTotal(p) \/ DynMemFree(p)
    PROVE  GoodStep(p)
<1>1. p \notin Knowing /\ p \notin RowTellers \cup WholeTellers
  BY TableKinds DEF CiscoMemUsed, MemGiven, DynMemTotal, DynMemFree
<1>2. \A u : Knows(p, u) /\ (Becomes(p, u) => Goes(p, u))
  BY <1>1, KnowsOne DEF Goes
<1>3. CASE CiscoMemUsed(p) \/ DynMemTotal(p)
  <2>1. Shape(task[p]) /\ Quiet
    BY <1>3 DEF IInv, GoodTask, CiscoMemUsed, DynMemTotal
  <2>2. PICK u : Becomes(p, u) /\ u.at = "get"
    BY <1>3, <2>1, Shapes, Fields DEF CiscoMemUsed, DynMemTotal
  <2> QED BY <1>1, <1>2, <2>1, <2>2, SaysNothing
<1>4. CASE MemGiven(p) \/ DynMemFree(p)
  <2>1. PICK u : Becomes(p, u) /\ u.at \in {"walk", "done"}
    BY <1>4, GetAt DEF MemGiven, DynMemFree
  <2>2. PICK i, v : Metric(p, i, Measured(v, NoRange, NoRange))
    BY <1>4 DEF MemGiven, DynMemFree
  <2>3. Sayable(p, i, Judge(v, NoRange, NoRange))
    BY <1>1, NoRangeIsOK, SayableOK
  <2> QED BY <1>1, <1>2, <2>1, <2>2, <2>3, SaysMetric
<1> QED BY <1>3, <1>4

\* The temperature of a unit.
LEMMA UnitHeatSays ==
    ASSUME IInv, device' = device, NEW p \in DOMAIN task, Knows(p, task[p]), p = UnitHeatPlugin,
           WarningTemperature(p) \/ ShutdownTemperature(p)
    PROVE  GoodStep(p)
<1> DEFINE warns == "snChasUnitWarningTem"
           shuts == "snChasUnitShutdownTemperature"
<1>1. /\ p = "brocade_unit_temperature_plugin" /\ p # "brocade_temperature_plugin"
      /\ p \notin WholeTellers /\ p \notin {DhcpPlugin, AnyPlugin, VersionsPlugin}
      /\ Shutdown[p] = shuts
  BY TableKinds DEF UnitHeatPlugin, DhcpPlugin, VersionsPlugin, AnyPlugin, Shutdown
<1>2. /\ WarningTemperature(p) => Gives(p, warns)
      /\ ShutdownTemperature(p) => Gives(p, shuts)
  BY <1>1 DEF WarningTemperature, ShutdownTemperature
<1>3. task[p].at = "get" /\ Shape(task[p]) /\ Done.at = "done" /\ GoesOn(task[p]).at = "walk"
  BY <1>2, GetAt
<1>4. PICK i, act : i = task[p].row /\ act = UnitHeat(i)
  OBVIOUS
<1>5. UnitHeatKnows(task[p])
  BY <1>1 DEF Knows, UnitHeatPlugin
<1>6. /\ task[p].table = "snChasUnitActualTemp" /\ i \in DOMAIN Column("snChasUnitActualTemp")
      /\ task[p].tail = << Last(i) >> /\ task[p].mem[1] = act
  BY <1>3, <1>4, <1>5 DEF UnitHeatKnows
<1>7. PICK warn, shut : warn = UnitLimit(warns, i) /\ shut = UnitLimit(shuts, i)
  OBVIOUS
<1>8. UnitHeatVerdict(i) = HeatVerdict(act, warn, shut)
  BY <1>4, <1>7 DEF UnitHeatVerdict
<1>9. \A st : UnitLimited(i) /\ st = HeatVerdict(act, warn, shut) => Sayable(p, i, st)
  BY <1>8 DEF Sayable
<1>10. CASE WarningTemperature(p)
  <2>1. << Last(i) >> \in DOMAIN Column(warns) /\ Got(p) = warn
    BY <1>2, <1>6, <1>7, <1>10, GetAt DEF UnitLimit
  <2>2. CASE act < warn
    <3>1. Metric(p, i, Measured(act, UpTo(warn), NoRange)) /\ Becomes(p, Done)
      BY <1>4, <1>6, <1>10, <2>1, <2>2 DEF WarningTemperature
    <3>2. Judge(act, UpTo(warn), NoRange) = HeatVerdict(act, warn, shut)
      BY <2>2 DEF HeatVerdict
    <3>3. UnitLimited(i)
      BY <1>4, <1>6, <1>7, <2>1, <2>2 DEF UnitLimited
    <3>4. Sayable(p, i, Judge(act, UpTo(warn), NoRange))
      BY <1>9, <3>2, <3>3
    <3>5. Knows(p, Done) /\ Goes(p, Done)
      BY <1>1, <3>1, KnowsLast DEF Goes
    <3> QED BY <1>1, <1>3, <3>1, <3>4, <3>5, SaysMetric
  <2>3. CASE ~ (act < warn)
    <3>1. PICK t : t = Remembers(task[p], << act, warn >>)
      OBVIOUS
    <3>2. /\ Shape(t) /\ t.mem = << act, warn >> /\ t.row = i
          /\ t.table = "snChasUnitActualTemp"
      BY <1>3, <1>4, <1>6, <3>1, Shapes, Fields, PlacesKept
    <3>3. PICK u : u = Gets(t, shuts, task[p].tail)
      OBVIOUS
    <3>4. /\ u.at = "get" /\ u.mem = << act, warn >> /\ u.row = i /\ u.obj = shuts
          /\ u.tail = << Last(i) >> /\ u.table = "snChasUnitActualTemp"
      BY <1>6, <3>2, <3>3 DEF Gets, Shape
    <3>5. UnitHeatKnows(u)
      BY <1>4, <1>6, <1>7, <2>1, <2>3, <3>4 DEF UnitHeatKnows
    <3>6. Knows(p, u)
      BY <3>5, KnowsOne
    <3>7. Goes(p, u) /\ Quiet
      BY <1>1, <1>6, <1>10, <2>1, <2>3, <3>1, <3>3 DEF WarningTemperature, Goes
    <3> QED BY <1>1, <3>4, <3>6, <3>7, SaysNothing
  <2> QED BY <2>2, <2>3
<1>11. CASE ShutdownTemperature(p)
  <2>1. << Last(i) >> \in DOMAIN Column(shuts) /\ Got(p) = shut /\ task[p].obj = shuts
    BY <1>2, <1>6, <1>7, <1>11, GetAt DEF UnitLimit
  <2>2. /\ << Last(i) >> \in DOMAIN Column(warns) /\ task[p].mem[2] = warn /\ ~ (act < warn)
    BY <1>3, <1>4, <1>5, <1>6, <1>7, <2>1 DEF UnitHeatKnows
  <2>3. PICK u : u = GoesOn(task[p])
    OBVIOUS
  <2>4. Metric(p, i, Measured(act, UpTo(warn), UpTo(shut))) /\ Becomes(p, u)
    BY <1>1, <1>4, <1>6, <1>11, <2>1, <2>2, <2>3 DEF ShutdownTemperature
  <2>5. Judge(act, UpTo(warn), UpTo(shut)) = HeatVerdict(act, warn, shut)
    BY <2>2 DEF HeatVerdict
  <2>6. UnitLimited(i)
    BY <1>6, <2>1, <2>2 DEF UnitLimited
  <2>7. Sayable(p, i, Judge(act, UpTo(warn), UpTo(shut)))
    BY <1>9, <2>5, <2>6
  <2>8. u.at = "walk" /\ u.table = "snChasUnitActualTemp"
    BY <1>3, <1>6, <2>3, PlacesKept
  <2>9. Knows(p, u) /\ Goes(p, u)
    <3>1. UnitHeatKnows(u)
      BY <2>8 DEF UnitHeatKnows
    <3> QED BY <2>4, <3>1, KnowsOne DEF Goes
  <2> QED BY <1>1, <2>4, <2>7, <2>8, <2>9, SaysMetric
<1> QED BY <1>10, <1>11

\* The temperature of the chassis.
LEMMA HeatSays ==
    ASSUME IInv, device' = device, NEW p \in DOMAIN task, Knows(p, task[p]), p = ChassisPlugin,
           ChassisActual(p) \/ WarningTemperature(p) \/ ShutdownTemperature(p)
    PROVE  GoodStep(p)
<1> DEFINE act == The("snChasActualTemperature")
           warn == The("snChasWarningTemperature")
           shut == The("snChasShutdownTemperature")
<1>1. /\ p = "brocade_temperature_plugin" /\ p # "brocade_unit_temperature_plugin"
      /\ p \in WholeTellers /\ p \notin {DhcpPlugin, AnyPlugin, VersionsPlugin}
      /\ p \notin {StackPlugin, TopologyPlugin, UptimePlugin}
      /\ Shutdown[p] = "snChasShutdownTemperature"
  BY DEF ChassisPlugin, WholeTellers, DhcpPlugin, VersionsPlugin, AnyPlugin, StackPlugin,
         TopologyPlugin, UptimePlugin, Shutdown
<1>2. /\ ChassisActual(p) => Gives(p, "snChasActualTemperature")
      /\ WarningTemperature(p) => Gives(p, "snChasWarningTemperature")
      /\ ShutdownTemperature(p) => Gives(p, "snChasShutdownTemperature")
  BY <1>1 DEF ChassisActual, WarningTemperature, ShutdownTemperature
<1>3. task[p].at = "get" /\ Shape(task[p]) /\ Done.at = "done"
  BY <1>2, GetAt
<1>4. /\ task[p].row = << >> /\ task[p].tail = Scalar
      /\ \/ task[p].obj = "snChasActualTemperature"
         \/ task[p].obj = "snChasWarningTemperature" /\ task[p].mem[1] = act
         \/ /\ task[p].obj = "snChasShutdownTemperature"
            /\ task[p].mem[1] = act /\ task[p].mem[2] = warn /\ ~ (act < warn)
  BY <1>3 DEF Knows, HeatKnows
<1>5. \A o : Gives(p, o) => task[p].obj = o /\ Got(p) = The(o)
  BY <1>4, GetAt DEF The
<1> DEFINE Verdict == HeatVerdict(act, warn, shut)
<1>6. WholeVerdict(p) = Verdict /\ WholeKnown(p)
  BY <1>1 DEF WholeVerdict, WholeKnown
<1>7. \A st : st = Verdict => Sayable(p, << >>, st)
  <2> HIDE DEF Verdict
  <2> QED BY <1>1, <1>6 DEF Sayable
<1>8. Knows(p, Done) /\ (Becomes(p, Done) => Goes(p, Done))
  BY <1>1, KnowsLast DEF Goes
<1>9. CASE ChassisActual(p)
  <2>1. PICK s : s = Remembers(task[p], << Got(p) >>)
    OBVIOUS
  <2>2. Shape(s) /\ s.mem = << act >> /\ s.row = << >>
    BY <1>2, <1>3, <1>4, <1>5, <1>9, <2>1, Shapes, Fields, PlacesKept
  <2>3. PICK u : u = Gets(s, "snChasWarningTemperature", Scalar)
    OBVIOUS
  <2>4. /\ u.at = "get" /\ u.mem = << act >> /\ u.row = << >> /\ u.tail = Scalar
        /\ u.obj = "snChasWarningTemperature"
    BY <2>2, <2>3 DEF Gets, Shape
  <2>5. HeatKnows(u)
    BY <2>4 DEF HeatKnows
  <2>6. Knows(p, u) /\ Goes(p, u) /\ Quiet
    BY <1>9, <2>1, <2>3, <2>5, KnowsOne DEF ChassisActual, Goes
  <2> QED BY <2>4, <2>6, SaysNothing
<1>10. CASE WarningTemperature(p)
  <2>1. Got(p) = warn /\ task[p].mem[1] = act
    BY <1>2, <1>4, <1>5, <1>10
  <2>2. CASE act < warn
    <3>1. Metric(p, << >>, Measured(act, UpTo(warn), NoRange)) /\ Becomes(p, Done)
      BY <1>4, <1>10, <2>1, <2>2 DEF WarningTemperature
    <3>2. Judge(act, UpTo(warn), NoRange) = Verdict
      BY <2>2 DEF HeatVerdict
    <3>3. Sayable(p, << >>, Judge(act, UpTo(warn), NoRange))
      BY <1>7, <3>2
    <3> HIDE DEF act, warn
    <3> QED BY <1>3, <1>8, <3>1, <3>3, SaysMetric
  <2>3. CASE ~ (act < warn)
    <3>1. PICK s : s = Remembers(task[p], << act, warn >>)
      OBVIOUS
    <3>2. Shape(s) /\ s.mem = << act, warn >> /\ s.row = << >>
      BY <1>3, <1>4, <3>1, Shapes, Fields, PlacesKept
    <3>3. PICK u : u = Gets(s, "snChasShutdownTemperature", Scalar)
      OBVIOUS
    <3>4. /\ u.at = "get" /\ u.mem = << act, warn >> /\ u.row = << >> /\ u.tail = Scalar
          /\ u.obj = "snChasShutdownTemperature"
      BY <3>2, <3>3 DEF Gets, Shape
    <3>5. HeatKnows(u)
      BY <2>3, <3>4 DEF HeatKnows
    <3>6. Knows(p, u) /\ Goes(p, u) /\ Quiet
      BY <1>1, <1>4, <1>10, <2>1, <2>3, <3>1, <3>3, <3>5, KnowsOne DEF WarningTemperature, Goes
    <3> QED BY <3>4, <3>6, SaysNothing
  <2> QED BY <2>2, <2>3
<1>11. CASE ShutdownTemperature(p)
  <2>1. Got(p) = shut /\ task[p].mem[1] = act /\ task[p].mem[2] = warn /\ ~ (act < warn)
    BY <1>2, <1>4, <1>5, <1>11
  <2>2. Metric(p, << >>, Measured(act, UpTo(warn), UpTo(shut))) /\ Becomes(p, Done)
    BY <1>1, <1>4, <1>11, <2>1 DEF ShutdownTemperature
  <2>3. Judge(act, UpTo(warn), UpTo(shut)) = Verdict
    BY <2>1 DEF HeatVerdict
  <2>4. Sayable(p, << >>, Judge(act, UpTo(warn), UpTo(shut)))
    BY <1>7, <2>3
  <2> HIDE DEF act, warn, shut
  <2> QED BY <1>3, <1>8, <2>2, <2>4, SaysMetric
<1> QED BY <1>9, <1>10, <1>11

LEMMA AppendOne == \A a, b : Append(<< >>, a) = << a >> /\ Append(<< a >>, b) = << a, b >>
<1> TAKE a, b
<1> DEFINE S == {a, b}
<1>1. a \in S /\ b \in S
  OBVIOUS
<1> HIDE DEF S
<1>2. << >> \in Seq(S) /\ << a >> \in Seq(S)
  BY <1>1
<1>3. Append(<< >>, a) \in Seq(S) /\ Append(<< a >>, b) \in Seq(S)
  BY <1>1, <1>2
<1>4. /\ Len(Append(<< >>, a)) = 1 /\ Append(<< >>, a)[1] = a
      /\ Len(Append(<< a >>, b)) = 2 /\ Append(<< a >>, b)[1] = a /\ Append(<< a >>, b)[2] = b
  BY <1>1, <1>2
<1>5. Append(<< >>, a) = << a >>
  BY <1>3, <1>4
<1>6. Append(<< a >>, b) = << a, b >>
  <2>1. PICK s, t : s = Append(<< a >>, b) /\ t = << a, b >>
    OBVIOUS
  <2>2. t \in Seq(S) /\ Len(t) = 2 /\ t[1] = a /\ t[2] = b
    BY <1>1, <2>1
  <2>3. s \in Seq(S) /\ Len(s) = 2 /\ s[1] = a /\ s[2] = b
    BY <1>3, <1>4, <2>1
  <2>4. s = t
    <3>1. s \in [1 .. 2 -> S] /\ t \in [1 .. 2 -> S]
      BY <2>2, <2>3
    <3>2. \A i \in 1 .. 2 : s[i] = t[i]
      BY <2>2, <2>3
    <3> QED BY <3>1, <3>2
  <2> QED BY <2>1, <2>4
<1> QED BY <1>5, <1>6

\* The time since the engine was started.
LEMMA UptimeSays ==
    ASSUME IInv, device' = device, NEW p \in DOMAIN task, Knows(p, task[p]),
           UptimeAsks(p) \/ UptimeGiven(p)
    PROVE  GoodStep(p)
<1> DEFINE descr == The("sysDescr")
           ver   == The("snAgImgVer")
           time  == The("snmpEngineTime")
<1>1. /\ p = UptimePlugin /\ p \in WholeTellers /\ p \notin {DhcpPlugin, AnyPlugin, VersionsPlugin}
      /\ p \notin {StackPlugin, TopologyPlugin}
  BY DEF UptimeAsks, UptimeGiven, UptimePlugin, WholeTellers, DhcpPlugin, VersionsPlugin, AnyPlugin,
         StackPlugin, TopologyPlugin
<1>2. PICK o \in {"sysDescr", "snAgImgVer", "snmpEngineTime"} :
         /\ Gives(p, o) /\ (UptimeGiven(p) <=> o = "snmpEngineTime")
         /\ UptimeAsks(p) => o # "snmpEngineTime"
  BY DEF UptimeAsks, UptimeGiven, Gives, Awaits
<1>3. /\ task[p].at = "get" /\ Shape(task[p]) /\ Done.at = "done" /\ task[p].obj = o
      /\ task[p].tail \in DOMAIN Column(o) /\ Got(p) = Column(o)[task[p].tail]
  BY <1>2, GetAt
<1>4. /\ task[p].tail = Scalar
      /\ \/ o = "sysDescr" /\ task[p].mem = << >>
         \/ o = "snAgImgVer" /\ task[p].mem = << descr >>
         \/ o = "snmpEngineTime" /\ task[p].mem = << descr, ver >>
  BY <1>1, <1>3 DEF Knows, UptimeKnows
<1>5. Got(p) = The(o)
  BY <1>3, <1>4 DEF The
<1>6. CASE UptimeAsks(p)
  <2>1. PICK u : /\ Becomes(p, u) /\ u.at = "get" /\ u.tail = Scalar
                 /\ \/ u.obj = "snAgImgVer" /\ u.mem = << descr >>
                    \/ u.obj = "snmpEngineTime" /\ u.mem = << descr, ver >>
    <3>1. CASE o = "sysDescr"
      <4>1. PICK s : s = Remembers(task[p], << Got(p) >>)
        OBVIOUS
      <4>2. Shape(s) /\ s.mem = << descr >>
        BY <1>3, <1>5, <3>1, <4>1, Shapes, Fields
      <4>3. PICK u : u = Gets(s, "snAgImgVer", Scalar)
        OBVIOUS
      <4>4. u.at = "get" /\ u.tail = Scalar /\ u.obj = "snAgImgVer" /\ u.mem = << descr >>
        BY <4>2, <4>3 DEF Gets, Shape
      <4>5. Becomes(p, u)
        BY <1>3, <1>6, <3>1, <4>1, <4>3 DEF UptimeAsks, Gives, Awaits
      <4> QED BY <4>4, <4>5
    <3>2. CASE o = "snAgImgVer"
      <4>1. PICK m : m = Append(task[p].mem, Got(p))
        OBVIOUS
      <4>2. m = << descr, ver >>
        <5>1. task[p].mem = << descr >> /\ Got(p) = ver
          BY <1>4, <1>5, <3>2
        <5> HIDE DEF descr, ver
        <5> QED BY <4>1, <5>1, AppendOne
      <4>3. PICK s : s = Remembers(task[p], m)
        OBVIOUS
      <4>4. Shape(s) /\ s.mem = m
        BY <1>3, <4>3, Shapes, Fields
      <4>5. PICK u : u = Gets(s, "snmpEngineTime", Scalar)
        OBVIOUS
      <4>6. /\ u.at = "get" /\ u.tail = Scalar /\ u.obj = "snmpEngineTime"
            /\ u.mem = << descr, ver >>
        BY <4>2, <4>4, <4>5 DEF Gets, Shape
      <4>7. Becomes(p, u)
        BY <1>3, <1>6, <3>2, <4>1, <4>3, <4>5 DEF UptimeAsks, Gives, Awaits
      <4> QED BY <4>6, <4>7
    <3> QED BY <1>2, <1>6, <3>1, <3>2
  <2>2. UptimeKnows(u)
    BY <2>1 DEF UptimeKnows
  <2>3. Knows(p, u) /\ Goes(p, u) /\ Quiet
    BY <1>1, <1>6, <2>1, <2>2, KnowsOne DEF UptimeAsks, Goes
  <2> QED BY <2>1, <2>3, SaysNothing
<1>7. CASE UptimeGiven(p)
  <2>1. /\ o = "snmpEngineTime" /\ task[p].mem[1] = descr /\ task[p].mem[2] = ver
        /\ Got(p) = time /\ Scalar \in DOMAIN Column("snmpEngineTime")
    BY <1>2, <1>3, <1>4, <1>5, <1>7
  <2>2. PICK limits : limits = UptimeLimits(descr, ver)
    OBVIOUS
  <2>3. Metric(p, << >>, Measured(time, limits[1], limits[2])) /\ Becomes(p, Done)
    BY <1>7, <2>1, <2>2 DEF UptimeGiven
  <2>4. WholeVerdict(p) = Judge(time, limits[1], limits[2]) /\ WholeKnown(p)
    <3>1. WholeVerdict(p) = UptimeVerdict(descr, ver, time)
      BY <1>1 DEF WholeVerdict
    <3> QED BY <1>1, <2>1, <2>2, <3>1 DEF UptimeVerdict, WholeKnown
  <2>5. Sayable(p, << >>, Judge(time, limits[1], limits[2]))
    BY <1>1, <2>4 DEF Sayable
  <2>6. Knows(p, Done) /\ Goes(p, Done)
    BY <1>1, <2>3, KnowsLast DEF Goes
  <2> HIDE DEF time
  <2> QED BY <1>3, <2>3, <2>5, <2>6, SaysMetric
<1> QED BY <1>6, <1>7

\* The version, which is asked for twice.
LEMMA VersionSays ==
    ASSUME IInv, device' = device, NEW p \in DOMAIN task, Knows(p, task[p]),
           VersionAsks(p) \/ VersionGiven(p)
    PROVE  GoodStep(p)
<1> DEFINE ver   == The("snAgImgVer")
           descr == The("sysDescr")
<1>1. /\ p = VersionPlugin /\ p \notin RowTellers \cup WholeTellers
      /\ p \notin {DhcpPlugin, AnyPlugin, VersionsPlugin}
  BY TableKinds DEF VersionAsks, VersionGiven, VersionPlugin, DhcpPlugin, VersionsPlugin, AnyPlugin
<1>2. PICK o \in {"snAgImgVer", "sysDescr"} :
         /\ Gives(p, o) /\ (VersionGiven(p) => o = "sysDescr")
         /\ VersionAsks(p) => o = "snAgImgVer"
  BY DEF VersionAsks, VersionGiven, Gives, Awaits
<1>3. /\ task[p].at = "get" /\ Shape(task[p]) /\ Done.at = "done" /\ task[p].obj = o
      /\ Got(p) = Column(o)[task[p].tail]
  BY <1>2, GetAt
<1>4. /\ task[p].tail = Scalar
      /\ o = "snAgImgVer" => task[p].mem \in {<< >>, << ver >>}
      /\ o = "sysDescr" => task[p].mem = << ver, ver >>
  BY <1>1, <1>3 DEF Knows, VersionKnows
<1>5. Got(p) = The(o)
  BY <1>3, <1>4 DEF The
<1>6. CASE VersionAsks(p)
  <2>1. PICK m : m = Append(task[p].mem, Got(p))
    OBVIOUS
  <2>2. PICK s : s = Remembers(task[p], m)
    OBVIOUS
  <2>3. Shape(s) /\ s.mem = m
    BY <1>3, <2>2, Shapes, Fields
  <2>4. PICK obj : obj = IF task[p].mem = << >> THEN "snAgImgVer" ELSE "sysDescr"
    OBVIOUS
  <2>5. (obj = "snAgImgVer" /\ m = << ver >>) \/ (obj = "sysDescr" /\ m = << ver, ver >>)
    <3>1. task[p].mem \in {<< >>, << ver >>} /\ Got(p) = ver
      BY <1>2, <1>4, <1>5, <1>6
    <3> HIDE DEF ver
    <3>2. CASE task[p].mem = << >>
      BY <2>1, <2>4, <3>1, <3>2, AppendOne
    <3>3. CASE task[p].mem = << ver >>
      <4>1. m = << ver, ver >>
        BY <2>1, <3>1, <3>3, AppendOne
      <4> QED BY <2>4, <3>3, <4>1
    <3> QED BY <3>1, <3>2, <3>3
  <2>6. PICK u : u = Gets(s, obj, Scalar)
    OBVIOUS
  <2>7. u.at = "get" /\ u.tail = Scalar /\ u.obj = obj /\ u.mem = m
    BY <2>3, <2>6 DEF Gets, Shape
  <2>8. VersionKnows(u)
    BY <2>5, <2>7 DEF VersionKnows
  <2>9. Becomes(p, u) /\ Quiet
    BY <1>6, <2>1, <2>2, <2>4, <2>6 DEF VersionAsks
  <2>10. Knows(p, u) /\ Goes(p, u)
    BY <1>1, <2>8, <2>9, KnowsOne DEF Goes
  <2> QED BY <1>1, <2>7, <2>9, <2>10, SaysNothing
<1>7. CASE VersionGiven(p)
  <2>1. task[p].mem[1] = ver /\ task[p].mem[2] = ver /\ Got(p) = descr
    BY <1>2, <1>4, <1>5, <1>7
  <2>2. PICK st : st = IF descr \in DOMAIN MIN_VERSIONS /\ ver < MIN_VERSIONS[descr]
                       THEN "WARNING" ELSE "OK"
    OBVIOUS
  <2>3. Alerts(p, << >>, << st >>) /\ Becomes(p, Done)
    <3>1. VersionAlerts(ver, ver, descr) = IF st = "WARNING" THEN << "WARNING" >> ELSE << >>
      BY <2>2 DEF VersionAlerts
    <3>2. /\ Alerts(p, << >>, IF VersionAlerts(ver, ver, descr) = << >> THEN << "OK" >>
                              ELSE VersionAlerts(ver, ver, descr))
          /\ Becomes(p, Done)
      BY <1>7, <2>1 DEF VersionGiven
    <3>3. CASE st = "WARNING"
      <4>1. VersionAlerts(ver, ver, descr) = << st >> /\ << st >> # << >>
        BY <3>1, <3>3
      <4> QED BY <3>2, <4>1
    <3>4. CASE st = "OK"
      <4>1. VersionAlerts(ver, ver, descr) = << >>
        BY <3>1, <3>4
      <4> QED BY <3>2, <3>4, <4>1
    <3> QED BY <2>2, <3>3, <3>4
  <2>4. st \in States4 /\ Sayable(p, << >>, st)
    <3>1. CASE st = "OK"
      BY <1>1, <3>1, SayableOK DEF States4
    <3>2. CASE st = "WARNING"
      <4>1. VersionFault(p)
        BY <1>1, <2>2, <3>2 DEF VersionFault, VersionPlugin
      <4> QED BY <1>1, <3>2, <4>1 DEF Sayable, States4
    <3> QED BY <2>2, <3>1, <3>2
  <2>5. Knows(p, Done) /\ Goes(p, Done)
    BY <1>1, <2>3, KnowsLast DEF Goes
  <2> QED BY <1>1, <1>3, <2>3, <2>4, <2>5, SaysOne
<1> QED BY <1>6, <1>7

LEMMA StackSays ==
    ASSUME IInv, device' = device, NEW p \in DOMAIN task, Knows(p, task[p]),
           StackConfigured(p)
    PROVE  GoodStep(p)
<1>1. /\ p = StackPlugin /\ p \in WholeTellers /\ p \notin {DhcpPlugin, AnyPlugin, VersionsPlugin}
      /\ p \notin StackPlugins /\ p \notin {TopologyPlugin, UptimePlugin}
  BY DEF StackConfigured, StackPlugin, WholeTellers, DhcpPlugin, VersionsPlugin, AnyPlugin,
         StackPlugins, TopologyPlugin, UptimePlugin
<1>2. /\ Shape(task[p]) /\ task[p].at = "get" /\ task[p].obj = "snStackingGlobalConfigSt"
      /\ Done.at = "done"
  BY DEF IInv, GoodTask, StackConfigured, Awaits, Done, Idle
<1>3. task[p].tail = Scalar /\ task[p].mem = << >>
  BY <1>1, <1>2 DEF Knows, StackKnows
<1>4. IsStack <=> There(p) /\ Got(p) = 1
  BY <1>2, <1>3 DEF IsStack, Reads, The, There, Got
<1>5. CASE IsStack
  <2>1. PICK u : u = Walks(task[p], "snStackingConfigUnitPriority")
    OBVIOUS
  <2>2. /\ u.at = "walk" /\ u.table = "snStackingConfigUnitPriority" /\ u.row = << >>
        /\ u.mem = << >>
    BY <1>2, <1>3, <2>1 DEF Walks, Shape
  <2>3. Passed(<< >>) = {}
    BY ColumnsAre, EmptyIsLeast DEF Passed, IInv
  <2>4. IsSeq(<< >>) /\ Len(<< >>) = 0
    BY DEF IsSeq
  <2>5. Counted(u)
    BY <2>2, <2>3, <2>4, FS_EmptySet DEF Counted
  <2>6. StackKnows(u)
    BY <1>5, <2>2, <2>5 DEF StackKnows
  <2>7. Knows(p, u) /\ Goes(p, u) /\ Quiet
    BY <1>1, <1>4, <1>5, <2>1, <2>6, KnowsOne DEF StackConfigured, Goes
  <2> QED BY <2>2, <2>7, SaysNothing
<1>6. CASE ~ IsStack
  <2>1. Alerts(p, << >>, << "OK" >>) /\ Becomes(p, Done)
    BY <1>4, <1>6 DEF StackConfigured
  <2>2. WholeVerdict(p) = "OK" /\ WholeKnown(p) /\ "OK" \in States4
    BY <1>1, <1>6 DEF WholeVerdict, WholeKnown, States4
  <2>3. Sayable(p, << >>, "OK")
    BY <1>1, <2>2 DEF Sayable
  <2>4. Knows(p, Done) /\ Goes(p, Done)
    BY <1>1, <2>1, KnowsLast DEF Goes
  <2> QED BY <1>2, <2>1, <2>2, <2>3, <2>4, SaysOne
<1> QED BY <1>5, <1>6

LEMMA TopologySays ==
    ASSUME IInv, device' = device, NEW p \in DOMAIN task, Knows(p, task[p]), TopologyGiven(p)
    PROVE  GoodStep(p)
<1> DEFINE o == "snStackingGlobalTopology"
<1>1. /\ p = TopologyPlugin /\ p \in WholeTellers /\ p \notin {DhcpPlugin, AnyPlugin, VersionsPlugin}
      /\ p \notin {StackPlugin, UptimePlugin} /\ Gives(p, o)
  BY DEF TopologyGiven, StackPlugin, WholeTellers, DhcpPlugin, VersionsPlugin, AnyPlugin,
         TopologyPlugin, UptimePlugin
<1>2. /\ task[p].at = "get" /\ Done.at = "done" /\ task[p].tail \in DOMAIN Column(o)
      /\ Got(p) = Column(o)[task[p].tail]
  BY <1>1, GetAt
<1>3. task[p].tail = Scalar /\ Len(task[p].mem) = Units /\ Units \in Nat
  BY <1>1, <1>2 DEF Knows, TopologyKnows
<1>4. PICK st : st = TopologyState(The(o), Units)
  OBVIOUS
<1>5. Alerts(p, << >>, << st >>) /\ Becomes(p, Done)
  BY <1>2, <1>3, <1>4 DEF TopologyGiven, The
<1>6. WholeVerdict(p) = st /\ WholeKnown(p) /\ st \in States4
  BY <1>1, <1>2, <1>3, <1>4, StateTables DEF WholeVerdict, WholeKnown
<1>7. Sayable(p, << >>, st)
  BY <1>1, <1>6 DEF Sayable
<1>8. Knows(p, Done) /\ Goes(p, Done)
  BY <1>1, <1>5, KnowsLast DEF Goes
<1> QED BY <1>2, <1>5, <1>6, <1>7, <1>8, SaysOne

LEMMA DetectSays ==
    ASSUME IInv, device' = device, NEW p \in DOMAIN task,
           DetectFamily(p) \/ DetectChassis(p)
    PROVE  GoodStep(p)
<1>1. /\ p = "detect" /\ p \notin Knowing /\ p \notin RowTellers \cup WholeTellers
      /\ p \notin BrocadePlugins /\ p \notin {"brocade_temperature_plugin"}
      /\ \A id \in DOMAIN FamilyPlugins : p \notin FamilyPlugins[id]
  BY TableKinds, FamiliesAre DEF DetectFamily, DetectChassis
<1>2. Shape(task[p]) /\ Done.at = "done"
  BY DEF IInv, GoodTask, Done, Idle
<1>3. /\ AskAgain(task[p]).at = "get"
      /\ Walks(task[p], "snVLanByPortMemberTagMode").at = "walk"
  BY <1>2, Shapes, Fields DEF AskAgain
<1>4. PICK u : /\ Goes(p, u) /\ u.at \in {"get", "walk", "done"}
               /\ Quiet \/ \E st \in {"OK", "UNKNOWN"} : Alerts(p, << >>, << st >>)
  <2>1. CASE DetectChassis(p)
    BY <1>1, <1>2, <2>1 DEF DetectChassis, Goes
  <2>2. CASE DetectFamily(p) /\ \E id \in DOMAIN FamilyPlugins : Starts(p, Done, FamilyPlugins[id]) /\ Quiet
    BY <1>1, <1>2, <2>2 DEF Goes
  <2>3. CASE DetectFamily(p) /\ Becomes(p, Done)
             /\ \E st \in {"OK", "UNKNOWN"} : Alerts(p, << >>, << st >>)
    BY <1>2, <2>3 DEF Goes
  <2>4. CASE DetectFamily(p) /\ Quiet
             /\ Starts(p, IF UserVlan(ThirdOctet) THEN Walks(task[p], "snVLanByPortMemberTagMode")
                                                  ELSE AskAgain(task[p]), BrocadePlugins)
    BY <1>1, <1>3, <2>4 DEF Goes
  <2> QED BY <2>1, <2>2, <2>3, <2>4 DEF DetectFamily
<1>5. Knows(p, u)
  BY <1>1, KnowsOne
<1>6. CASE Quiet
  BY <1>1, <1>4, <1>5, <1>6, SaysNothing
<1>7. CASE \E st \in {"OK", "UNKNOWN"} : Alerts(p, << >>, << st >>)
  <2>1. PICK st \in {"OK", "UNKNOWN"} : Alerts(p, << >>, << st >>)
    BY <1>7
  <2>2. st \in States4 /\ Sayable(p, << >>, st)
    BY <1>1, SayableOK DEF States4
  <2> QED BY <1>1, <1>4, <1>5, <2>1, <2>2, SaysOne
<1> QED BY <1>4, <1>6, <1>7

\* DHCP snooping: what was told of the first object is remembered in the lists.
LEMMA DhcpSays ==
    ASSUME IInv, device' = device, NEW p \in DOMAIN task, Knows(p, task[p]),
           DhcpAcl(p) \/ DhcpSnooping(p)
    PROVE  GoodStep(p)
<1> DEFINE acl   == "snSWACLPerPortPerVlanMode"
           snoop == "fdryDhcpSnoopVlanDhcpSnoopEnable"
           Heard == alerts["CRITICAL"] # << >>
<1>1. /\ p = DhcpPlugin /\ Object[DhcpPlugin] = acl /\ p = "brocade_dhcp_snooping_plugin"
      /\ p \notin RowTellers \cup WholeTellers /\ acl # snoop
      /\ task[p].at = "get" /\ (DhcpAcl(p) => task[p].obj = acl)
      /\ (DhcpSnooping(p) => task[p].obj = snoop)
  BY TableKinds DEF DhcpAcl, DhcpSnooping, DhcpPlugin, Object, Awaits
<1>2. Shape(task[p]) /\ Done.at = "done"
  BY DEF IInv, GoodTask, Done, Idle
<1>3. DhcpKnows(task[p])
  BY <1>1 DEF Knows
<1>4. \A st \in States4 : Alerts(p, << >>, << st >>) => alerts'[st] # << >>
  <2> SUFFICES ASSUME NEW st \in States4, Alerts(p, << >>, << st >>) PROVE alerts'[st] # << >>
    OBVIOUS
  <2>1. NewAlerts(p, << >>, {st})
    BY TellsThese
  <2> QED BY <2>1 DEF NewAlerts
<1>5. ThirdOctet' = ThirdOctet /\ (DhcpFault(p)' <=> DhcpFault(p))
      /\ \A o, vs : Reads(o, vs)' <=> Reads(o, vs)
  BY SameDevice, SameVerdicts
<1>6. "OK" \in States4 /\ "CRITICAL" \in States4 /\ Sayable(p, << >>, "OK")
  BY <1>1, SayableOK DEF States4
<1>7. DhcpFault(p) => Sayable(p, << >>, "CRITICAL")
  BY <1>1 DEF Sayable
<1>8. CASE DhcpAcl(p)
  <2>1. task[p].obj = acl /\ task[p].tail = Scalar
    BY <1>1, <1>3, <1>8 DEF DhcpKnows
  <2>2. PICK u : u = Gets(task[p], snoop, << ThirdOctet >>)
    OBVIOUS
  <2>3. u.at = "get" /\ u.obj = snoop /\ u.tail = << ThirdOctet >>
    BY <1>2, <2>2 DEF Gets, Shape
  <2>4. Goes(p, u)
    BY <1>8, <2>2 DEF DhcpAcl, Goes
  <2>5. Reads(acl, {0}) <=> There(p) /\ Got(p) = 0
    BY <2>1 DEF Reads, The, There, Got
  <2>6. CASE Reads(acl, {0})
    <3>1. Alerts(p, << >>, << "CRITICAL" >>)
      BY <1>8, <2>5, <2>6 DEF DhcpAcl
    <3>2. alerts'["CRITICAL"] # << >>
      BY <1>4, <1>6, <3>1
    <3>3. DhcpKnows(u)'
      BY <1>5, <2>3, <3>2 DEF DhcpKnows
    <3>4. Knows(p, u)'
      BY <1>1, <3>3, KnowsThen
    <3>5. Sayable(p, << >>, "CRITICAL")
      BY <1>1, <1>7, <2>6 DEF DhcpFault
    <3> QED BY <1>1, <1>6, <2>3, <2>4, <3>1, <3>4, <3>5, SaysOne
  <2>7. CASE ~ Reads(acl, {0})
    <3>1. DhcpKnows(u)
      BY <1>1, <2>3, <2>7 DEF DhcpKnows
    <3>2. Knows(p, u)
      BY <1>1, <3>1, KnowsOne
    <3>3. Quiet \/ Alerts(p, << >>, << "OK" >>)
      BY <1>8, <2>5, <2>7 DEF DhcpAcl
    <3>4. CASE Quiet
      BY <1>1, <2>3, <2>4, <3>2, <3>4, SaysNothing
    <3>5. CASE Alerts(p, << >>, << "OK" >>)
      BY <1>1, <1>6, <2>3, <2>4, <3>2, <3>5, SaysOne
    <3> QED BY <3>3, <3>4, <3>5
  <2> QED BY <2>6, <2>7
<1>9. CASE DhcpSnooping(p)
  <2>1. /\ task[p].obj = snoop /\ task[p].tail = << ThirdOctet >>
        /\ Reads(acl, {0}) => Heard
    BY <1>1, <1>3, <1>9 DEF DhcpKnows
  <2>2. Goes(p, Done)
    BY <1>9 DEF DhcpSnooping, Goes
  <2>3. DhcpFault(p) <=> Reads(acl, {0}) \/ (There(p) /\ Got(p) # 1)
    BY <1>1, <2>1 DEF DhcpFault, There, Got
  <2>4. CASE There(p) /\ Got(p) # 1
    <3>1. Alerts(p, << >>, << "CRITICAL" >>)
      BY <1>9, <2>4 DEF DhcpSnooping
    <3>2. alerts'["CRITICAL"] # << >>
      BY <1>4, <1>6, <3>1
    <3>3. PICK u : u = Done
      OBVIOUS
    <3>4. DhcpKnows(u)'
      BY <1>2, <3>2, <3>3 DEF DhcpKnows
    <3>5. Knows(p, u)'
      BY <1>1, <3>4, KnowsThen
    <3>6. Sayable(p, << >>, "CRITICAL")
      BY <1>7, <2>3, <2>4
    <3> QED BY <1>1, <1>2, <1>6, <2>2, <3>1, <3>3, <3>5, <3>6, SaysOne
  <2>5. CASE ~ (There(p) /\ Got(p) # 1)
    <3>1. DhcpFault(DhcpPlugin) => Heard
      BY <1>1, <2>1, <2>3, <2>5
    <3>2. DhcpKnows(Done)
      BY <1>2, <3>1 DEF DhcpKnows
    <3>3. Knows(p, Done)
      BY <1>1, <3>2, KnowsOne
    <3>4. Quiet \/ Alerts(p, << >>, << "OK" >>)
      BY <1>9, <2>5 DEF DhcpSnooping
    <3>5. CASE Quiet
      BY <1>1, <1>2, <2>2, <3>3, <3>5, SaysNothing
    <3>6. CASE Alerts(p, << >>, << "OK" >>)
      BY <1>1, <1>2, <1>6, <2>2, <3>3, <3>6, SaysOne
    <3> QED BY <3>4, <3>5, <3>6
  <2> QED BY <2>4, <2>5
<1> QED BY <1>8, <1>9

LEMMA GetSays ==
    ASSUME IInv, RInv, device' = device, NEW p \in DOMAIN task, Knows(p, task[p]), GetStep(p)
    PROVE  GoodStep(p)
<1>1. CASE ChassisActual(p) \/ WarningTemperature(p) \/ ShutdownTemperature(p)
  <2>1. CASE p = ChassisPlugin
    BY <1>1, <2>1, HeatSays
  <2>2. CASE p # ChassisPlugin
    <3>1. p = UnitHeatPlugin /\ ~ ChassisActual(p)
      BY <1>1, <2>2 DEF ChassisActual, WarningTemperature, ShutdownTemperature, Shutdown,
                        ChassisPlugin, UnitHeatPlugin
    <3> QED BY <1>1, <3>1, UnitHeatSays
  <2> QED BY <2>1, <2>2
<1> QED BY <1>1, DescribedSays, MemorySays, UptimeSays, VersionSays, StackSays, TopologySays,
           DhcpSays, DetectSays DEF GetStep

LEMMA EveryStepSays ==
    ASSUME IInv, RInv, device' = device, NEW p \in DOMAIN task, Knows(p, task[p]),
           RowStep(p) \/ EndStep(p) \/ GetStep(p) \/ Fails(p)
    PROVE  GoodStep(p)
BY RowSays, EndSays, GetSays, FailSays

-----------------------------------------------------------------------------
(* That what is said is right, and that plugins know what they need, stays.  *)

LEMMA WhoSteps ==
    ASSUME NEW p \in DOMAIN task, RowStep(p) \/ EndStep(p) \/ GetStep(p) \/ Fails(p)
    PROVE  task[p].at \in {"walk", "get"}
<1>1. RowStep(p) => task[p].at = "walk"
  BY DEF RowStep, RowIs
<1>2. EndStep(p) => task[p].at = "walk"
  BY DEF EndStep, RowsEnd
<1>3. (\E o : Awaits(p, o)) => task[p].at = "get"
  BY DEF Awaits
<1>4. GetStep(p) => \E o : Awaits(p, o)
  BY DEF GetStep, PsuDescribed, CiscoNamed, CiscoMemUsed, MemGiven, ChassisActual,
         WarningTemperature, ShutdownTemperature, DynMemTotal, DynMemFree, UptimeAsks,
         UptimeGiven, VersionAsks, VersionGiven, StackConfigured, TopologyGiven, DhcpAcl,
         DhcpSnooping, DetectFamily, DetectChassis, Gives
<1>5. Fails(p) => task[p].at \in {"walk", "get"}
  BY DEF Fails
<1> QED BY <1>1, <1>2, <1>3, <1>4, <1>5

LEMMA StaysRight ==
    ASSUME IInv, TellersRun, AlertsAreRight, device' = device,
           NEW p, NEW i, NEW S, NewAlerts(p, i, S),
           \A q \in DOMAIN task : task[q].at = "failed" => task'[q].at = "failed",
           \A st \in S : Failed(p, i, st, task'[p]) \/ Sayable(p, i, st)
    PROVE  AlertsAreRight'
<1> SUFFICES ASSUME NEW st \in States4, NEW j \in 1 .. Len(alerts'[st])
             PROVE  Right(about[alerts[st][j]], st)'
  BY DEF AlertsAreRight
<1>1. PICK a : a = about'[alerts'[st][j]]
  OBVIOUS
<1>2. \A q, k, su : Sayable(q, k, su)' <=> Sayable(q, k, su)
  BY SameVerdicts
<1>3. SUFFICES Failed(a[1], a[2], st, task'[a[1]]) \/ Sayable(a[1], a[2], st)
  BY <1>1, <1>2 DEF Right, Failed
<1>4. CASE \E l \in 1 .. Len(alerts[st]) : a = about[alerts[st][l]]
  <2>1. PICK l \in 1 .. Len(alerts[st]) : a = about[alerts[st][l]]
    BY <1>4
  <2>2. alerts[st][l] \in 1 .. Len(about)
    BY EntriesAre
  <2>3. a[1] \in DOMAIN task
    BY <2>1, <2>2 DEF TellersRun
  <2>4. Right(a, st)
    BY <2>1 DEF AlertsAreRight
  <2> QED BY <2>3, <2>4 DEF Right, Failed
<1>5. CASE st \in S /\ a = <<p, i>>
  BY <1>5
<1> QED BY <1>1, <1>4, <1>5 DEF NewAlerts

LEMMA SpokenStays ==
    ASSUME NEW p, NEW q, NEW i, NEW n, Adds(p, i, n), Spoken(q)
    PROVE  Spoken(q)'
<1>1. PICK k \in 1 .. Len(about) : about[k] = << q, << >> >>
  BY DEF Spoken
<1>2. k \in 1 .. Len(about') /\ about'[k] = about[k]
  BY <1>1 DEF Adds
<1> QED BY <1>1, <1>2 DEF Spoken

LEMMA SpokenNow ==
    ASSUME NEW p, NEW n \in Nat, n # 0, Adds(p, << >>, n)
    PROVE  Spoken(p)'
<1>1. Len(about) + 1 \in 1 .. Len(about') /\ Len(about) + 1 \notin 1 .. Len(about)
  BY DEF Adds
<1>2. about'[Len(about) + 1] = << p, << >> >>
  BY <1>1 DEF Adds
<1> QED BY <1>1, <1>2 DEF Spoken

\* Nothing that a plugin has when it starts is about its end.
LEMMA Started ==
    ASSUME NEW q, NEW t \in {Fresh(q), Idle}
    PROVE  t.at \notin {"done", "failed"}
<1>1. Idle.at = "started" /\ DOMAIN Idle = {"at", "table", "row", "obj", "tail", "mem"}
  BY DEF Idle
<1>2. Shape(Idle) /\ Walks(Idle, Table[q]).at = "walk" /\ Gets(Idle, Object[q], Scalar).at = "get"
  BY Ends, Fields
<1>3. \A m : Remembers(Walks(Idle, Table[q]), m).at = "walk"
  BY <1>2, Shapes, Fields
<1> QED BY <1>1, <1>2, <1>3 DEF Fresh, AnyPlugin

LEMMA AnyStays ==
    ASSUME IInv, RInv, VInv, AnyReports, device' = device
    PROVE  VInv'
<1>1. /\ task' = task /\ about' = Append(about, << AnyPlugin, << >> >>)
      /\ AnyPlugin \in DOMAIN task /\ Next
  BY DEF AnyReports
<1>2. Adds(AnyPlugin, << >>, 1)
  <2>1. IsSeq(about) /\ Len(about) \in Nat
    BY DEF IInv, IsSeq
  <2> QED BY <1>1, <2>1, AppendAdds
<1>3. PICK st \in States4 : alerts' = Appended(<< st >>)
  <2>1. CASE \E st \in Range(States) : AddAlerts(<< st >>)
    BY <2>1, StatesAre DEF AddAlerts
  <2>2. CASE \E m \in Metrics : AddMetric(m)
    BY <2>2, JudgesAre DEF AddMetric, StateOf
  <2> QED BY <1>1, <2>1, <2>2 DEF Next
<1>4. NewAlerts(AnyPlugin, << >>, {st})
  BY <1>2, <1>3, NewIs
<1>5. AlertsAreRight'
  <2>1. \A su \in {st} : Sayable(AnyPlugin, << >>, su)
    BY DEF Sayable, Opaque
  <2>2. TellersRun /\ AlertsAreRight
    BY DEF RInv, VInv
  <2> QED BY <1>1, <1>4, <2>1, <2>2, StaysRight
<1>6. NoneLost(alerts, alerts') /\ {"CRITICAL", "WARNING"} \subseteq States4
  BY <1>4 DEF NewAlerts, States4
<1>7. \A q \in DOMAIN task' : Knows(q, task[q])'
  <2> TAKE q \in DOMAIN task'
  <2>1. PICK t : t = task[q]
    OBVIOUS
  <2>2. Knows(q, t)
    BY <1>1, <2>1 DEF VInv
  <2>3. Knows(q, t)'
    BY <1>6, <2>2, KnowsStays DEF NoneLost
  <2> QED BY <1>1, <2>1, <2>3
<1>8. \A q \in WholeTellers \cap DOMAIN task' : task'[q].at = "done" => Spoken(q)'
  BY <1>1, <1>2, SpokenStays DEF VInv
<1>9. Unstacked' /\ \A q \in DOMAIN task' : task'[q].at = "failed" => alerts'["CRITICAL"] # << >>
  BY <1>1, <1>6 DEF VInv, Unstacked, NoneLost
<1> QED BY <1>5, <1>7, <1>8, <1>9 DEF VInv

LEMMA PluginStays ==
    ASSUME IInv, DInv, RInv, VInv, IInv', device' = device, NEW p \in DOMAIN task,
           RowStep(p) \/ EndStep(p) \/ GetStep(p) \/ Fails(p)
    PROVE  VInv'
<1>1. PICK u : /\ p \in DOMAIN task' /\ task'[p] = u
               /\ Honest(p, u) /\ Knows(p, u)' /\ Finishes(p, u)
  BY EveryStepSays DEF VInv, GoodStep
<1>2. PICK i, S : /\ NewAlerts(p, i, S)
                  /\ \A st \in S : Failed(p, i, st, u) \/ Sayable(p, i, st)
  BY <1>1 DEF Honest
<1>3. NoneLost(alerts, alerts') /\ {"CRITICAL", "WARNING"} \subseteq States4
  BY <1>2 DEF NewAlerts, States4
<1>4. Unstacked /\ Unstacked'
  BY StaysUnstacked DEF VInv
<1>5. ASSUME NEW q \in DOMAIN task', q # p
      PROVE  \/ q \in DOMAIN task /\ task'[q] = task[q]
             \/ q \notin DOMAIN task /\ q # AnyPlugin /\ task'[q] \in {Fresh(q), Idle}
  BY <1>4, <1>5, OthersAsTheyWere
<1>6. AlertsAreRight'
  <2>1. task[p].at # "failed"
    BY WhoSteps
  <2>2. \A q \in DOMAIN task : task[q].at = "failed" => task'[q].at = "failed"
    BY <1>5, <2>1, TasksStay
  <2>3. TellersRun /\ AlertsAreRight
    BY DEF RInv, VInv
  <2> QED BY <1>1, <1>2, <2>2, <2>3, StaysRight
<1>7. ASSUME NEW q \in DOMAIN task' PROVE Knows(q, task[q])'
  <2>1. PICK t : t = task'[q]
    OBVIOUS
  <2>2. CASE q = p
    BY <1>1, <2>2
  <2>3. CASE q # p
    <3>1. Knows(q, t)
      <4>1. CASE q \in DOMAIN task /\ task'[q] = task[q]
        BY <2>1, <4>1 DEF VInv
      <4>2. CASE q # AnyPlugin /\ task'[q] \in {Fresh(q), Idle}
        <5>1. q \in AllPlugins /\ device \in Cases
          BY DEF IInv
        <5> QED BY <2>1, <4>2, <5>1, KnowsFirst
      <4> QED BY <1>5, <2>3, <4>1, <4>2
    <3>2. Knows(q, t)'
      BY <1>3, <3>1, KnowsStays DEF NoneLost
    <3> QED BY <2>1, <3>2
  <2> QED BY <2>2, <2>3
<1>8. ASSUME NEW q \in WholeTellers \cap DOMAIN task', task'[q].at = "done" PROVE Spoken(q)'
  <2>1. CASE q = p
    <3>1. PICK n \in Nat : n # 0 /\ Adds(p, << >>, n)
      BY <1>1, <1>8, <2>1 DEF Finishes
    <3> QED BY <2>1, <3>1, SpokenNow
  <2>2. CASE q # p
    <3>1. q \in DOMAIN task /\ task[q].at = "done"
      BY <1>5, <1>8, <2>2, Started
    <3>2. Spoken(q)
      BY <1>8, <3>1 DEF VInv
    <3>3. PICK k : \E n \in Nat : Adds(p, k, n)
      BY StepTells, ToldAdds
    <3> QED BY <3>2, <3>3, SpokenStays
  <2> QED BY <2>1, <2>2
<1>9. ASSUME NEW q \in DOMAIN task', task'[q].at = "failed" PROVE alerts'["CRITICAL"] # << >>
  <2>1. CASE q = p
    BY <1>1, <1>9, <2>1 DEF Finishes
  <2>2. CASE q # p
    <3>1. q \in DOMAIN task /\ task[q].at = "failed"
      BY <1>5, <1>9, <2>2, Started
    <3> QED BY <1>3, <3>1 DEF VInv, NoneLost
  <2> QED BY <2>1, <2>2
<1> QED BY <1>4, <1>6, <1>7, <1>8, <1>9 DEF VInv

LEMMA SameRight ==
    ASSUME VInv, UNCHANGED pluginVars
    PROVE  VInv'
<1>1. task' = task /\ about' = about /\ device' = device /\ alerts' = alerts
  BY DEF pluginVars, vars
<1>2. \A q, k, st : Sayable(q, k, st)' <=> Sayable(q, k, st)
  BY <1>1, SameVerdicts
<1>3. AlertsAreRight'
  BY <1>1, <1>2 DEF VInv, AlertsAreRight, Right, Failed
<1>4. \A q \in DOMAIN task' : Knows(q, task[q])'
  <2> TAKE q \in DOMAIN task'
  <2>1. PICK t : t = task[q]
    OBVIOUS
  <2>2. Knows(q, t)
    BY <1>1, <2>1 DEF VInv
  <2>3. Knows(q, t)'
    BY <1>1, <2>2, KnowsStays
  <2> QED BY <1>1, <2>1, <2>3
<1>5. Unstacked' /\ \A q \in DOMAIN task' : task'[q].at = "failed" => alerts'["CRITICAL"] # << >>
  BY <1>1 DEF VInv, Unstacked
<1>6. \A q \in WholeTellers \cap DOMAIN task' : task'[q].at = "done" => Spoken(q)'
  BY <1>1 DEF VInv, Spoken
<1> QED BY <1>3, <1>4, <1>5, <1>6 DEF VInv

LEMMA StepRight ==
    ASSUME IInv, DInv, RInv, VInv, [PluginNext]_pluginVars
    PROVE  VInv'
<1>1. IInv'
  BY StepGood
<1>2. CASE UNCHANGED pluginVars
  BY <1>2, SameRight
<1>3. CASE PluginNext
  BY <1>1, <1>3, AnyStays, PluginStays DEF PluginNext
<1> QED BY <1>2, <1>3

LEMMA InitRight == PluginInit /\ IInv => VInv
<1> SUFFICES ASSUME PluginInit, IInv PROVE VInv
  OBVIOUS
<1>1. DOMAIN task = {device.plugin} /\ task[device.plugin] = Fresh(device.plugin)
  BY DEF PluginInit
<1>2. \A st \in States4 : alerts[st] = << >>
  BY StatesAre DEF PluginInit, Init
<1>3. AlertsAreRight
  BY <1>2 DEF AlertsAreRight
<1>4. Unstacked
  BY <1>1, FamiliesAre DEF Unstacked
<1>5. ASSUME NEW p \in DOMAIN task PROVE Knows(p, task[p])
  <2>1. p \in AllPlugins /\ device \in Cases /\ task[p] = Fresh(p)
    BY <1>1 DEF IInv
  <2> QED BY <2>1, KnowsFirst
<1>6. \A p \in DOMAIN task : task[p].at \notin {"done", "failed"}
  BY <1>1, Started
<1> QED BY <1>3, <1>4, <1>5, <1>6 DEF VInv

-----------------------------------------------------------------------------
(* From what is said to what is wrong, and back.                             *)

\* The temperatures of the chassis are there, with the limits above 0 and in order.
Thermometer ==
    /\ \A o \in {"snChasActualTemperature", "snChasWarningTemperature",
                "snChasShutdownTemperature"} : Scalar \in DOMAIN Column(o)
    /\ The("snChasActualTemperature") \in Int
    /\ The("snChasWarningTemperature") \in Nat /\ The("snChasShutdownTemperature") \in Nat
    /\ The("snChasWarningTemperature") <= The("snChasShutdownTemperature")

\* The units' limits are not below 0, and their rows have one number.
Thermometers ==
    \A i \in DOMAIN Column("snChasUnitActualTemp") :
       /\ i = << Last(i) >> /\ UnitHeat(i) \in Int
       /\ \A o \in {"snChasUnitWarningTem", "snChasUnitShutdownTemperature"} :
             i \in DOMAIN Column(o) => UnitLimit(o, i) \in Nat

\* The engine's time is a number.
Clock == Scalar \in DOMAIN Column("snmpEngineTime") => The("snmpEngineTime") \in Nat

\* Plugins that may miss a fault.
Overlooking ==
    {"hp_sensors_plugin", UnitHeatPlugin, VersionPlugin}
    \cup (IF Stacked THEN {} ELSE {VersionsPlugin})
    \cup (IF Thermometer THEN {} ELSE {ChassisPlugin})

Seen(p) ==
    \A st \in {"CRITICAL", "WARNING"} :
       task[p].at = "done" /\ Fault(p, st) => Rank(ExitState) <= Rank(st)

EveryFaultIsSeen ==
    /\ \A p \in DOMAIN task : task[p].at = "failed" => ExitState = "CRITICAL"
    /\ \A p \in DOMAIN task \ Overlooking : Seen(p)

\* Plugins that may warn of what is no fault.
Vague == (Opaque \ {AnyPlugin}) \cup (IF Thermometers THEN {} ELSE {UnitHeatPlugin})
                                \cup (IF Thermometer THEN {} ELSE {ChassisPlugin})
                                \cup (IF Clock THEN {} ELSE {UptimePlugin})

\* An alert of state st that p told is of a fault as bad.
Caused(p, st) ==
    \/ p \in Vague \/ task[p].at \in {"failed", AnyPlugin}
    \/ st = "WARNING" /\ Freezing(p)
    \/ \E su \in {"CRITICAL", "WARNING"} : Fault(p, su) /\ Rank(su) <= Rank(st)

EveryAlarmIsCaused ==
    \A st \in {"CRITICAL", "WARNING"} : \A j \in 1 .. Len(alerts[st]) :
       LET p == about[alerts[st][j]][1]
       IN  p \in DOMAIN task /\ Caused(p, st)

LEMMA UpToIs ==
    /\ \A v : ~ AlertOf(NoRange, v)
    /\ \A h, v : h # None => (AlertOf(UpTo(h), v) <=> v < 0 \/ v > h)
<1>1. 0 # None
  BY ReportAssumption
<1> QED BY <1>1 DEF AlertOf, Outside, NoRange, UpTo

LEMMA RanksAre ==
    /\ \A st \in States4 : Rank(st) \in Nat
    /\ \A st \in States4 : Rank(st) <= Rank("CRITICAL") => st = "CRITICAL"
    /\ \A st \in States4 : Rank(st) <= Rank(st)
    /\ Rank("CRITICAL") <= Rank("WARNING")
BY StatesAre DEF States4

\* What is told of a row or of the device is heard in the exit state.
LEMMA Heard ==
    ASSUME IInv, VInv, NEW p \in DOMAIN task, task[p].at = "done",
           NEW i, NEW k \in 1 .. Len(about), about[k][1] = p, about[k][2] = i
    PROVE  \E su \in States4 : Sayable(p, i, su) /\ Rank(ExitState) <= Rank(su)
<1>1. k \in 1 .. made /\ Numbered(alerts, made) /\ Kept
  BY DEF IInv, Kept
<1>2. PICK su \in States4 : \E j \in 1 .. Len(alerts[su]) : alerts[su][j] = k
  BY <1>1 DEF Numbered
<1>3. PICK j \in 1 .. Len(alerts[su]) : alerts[su][j] = k
  BY <1>2
<1>4. Right(about[k], su)
  BY <1>3 DEF VInv, AlertsAreRight
<1>5. Sayable(p, i, su)
  BY <1>4 DEF Right, Failed
<1>6. alerts[su] # << >>
  BY <1>3
<1> QED BY <1>1, <1>5, <1>6, ExitStateIs

LEMMA RowHeard ==
    ASSUME IInv, VInv, NEW p \in RowTellers \cap DOMAIN task, task[p].at = "done",
           NEW i \in ToldRows(p)
    PROVE  Rank(ExitState) <= Rank(RowVerdict(p, i))
<1>1. PICK k \in RowAlerts(p) : about[k][2] = i
  BY DEF ToldRows
<1>2. k \in 1 .. Len(about) /\ about[k][1] = p
  BY <1>1 DEF RowAlerts, IInv, IsSeq
<1>3. PICK su \in States4 : Sayable(p, i, su) /\ Rank(ExitState) <= Rank(su)
  BY <1>1, <1>2, Heard
<1>4. p \notin Opaque \cup WholeTellers
      /\ p \notin {DhcpPlugin, VersionPlugin, VersionsPlugin, UnitHeatPlugin}
  BY TableKinds DEF Opaque, RowTellers, FanPlugins, PsuPlugins, CiscoPlugins,
     UnitStatePlugin, AnyPlugin, VersionsPlugin, UnitHeatPlugin
<1>5. su = RowVerdict(p, i)
  BY <1>3, <1>4 DEF Sayable
<1> QED BY <1>3, <1>5

LEMMA WholeHeard ==
    ASSUME IInv, VInv, NEW p \in WholeTellers \cap DOMAIN task, task[p].at = "done"
    PROVE  WholeKnown(p) /\ Rank(ExitState) <= Rank(WholeVerdict(p))
<1>1. PICK k \in 1 .. Len(about) : about[k] = << p, << >> >>
  BY DEF VInv, Spoken
<1>2. PICK su \in States4 : Sayable(p, << >>, su) /\ Rank(ExitState) <= Rank(su)
  BY <1>1, Heard
<1>3. p \notin Opaque \cup RowTellers
      /\ p \notin {DhcpPlugin, VersionPlugin, VersionsPlugin, UnitHeatPlugin}
  BY TableKinds DEF Opaque, WholeTellers, StackPlugin, TopologyPlugin, UptimePlugin,
     ChassisPlugin, DhcpPlugin, VersionPlugin, AnyPlugin, VersionsPlugin, UnitHeatPlugin
<1> QED BY <1>2, <1>3 DEF Sayable

\* The verdict on a row that is wrong, and what a verdict says of the row.
LEMMA RowVerdicts ==
    ASSUME NEW p, NEW i
    PROVE  LET v == Column(Table[p])[i]
           IN  /\ p \in FanPlugins => RowVerdict(p, i) = IF v = 2 THEN "OK" ELSE "CRITICAL"
               /\ p \in PsuPlugins =>
                     RowVerdict(p, i) =
                        IF \/ v \in {1, 2}
                           \/ v = 3 /\ PsuIndex(p, i) \in DOMAIN Column(Detail[p])
                                    /\ Column(Detail[p])[PsuIndex(p, i)] = "not present"
                        THEN "OK" ELSE "CRITICAL"
               /\ p \in CiscoPlugins =>
                     /\ v = 2 => RowVerdict(p, i) = "WARNING"
                     /\ v \notin {1, 2, 5} => RowVerdict(p, i) = "CRITICAL"
                     /\ v \in {1, 5} => RowVerdict(p, i) \in {"OK", "UNKNOWN"}
               /\ p = UnitStatePlugin /\ v \in 1 .. 4 =>
                     RowVerdict(p, i) = IF v \in {3, 4} THEN "CRITICAL" ELSE "OK"
<1> DEFINE v == Column(Table[p])[i]
<1>1. p \in FanPlugins => RowVerdict(p, i) = IF v = 2 THEN "OK" ELSE "CRITICAL"
  BY DEF RowVerdict, FanState
<1>2. ASSUME p \in PsuPlugins
      PROVE  RowVerdict(p, i) =
                IF \/ v \in {1, 2}
                   \/ v = 3 /\ PsuIndex(p, i) \in DOMAIN Column(Detail[p])
                            /\ Column(Detail[p])[PsuIndex(p, i)] = "not present"
                THEN "OK" ELSE "CRITICAL"
  <2>1. p \notin FanPlugins
    BY <1>2, TableKinds
  <2> QED BY <1>2, <2>1 DEF RowVerdict, PsuState
<1>3. ASSUME p \in CiscoPlugins
      PROVE  /\ v = 2 => RowVerdict(p, i) = "WARNING"
             /\ v \notin {1, 2, 5} => RowVerdict(p, i) = "CRITICAL"
             /\ v \in {1, 5} => RowVerdict(p, i) \in {"OK", "UNKNOWN"}
  <2>1. p \notin FanPlugins /\ p \notin PsuPlugins
    BY <1>3, TableKinds
  <2>2. RowVerdict(p, i) = cisco_state(v)
    BY <1>3, <2>1 DEF RowVerdict
  <2>3. DOMAIN cisco_states = 1 .. 6 /\ 1 .. 6 = {1, 2, 3, 4, 5, 6}
    BY DEF cisco_states
  <2>4. /\ cisco_states[1] = "OK" /\ cisco_states[2] = "WARNING"
        /\ cisco_states[3] = "CRITICAL" /\ cisco_states[4] = "CRITICAL"
        /\ cisco_states[5] = "UNKNOWN" /\ cisco_states[6] = "CRITICAL"
    BY DEF cisco_states
  <2> HIDE DEF v
  <2>5. cisco_state(v) = IF v \in {1, 2, 3, 4, 5, 6} THEN cisco_states[v] ELSE "CRITICAL"
    BY <2>3 DEF cisco_state
  <2> QED BY <2>2, <2>4, <2>5
<1>4. ASSUME p = UnitStatePlugin, v \in 1 .. 4
      PROVE  RowVerdict(p, i) = IF v \in {3, 4} THEN "CRITICAL" ELSE "OK"
  <2>1. p \notin FanPlugins /\ p \notin PsuPlugins /\ p \notin CiscoPlugins
    BY <1>4, TableKinds
  <2>2. RowVerdict(p, i) = UnitStates[v]
    BY <2>1 DEF RowVerdict
  <2> HIDE DEF v
  <2>3. v \in {1, 2, 3, 4}
    BY <1>4
  <2> QED BY <2>2, <2>3 DEF UnitStates
<1> QED BY <1>1, <1>2, <1>3, <1>4

LEMMA RowFaults ==
    ASSUME IInv, RInv, VInv, NEW p \in DOMAIN task, task[p].at = "done"
    PROVE  /\ FanFault(p) => Rank(ExitState) <= Rank("CRITICAL")
           /\ PsuFault(p) => Rank(ExitState) <= Rank("CRITICAL")
           /\ p \in CiscoPlugins /\ Vals(Table[p]) \ {1, 2, 5} # {}
                 => Rank(ExitState) <= Rank("CRITICAL")
           /\ p \in CiscoPlugins /\ 2 \in Vals(Table[p]) => Rank(ExitState) <= Rank("WARNING")
           /\ p = UnitStatePlugin /\ Vals(Table[p]) \cap {3, 4} # {}
                 => Rank(ExitState) <= Rank("CRITICAL")
<1>1. ASSUME p \in RowTellers, NEW i \in DOMAIN Column(Table[p]),
             p = UnitStatePlugin => i \in UnitRows
      PROVE  Rank(ExitState) <= Rank(RowVerdict(p, i))
  <2>1. i \in ToldRows(p)
    <3>1. CASE p = UnitStatePlugin
      BY <1>1, <3>1 DEF RInv, UnitGood
    <3>2. CASE p # UnitStatePlugin
      <4>1. p \in TellsRows /\ p # "brocade_cpu_usage_plugin"
        BY <1>1, <3>2, TableKinds DEF RowTellers, FanPlugins, PsuPlugins, CiscoPlugins
      <4>2. i \in RowsToTell(p)
        BY <1>1, <4>1 DEF RowsToTell
      <4> QED BY <4>1, <4>2 DEF RInv, RowGood
    <3> QED BY <3>1, <3>2
  <2> QED BY <1>1, <2>1, RowHeard
<1>2. FanPlugins \cup PsuPlugins \cup CiscoPlugins \cup {UnitStatePlugin} = RowTellers
      /\ UnitStatePlugin \notin FanPlugins \cup PsuPlugins \cup CiscoPlugins
  BY TableKinds DEF RowTellers
<1>3. ASSUME FanFault(p) PROVE Rank(ExitState) <= Rank("CRITICAL")
  <2>1. PICK i \in DOMAIN Column(Table[p]) : Column(Table[p])[i] # 2
    BY <1>3 DEF FanFault, Vals
  <2>2. RowVerdict(p, i) = "CRITICAL"
    BY <1>3, <2>1, RowVerdicts DEF FanFault
  <2> QED BY <1>1, <1>2, <1>3, <2>2 DEF FanFault
<1>4. ASSUME PsuFault(p) PROVE Rank(ExitState) <= Rank("CRITICAL")
  <2>1. PICK i \in DOMAIN Column(Table[p]) :
          /\ Column(Table[p])[i] \notin {1, 2}
          /\ ~ (Column(Table[p])[i] = 3 /\ PsuIndex(p, i) \in DOMAIN Column(Detail[p])
                 /\ Column(Detail[p])[PsuIndex(p, i)] = "not present")
    BY <1>4 DEF PsuFault
  <2>2. RowVerdict(p, i) = "CRITICAL"
    BY <1>4, <2>1, RowVerdicts DEF PsuFault
  <2> QED BY <1>1, <1>2, <1>4, <2>2 DEF PsuFault
<1>5. ASSUME p \in CiscoPlugins, Vals(Table[p]) \ {1, 2, 5} # {}
      PROVE  Rank(ExitState) <= Rank("CRITICAL")
  <2>1. PICK i \in DOMAIN Column(Table[p]) : Column(Table[p])[i] \notin {1, 2, 5}
    BY <1>5 DEF Vals
  <2>2. RowVerdict(p, i) = "CRITICAL"
    BY <1>5, <2>1, RowVerdicts
  <2> QED BY <1>1, <1>2, <1>5, <2>2
<1>6. ASSUME p \in CiscoPlugins, 2 \in Vals(Table[p])
      PROVE  Rank(ExitState) <= Rank("WARNING")
  <2>1. PICK i \in DOMAIN Column(Table[p]) : Column(Table[p])[i] = 2
    BY <1>6 DEF Vals
  <2>2. RowVerdict(p, i) = "WARNING"
    BY <1>6, <2>1, RowVerdicts
  <2> QED BY <1>1, <1>2, <1>6, <2>2
<1>7. ASSUME p = UnitStatePlugin, Vals(Table[p]) \cap {3, 4} # {}
      PROVE  Rank(ExitState) <= Rank("CRITICAL")
  <2>1. PICK i \in DOMAIN Column(Table[p]) : Column(Table[p])[i] \in {3, 4}
    BY <1>7 DEF Vals
  <2>2. Column(Table[p])[i] \in 1 .. 4
    BY <2>1
  <2>3. i \in UnitRows
    BY <1>7, <2>2 DEF UnitRows
  <2>4. RowVerdict(p, i) = "CRITICAL"
    BY <1>7, <2>1, <2>2, RowVerdicts
  <2> QED BY <1>1, <1>2, <1>7, <2>3, <2>4
<1> QED BY <1>3, <1>4, <1>5, <1>6, <1>7

\* A row with a bad verdict is a fault.
LEMMA RowCauses ==
    ASSUME NEW p \in RowTellers, NEW i \in DOMAIN Column(Table[p]),
           p = UnitStatePlugin => i \in UnitRows,
           RowVerdict(p, i) \in {"CRITICAL", "WARNING"}
    PROVE  Fault(p, RowVerdict(p, i))
<1> DEFINE v == Column(Table[p])[i]
<1>0. v \in Vals(Table[p])
  BY DEF Vals
<1>1. CASE p \in FanPlugins
  <2>1. v # 2 /\ RowVerdict(p, i) = "CRITICAL"
    BY <1>1, RowVerdicts
  <2>2. FanFault(p)
    BY <1>0, <1>1, <2>1 DEF FanFault
  <2> QED BY <2>1, <2>2 DEF Fault
<1>2. CASE p \in PsuPlugins
  <2>1. /\ RowVerdict(p, i) = "CRITICAL" /\ v \notin {1, 2}
        /\ ~ (v = 3 /\ PsuIndex(p, i) \in DOMAIN Column(Detail[p])
                 /\ Column(Detail[p])[PsuIndex(p, i)] = "not present")
    BY <1>2, RowVerdicts
  <2>2. PsuFault(p)
    BY <1>2, <2>1 DEF PsuFault
  <2> QED BY <2>1, <2>2 DEF Fault
<1>3. CASE p \in CiscoPlugins
  <2>1. v \notin {1, 5}
    BY <1>3, RowVerdicts
  <2>2. CASE v = 2
    <3>1. RowVerdict(p, i) = "WARNING" /\ 2 \in Vals(Table[p])
      BY <1>0, <1>3, <2>2, RowVerdicts
    <3> QED BY <1>3, <3>1 DEF Fault
  <2>3. CASE v # 2
    <3>1. RowVerdict(p, i) = "CRITICAL" /\ Vals(Table[p]) \ {1, 2, 5} # {}
      BY <1>0, <1>3, <2>1, <2>3, RowVerdicts
    <3> QED BY <1>3, <3>1 DEF Fault
  <2> QED BY <2>2, <2>3
<1>4. CASE p = UnitStatePlugin
  <2>1. v \in 1 .. 4
    BY <1>4 DEF UnitRows
  <2>2. v \in {3, 4} /\ RowVerdict(p, i) = "CRITICAL"
    BY <1>4, <2>1, RowVerdicts
  <2>3. StackFault(p)
    BY <1>0, <1>4, <2>2 DEF StackFault, UnitStatePlugin
  <2> QED BY <2>2, <2>3 DEF Fault
<1> QED BY <1>1, <1>2, <1>3, <1>4 DEF RowTellers

\* The same of the verdicts on the whole device.
LEMMA WholeVerdicts ==
    ASSUME NEW p \in WholeTellers, WholeKnown(p)
    PROVE  /\ p = StackPlugin =>
                 /\ WholeVerdict(p) \in {"OK", "CRITICAL"}
                 /\ WholeVerdict(p) = "CRITICAL" <=> IsStack /\ Units < 2
           /\ p = TopologyPlugin =>
                 LET v == The("snStackingGlobalTopology")
                 IN  /\ WholeVerdict(p) \in {"OK", "WARNING", "CRITICAL"}
                     /\ WholeVerdict(p) = "CRITICAL" <=> v \notin {2, 3}
                     /\ WholeVerdict(p) = "WARNING" <=> v = 2 /\ Units > 2
           /\ p = UptimePlugin =>
                 LET time  == The("snmpEngineTime")
                     Buggy == /\ The("sysDescr") \in UptimeTypes
                              /\ The("snAgImgVer") < UPTIME_FIX_MIN_VERSION
                 IN  WholeVerdict(p) = IF Buggy /\ (time < 0 \/ time > 1200) THEN "CRITICAL"
                                       ELSE IF Buggy /\ (time < 0 \/ time > 1100) THEN "WARNING"
                                       ELSE "OK"
<1>0. /\ StackPlugin \notin {TopologyPlugin, UptimePlugin}
      /\ TopologyPlugin # UptimePlugin
  BY DEF StackPlugin, TopologyPlugin, UptimePlugin
<1>1. ASSUME p = StackPlugin
      PROVE  /\ WholeVerdict(p) \in {"OK", "CRITICAL"}
             /\ WholeVerdict(p) = "CRITICAL" <=> IsStack /\ Units < 2
  <2>1. IsStack => Units \in Nat
    BY <1>1 DEF WholeKnown
  <2>2. WholeVerdict(p) = IF IsStack /\ Units <= 1 THEN "CRITICAL" ELSE "OK"
    BY <1>1 DEF WholeVerdict
  <2>3. IsStack => (Units <= 1 <=> Units < 2)
    BY <2>1
  <2> QED BY <2>2, <2>3
<1>2. ASSUME p = TopologyPlugin
      PROVE  LET v == The("snStackingGlobalTopology")
             IN  /\ WholeVerdict(p) \in {"OK", "WARNING", "CRITICAL"}
                 /\ WholeVerdict(p) = "CRITICAL" <=> v \notin {2, 3}
                 /\ WholeVerdict(p) = "WARNING" <=> v = 2 /\ Units > 2
  <2>1. Units \in Nat
    BY <1>2 DEF WholeKnown
  <2>2. Units > 2 <=> ~ (Units <= 2)
    BY <2>1
  <2>3. WholeVerdict(p) = TopologyState(The("snStackingGlobalTopology"), Units)
    BY <1>0, <1>2 DEF WholeVerdict
  <2> QED BY <2>2, <2>3 DEF TopologyState
<1>3. ASSUME p = UptimePlugin
      PROVE  LET time  == The("snmpEngineTime")
                 Buggy == /\ The("sysDescr") \in UptimeTypes
                          /\ The("snAgImgVer") < UPTIME_FIX_MIN_VERSION
             IN  WholeVerdict(p) = IF Buggy /\ (time < 0 \/ time > 1200) THEN "CRITICAL"
                                   ELSE IF Buggy /\ (time < 0 \/ time > 1100) THEN "WARNING"
                                   ELSE "OK"
  <2> DEFINE time  == The("snmpEngineTime")
             Buggy == /\ The("sysDescr") \in UptimeTypes
                      /\ The("snAgImgVer") < UPTIME_FIX_MIN_VERSION
  <2>1. PICK limits : limits = UptimeLimits(The("sysDescr"), The("snAgImgVer"))
    OBVIOUS
  <2>2. WholeVerdict(p) = Judge(time, limits[1], limits[2])
    BY <1>0, <1>3, <2>1 DEF WholeVerdict, UptimeVerdict
  <2>3. limits = IF Buggy THEN << UpTo(1100), UpTo(1200) >> ELSE << NoRange, NoRange >>
    BY <2>1 DEF UptimeLimits, Day
  <2>4. 1100 # None /\ 1200 # None
    BY ReportAssumption
  <2>5. CASE Buggy
    <3>1. limits[1] = UpTo(1100) /\ limits[2] = UpTo(1200)
      BY <2>3, <2>5
    <3>2. AlertOf(UpTo(1100), time) <=> time < 0 \/ time > 1100
      BY <2>4, UpToIs
    <3>3. AlertOf(UpTo(1200), time) <=> time < 0 \/ time > 1200
      BY <2>4, UpToIs
    <3> HIDE DEF time, Buggy
    <3>4. Judge(time, limits[1], limits[2])
             = IF time < 0 \/ time > 1200 THEN "CRITICAL"
               ELSE IF time < 0 \/ time > 1100 THEN "WARNING" ELSE "OK"
      BY <3>1, <3>2, <3>3 DEF Judge
    <3> QED BY <2>2, <2>5, <3>4 DEF time, Buggy
  <2>6. CASE ~ Buggy
    <3>1. limits[1] = NoRange /\ limits[2] = NoRange
      BY <2>3, <2>6
    <3>2. WholeVerdict(p) = "OK"
      BY <2>2, <3>1, NoRangeIsOK
    <3> HIDE DEF time, Buggy
    <3> QED BY <2>6, <3>2 DEF time, Buggy
  <2> QED BY <2>5, <2>6
<1> QED BY <1>1, <1>2, <1>3

\* Of the chassis, with sound temperatures.
LEMMA HeatVerdicts ==
    ASSUME Thermometer, NEW act, act = The("snChasActualTemperature"),
           NEW warn, warn = The("snChasWarningTemperature"),
           NEW shut, shut = The("snChasShutdownTemperature")
    PROVE  WholeVerdict(ChassisPlugin) = IF act > shut THEN "CRITICAL"
                                         ELSE IF act > warn \/ act < 0 THEN "WARNING" ELSE "OK"
<1>1. act \in Int /\ warn \in Nat /\ shut \in Nat /\ warn <= shut
  BY DEF Thermometer
<1>2. WholeVerdict(ChassisPlugin) = HeatVerdict(act, warn, shut)
  BY DEF WholeVerdict, ChassisPlugin, StackPlugin, TopologyPlugin, UptimePlugin
<1>3. warn # None /\ shut # None
  BY <1>1, ReportAssumption
<1>4. /\ AlertOf(UpTo(warn), act) <=> act > warn \/ act < 0
      /\ AlertOf(UpTo(shut), act) <=> act > shut \/ act < 0
  BY <1>1, <1>3, UpToIs
<1>5. CASE act < warn
  <2>1. HeatVerdict(act, warn, shut) = Judge(act, UpTo(warn), NoRange)
    BY <1>5 DEF HeatVerdict
  <2>2. ~ (act > warn) /\ ~ (act > shut)
    BY <1>1, <1>5
  <2>3. Judge(act, UpTo(warn), NoRange) = IF act < 0 THEN "WARNING" ELSE "OK"
    BY <1>4, <2>2, UpToIs DEF Judge
  <2> QED BY <1>2, <2>1, <2>2, <2>3
<1>6. CASE ~ (act < warn)
  <2>1. HeatVerdict(act, warn, shut) = Judge(act, UpTo(warn), UpTo(shut))
    BY <1>6 DEF HeatVerdict
  <2>2. ~ (act < 0)
    BY <1>1, <1>6
  <2> QED BY <1>2, <1>4, <2>1, <2>2 DEF Judge
<1> QED BY <1>5, <1>6

\* Of a unit, with sound limits.
LEMMA UnitTooHot ==
    ASSUME Thermometers, NEW i, UnitLimited(i)
    PROVE  /\ UnitHeatVerdict(i) = "CRITICAL"
                 => TooHot("brocade_unit_temperature_plugin", "snChasUnitShutdownTemperature")
           /\ UnitHeatVerdict(i) = "WARNING"
                 => \/ TooHot("brocade_unit_temperature_plugin", "snChasUnitWarningTem")
                    \/ Freezing("brocade_unit_temperature_plugin")
<1> DEFINE warns == "snChasUnitWarningTem"
           shuts == "snChasUnitShutdownTemperature"
           p == "brocade_unit_temperature_plugin"
<1>1. PICK act, warn, shut : /\ act = UnitHeat(i) /\ warn = UnitLimit(warns, i)
                             /\ shut = UnitLimit(shuts, i)
  OBVIOUS
<1>2. /\ i \in DOMAIN Column("snChasUnitActualTemp") /\ i \in DOMAIN Column(warns)
      /\ i = << Last(i) >> /\ act \in Int /\ warn \in Nat
      /\ act < warn \/ (i \in DOMAIN Column(shuts) /\ shut \in Nat)
  BY <1>1 DEF UnitLimited, Thermometers
<1>3. warn = Column(warns)[i] /\ shut = Column(shuts)[i] /\ act = Column(Table[p])[i]
      /\ i \in DOMAIN Column(Table[p])
  BY <1>1, <1>2 DEF UnitLimit, UnitHeat, Table
<1>4. /\ act > warn => TooHot(p, warns)
      /\ act > shut => TooHot(p, shuts)
      /\ act < 0 => Freezing(p)
  BY <1>3 DEF TooHot, Freezing
<1>5. warn # None /\ (shut \in Nat => shut # None)
  BY <1>2, ReportAssumption
<1>6. /\ AlertOf(UpTo(warn), act) <=> act > warn \/ act < 0
      /\ shut \in Nat => (AlertOf(UpTo(shut), act) <=> act > shut \/ act < 0)
  BY <1>2, <1>5, UpToIs
<1>7. UnitHeatVerdict(i) = HeatVerdict(act, warn, shut)
  BY <1>1 DEF UnitHeatVerdict
<1>8. CASE act < warn
  <2>1. HeatVerdict(act, warn, shut) = Judge(act, UpTo(warn), NoRange)
    BY <1>8 DEF HeatVerdict
  <2>2. ~ (act > warn)
    BY <1>2, <1>8
  <2>3. Judge(act, UpTo(warn), NoRange) = IF act < 0 THEN "WARNING" ELSE "OK"
    BY <1>6, <2>2, UpToIs DEF Judge
  <2> QED BY <1>4, <1>7, <2>1, <2>3
<1>9. CASE ~ (act < warn)
  <2>1. HeatVerdict(act, warn, shut) = Judge(act, UpTo(warn), UpTo(shut)) /\ shut \in Nat
    BY <1>2, <1>9 DEF HeatVerdict
  <2>2. ~ (act < 0)
    BY <1>2, <1>9
  <2> QED BY <1>4, <1>6, <1>7, <2>1, <2>2 DEF Judge
<1> QED BY <1>8, <1>9

LEMMA FaultIsSeen ==
    ASSUME IInv, RInv, VInv, NEW p \in DOMAIN task \ Overlooking
    PROVE  Seen(p)
<1> SUFFICES ASSUME NEW st \in {"CRITICAL", "WARNING"}, task[p].at = "done", Fault(p, st)
             PROVE  Rank(ExitState) <= Rank(st)
  BY DEF Seen
<1>1. /\ p \notin {"hp_sensors_plugin", UnitHeatPlugin, VersionPlugin}
      /\ p = ChassisPlugin => Thermometer
      /\ p = VersionsPlugin => Stacked
  BY DEF Overlooking
<1>2. /\ \A limit : ~ TooHot(p, limit)
      /\ \A fine : ~ SensorFault(p, fine)
      /\ ~ VersionFault(p)
  BY <1>1 DEF TooHot, SensorFault, VersionFault, VersionPlugin, UnitHeatPlugin
<1>3. /\ Rank("CRITICAL") \in Nat /\ Rank("WARNING") \in Nat /\ Rank(ExitState) \in Nat
      /\ Rank("CRITICAL") <= Rank("WARNING")
  BY RanksAre, ExitStateIs DEF IInv, States4
<1>4. Rank(ExitState) <= Rank("CRITICAL") => Rank(ExitState) <= Rank(st)
  BY <1>3
<1>5. p \in WholeTellers => WholeKnown(p) /\ Rank(ExitState) <= Rank(WholeVerdict(p))
  BY WholeHeard
<1>6. /\ StackPlugin \in WholeTellers /\ TopologyPlugin \in WholeTellers
      /\ UptimePlugin \in WholeTellers /\ ChassisPlugin \in WholeTellers
  BY DEF WholeTellers
<1>7. CASE \/ FanFault(p) \/ PsuFault(p)
           \/ p \in CiscoPlugins /\ Vals(Table[p]) \ {1, 2, 5} # {}
  BY <1>4, <1>7, RowFaults
<1>8. CASE st = "WARNING" /\ p \in CiscoPlugins /\ 2 \in Vals(Table[p])
  BY <1>8, RowFaults
<1>9. CASE StackFault(p)
  <2>1. CASE p = StackPlugin /\ IsStack /\ Units < 2
    <3>1. WholeVerdict(p) = "CRITICAL"
      BY <1>5, <1>6, <2>1, WholeVerdicts
    <3> QED BY <1>4, <1>5, <1>6, <2>1, <3>1
  <2>2. CASE p = TopologyPlugin /\ OtherThan("snStackingGlobalTopology", {2, 3})
    <3>1. WholeVerdict(p) = "CRITICAL"
      BY <1>5, <1>6, <2>2, WholeVerdicts DEF OtherThan
    <3> QED BY <1>4, <1>5, <1>6, <2>2, <3>1
  <2>3. CASE p = UnitStatePlugin /\ Vals(Table[p]) \cap {3, 4} # {}
    BY <1>4, <2>3, RowFaults
  <2> QED BY <1>9, <2>1, <2>2, <2>3
          DEF StackFault, StackPlugin, TopologyPlugin, UnitStatePlugin
<1>10. CASE st = "WARNING" /\ StackWarning(p)
  <2>1. CASE p = TopologyPlugin /\ Reads("snStackingGlobalTopology", {2}) /\ Units > 2
    <3>1. The("snStackingGlobalTopology") = 2
      BY <2>1 DEF Reads
    <3>2. WholeVerdict(p) = "WARNING"
      BY <1>5, <1>6, <2>1, <3>1, WholeVerdicts
    <3> QED BY <1>5, <1>6, <1>10, <2>1, <3>2
  <2>2. CASE p = VersionsPlugin /\ Differ
    <3>1. VersionsKnow(task[p]) /\ Stacked
      BY <1>1, <2>2 DEF VInv, Knows
    <3>2. alerts["WARNING"] # << >> /\ "WARNING" \in States4
      BY <2>2, <3>1 DEF VersionsKnow, States4
    <3> QED BY <1>10, <3>2, ExitStateIs DEF IInv
  <2> QED BY <1>10, <2>1, <2>2
          DEF StackWarning, TopologyPlugin, VersionsPlugin, Differ, Mixed, Table, Images, Builds
<1>11. CASE DhcpFault(p)
  <2>1. p = DhcpPlugin
    BY <1>11 DEF DhcpFault, DhcpPlugin
  <2>2. DhcpKnows(task[p])
    BY <2>1 DEF VInv, Knows
  <2>3. alerts["CRITICAL"] # << >> /\ "CRITICAL" \in States4
    BY <1>11, <2>1, <2>2 DEF DhcpKnows, States4
  <2> QED BY <1>4, <2>3, ExitStateIs DEF IInv
<1>12. ASSUME NEW days, UpTooLong(p, days), days \in {1100, 1200},
              days = 1200 \/ st = "WARNING"
       PROVE  Rank(ExitState) <= Rank(st)
  <2> DEFINE time == The("snmpEngineTime")
  <2>1. /\ p = UptimePlugin /\ time > days /\ The("sysDescr") \in UptimeTypes
        /\ The("snAgImgVer") < UPTIME_FIX_MIN_VERSION
    BY <1>12 DEF UpTooLong, UptimePlugin
  <2>2. WholeVerdict(p) = IF time < 0 \/ time > 1200 THEN "CRITICAL"
                          ELSE IF time < 0 \/ time > 1100 THEN "WARNING" ELSE "OK"
    BY <1>5, <1>6, <2>1, WholeVerdicts
  <2> HIDE DEF time
  <2>3. WholeVerdict(p) = "CRITICAL" \/ (st = "WARNING" /\ WholeVerdict(p) = "WARNING")
    BY <1>12, <2>1, <2>2
  <2> QED BY <1>4, <1>5, <1>6, <2>1, <2>3
<1>13. ASSUME NEW limit \in {"snChasWarningTemperature", "snChasShutdownTemperature"},
              ChassisTooHot(p, limit), limit = "snChasShutdownTemperature" \/ st = "WARNING"
       PROVE  Rank(ExitState) <= Rank(st)
  <2>1. p = ChassisPlugin /\ Thermometer /\ The("snChasActualTemperature") > The(limit)
    BY <1>1, <1>13 DEF ChassisTooHot, ChassisPlugin
  <2>2. PICK act, warn, shut : /\ act = The("snChasActualTemperature")
                               /\ warn = The("snChasWarningTemperature")
                               /\ shut = The("snChasShutdownTemperature")
    OBVIOUS
  <2>3. WholeVerdict(p) = IF act > shut THEN "CRITICAL"
                          ELSE IF act > warn \/ act < 0 THEN "WARNING" ELSE "OK"
    BY <2>1, <2>2, HeatVerdicts
  <2>4. WholeVerdict(p) = "CRITICAL" \/ (st = "WARNING" /\ WholeVerdict(p) = "WARNING")
    BY <1>13, <2>1, <2>2, <2>3
  <2> QED BY <1>4, <1>5, <1>6, <2>1, <2>4
<1> QED BY <1>2, <1>7, <1>8, <1>9, <1>10, <1>11, <1>12, <1>13 DEF Fault

LEMMA AlarmIsCaused ==
    ASSUME IInv, RInv, VInv
    PROVE  EveryAlarmIsCaused
<1> SUFFICES ASSUME NEW st \in {"CRITICAL", "WARNING"}, NEW j \in 1 .. Len(alerts[st])
             PROVE  /\ about[alerts[st][j]][1] \in DOMAIN task
                    /\ Caused(about[alerts[st][j]][1], st)
  BY DEF EveryAlarmIsCaused
<1>1. PICK k, p, i : k = alerts[st][j] /\ p = about[k][1] /\ i = about[k][2]
  OBVIOUS
<1>2. st \in States4
  BY DEF States4
<1>3. k \in 1 .. Len(about)
  BY <1>1, <1>2, EntriesAre
<1>4. p \in DOMAIN task
  BY <1>1, <1>3 DEF RInv, TellersRun
<1>5. Failed(p, i, st, task[p]) \/ Sayable(p, i, st)
  BY <1>1, <1>2 DEF VInv, AlertsAreRight, Right
<1>6. Fault(p, st) => Caused(p, st)
  <2>1. Rank(st) <= Rank(st)
    BY <1>2, RanksAre
  <2> QED BY <2>1 DEF Caused
<1>7. SUFFICES Caused(p, st)
  BY <1>1, <1>4
<1>8. CASE Failed(p, i, st, task[p])
  BY <1>8 DEF Failed, Caused
<1>9. CASE p \in Opaque
  <2>1. CASE p = AnyPlugin
    <3>1. Knows(p, task[p])
      BY <1>4 DEF VInv
    <3> QED BY <2>1, <3>1 DEF Knows, Caused
  <2>2. CASE p # AnyPlugin
    BY <1>9, <2>2 DEF Caused, Vague
  <2> QED BY <2>1, <2>2
<1>10. CASE p \in RowTellers /\ i \in DOMAIN Column(Table[p]) /\ st = RowVerdict(p, i)
            /\ (p = UnitStatePlugin => i \in UnitRows)
  BY <1>6, <1>10, RowCauses
<1>11. CASE p \in WholeTellers /\ WholeKnown(p) /\ st = WholeVerdict(p)
  <2>1. CASE p = StackPlugin
    <3>1. st = "CRITICAL" /\ IsStack /\ Units < 2
      BY <1>11, <2>1, WholeVerdicts
    <3> QED BY <1>6, <2>1, <3>1 DEF Fault, StackFault, StackPlugin
  <2>2. CASE p = TopologyPlugin
    <3>1. Scalar \in DOMAIN Column("snStackingGlobalTopology")
      BY <1>11, <2>2 DEF WholeKnown
    <3>2. PICK v : v = The("snStackingGlobalTopology")
      OBVIOUS
    <3>3. /\ WholeVerdict(p) = "CRITICAL" <=> v \notin {2, 3}
          /\ WholeVerdict(p) = "WARNING" <=> v = 2 /\ Units > 2
      BY <1>11, <2>2, <3>2, WholeVerdicts
    <3>4. CASE st = "CRITICAL"
      <4>1. The("snStackingGlobalTopology") \notin {2, 3}
        BY <1>11, <3>4, <3>2, <3>3
      <4>2. StackFault(p)
        BY <2>2, <3>1, <4>1 DEF StackFault, OtherThan, TopologyPlugin
      <4> QED BY <1>6, <3>4, <4>2 DEF Fault
    <3>5. CASE st = "WARNING"
      <4>1. The("snStackingGlobalTopology") = 2 /\ Units > 2
        BY <1>11, <3>5, <3>2, <3>3
      <4>2. StackWarning(p)
        BY <2>2, <3>1, <4>1 DEF StackWarning, Reads, TopologyPlugin
      <4> QED BY <1>6, <3>5, <4>2 DEF Fault
    <3> QED BY <3>4, <3>5
  <2>3. CASE p = UptimePlugin
    <3>1. CASE ~ Clock
      BY <2>3, <3>1 DEF Caused, Vague
    <3>2. CASE Clock
      <4> DEFINE time  == The("snmpEngineTime")
                 Buggy == /\ The("sysDescr") \in UptimeTypes
                          /\ The("snAgImgVer") < UPTIME_FIX_MIN_VERSION
      <4>1. time \in Nat
        BY <1>11, <2>3, <3>2 DEF WholeKnown, Clock
      <4>2. st = IF Buggy /\ (time < 0 \/ time > 1200) THEN "CRITICAL"
                 ELSE IF Buggy /\ (time < 0 \/ time > 1100) THEN "WARNING" ELSE "OK"
        BY <1>11, <2>3, WholeVerdicts
      <4>3. /\ Buggy /\ st = "CRITICAL" => time > 1200
            /\ st = "WARNING" => time > 1100
        <5> HIDE DEF time, Buggy
        <5> QED BY <4>1, <4>2
      <4>4. /\ st = "CRITICAL" => UpTooLong(p, 1200)
            /\ st = "WARNING" => UpTooLong(p, 1100)
        <5>1. Buggy
          <6> HIDE DEF time, Buggy
          <6> QED BY <4>2
        <5> QED BY <2>3, <4>3, <5>1 DEF UpTooLong, UptimePlugin
      <4>5. Fault(p, st)
        BY <4>4 DEF Fault
      <4> QED BY <1>6, <4>5
    <3> QED BY <3>1, <3>2
  <2>4. CASE p = ChassisPlugin
    <3>1. CASE ~ Thermometer
      BY <2>4, <3>1 DEF Caused, Vague
    <3>2. CASE Thermometer
      <4>1. PICK act, warn, shut : /\ act = The("snChasActualTemperature")
                                   /\ warn = The("snChasWarningTemperature")
                                   /\ shut = The("snChasShutdownTemperature")
        OBVIOUS
      <4>2. st = IF act > shut THEN "CRITICAL"
                 ELSE IF act > warn \/ act < 0 THEN "WARNING" ELSE "OK"
        BY <1>11, <2>4, <3>2, <4>1, HeatVerdicts
      <4>3. /\ st = "CRITICAL" => ChassisTooHot(p, "snChasShutdownTemperature")
            /\ st = "WARNING" => \/ ChassisTooHot(p, "snChasWarningTemperature")
                                 \/ Freezing(p)
        BY <2>4, <4>1, <4>2 DEF ChassisTooHot, ChassisPlugin, Freezing
      <4>4. Fault(p, st) \/ (st = "WARNING" /\ Freezing(p))
        BY <4>3 DEF Fault
      <4> QED BY <1>6, <4>4 DEF Caused
    <3> QED BY <3>1, <3>2
  <2> QED BY <1>11, <2>1, <2>2, <2>3, <2>4 DEF WholeTellers
<1>12. CASE p = DhcpPlugin /\ st = "CRITICAL" /\ DhcpFault(p)
  <2>1. Fault(p, st)
    BY <1>12 DEF Fault
  <2> QED BY <1>6, <2>1
<1>13. CASE p = VersionPlugin /\ st = "WARNING" /\ VersionFault(p)
  <2>1. Fault(p, st)
    BY <1>13 DEF Fault
  <2> QED BY <1>6, <2>1
<1>14. CASE p = VersionsPlugin /\ st = "WARNING" /\ Differ
  <2>1. Vals(Images) # {}
    BY <1>14, FS_EmptySet DEF Differ, Mixed
  <2>2. StackWarning(p)
    BY <1>14, <2>1 DEF StackWarning, VersionsPlugin, Differ, Mixed, Table, Images, Builds
  <2>3. Fault(p, st)
    BY <1>14, <2>2 DEF Fault
  <2> QED BY <1>6, <2>3
<1>15. CASE p = UnitHeatPlugin /\ UnitLimited(i) /\ st = UnitHeatVerdict(i)
  <2>1. CASE ~ Thermometers
    BY <1>15, <2>1 DEF Caused, Vague
  <2>2. CASE Thermometers
    <3>1. /\ st = "CRITICAL" => TooHot(p, "snChasUnitShutdownTemperature")
          /\ st = "WARNING" => TooHot(p, "snChasUnitWarningTem") \/ Freezing(p)
      BY <1>15, <2>2, UnitTooHot DEF UnitHeatPlugin
    <3>2. Fault(p, st) \/ (st = "WARNING" /\ Freezing(p))
      BY <3>1 DEF Fault
    <3> QED BY <1>6, <3>2 DEF Caused
  <2> QED BY <2>1, <2>2
<1> QED BY <1>5, <1>8, <1>9, <1>10, <1>11, <1>12, <1>13, <1>14, <1>15 DEF Sayable

LEMMA FaultsNow ==
    ASSUME IInv, RInv, VInv
    PROVE  EveryFaultIsSeen /\ (DOMAIN task \cap Overlooking = {} => FaultsAreSeen)
<1>1. ASSUME NEW p \in DOMAIN task, task[p].at = "failed" PROVE ExitState = "CRITICAL"
  <2>1. alerts["CRITICAL"] # << >> /\ "CRITICAL" \in States4
    BY <1>1 DEF VInv, States4
  <2>2. ExitState \in States4 /\ Rank(ExitState) <= Rank("CRITICAL")
    BY <2>1, ExitStateIs DEF IInv
  <2> QED BY <2>2, RanksAre
<1>2. \A p \in DOMAIN task \ Overlooking : Seen(p)
  BY FaultIsSeen
<1> QED BY <1>1, <1>2 DEF EveryFaultIsSeen, FaultsAreSeen, Seen

LEMMA AlarmsNow ==
    ASSUME IInv, RInv, VInv
    PROVE  EveryAlarmIsCaused /\ (DOMAIN task \cap Vague = {} => AlarmsHaveACause)
<1>1. EveryAlarmIsCaused
  BY AlarmIsCaused
<1>2. ASSUME DOMAIN task \cap Vague = {}, ExitState \in {"CRITICAL", "WARNING"}
      PROVE  \E p \in DOMAIN task :
                \/ task[p].at \in {"failed", AnyPlugin}
                \/ ExitState = "WARNING" /\ Freezing(p)
                \/ \E st \in Range(States) : Fault(p, st) /\ Rank(st) <= Rank(ExitState)
  <2>1. PICK st \in {"CRITICAL", "WARNING"} : st = ExitState
    BY <1>2
  <2>2. alerts[st] # << >> /\ st \in States4
    BY <2>1, ExitStateIs DEF IInv, States4
  <2>3. 1 \in 1 .. Len(alerts[st])
    <3>1. alerts[st] \in Seq(1 .. made)
      BY <2>2 DEF IInv, Kept, Numbered
    <3> QED BY <2>2, <3>1
  <2>4. PICK p \in DOMAIN task : Caused(p, st)
    BY <1>1, <2>3 DEF EveryAlarmIsCaused
  <2>5. {"CRITICAL", "WARNING"} \subseteq Range(States)
    BY StatesAre DEF States4
  <2> QED BY <1>2, <2>1, <2>4, <2>5 DEF Caused
<1> QED BY <1>1, <1>2 DEF AlarmsHaveACause

LEMMA RightAlways == PluginSpec => [](IInv /\ DInv /\ RInv /\ VInv)
<1>1. PluginInit => IInv /\ DInv /\ RInv /\ VInv
  BY InitGood, InitDetects, InitRows, InitRight
<1>2. IInv /\ DInv /\ RInv /\ VInv /\ [PluginNext]_pluginVars => (IInv /\ DInv /\ RInv /\ VInv)'
  BY StepGood, StepDetects, StepRows, StepRight
<1> QED BY <1>1, <1>2, PTL DEF PluginSpec

(* A plugin that failed makes the exit state CRITICAL, and a plugin that has *)
(* ended has seen every fault it looks for, in whatever row, in whatever     *)
(* order answers came and whatever others reported: the exit state is as bad *)
(* as the fault.  It is shown of all plugins but those in Overlooking: three *)
(* may miss a fault (hp_sensors, the temperature of units, versions), the    *)
(* versions of a stack need one row per unit, and the chassis needs numbers  *)
(* as temperatures, with limits not below 0.  For a device whose plugins are *)
(* all among those shown, it is FaultsAreSeen.                               *)
THEOREM FaultsSeen ==
    PluginSpec => [](EveryFaultIsSeen /\ (DOMAIN task \cap Overlooking = {} => FaultsAreSeen))
<1>1. IInv /\ DInv /\ RInv /\ VInv
         => EveryFaultIsSeen /\ (DOMAIN task \cap Overlooking = {} => FaultsAreSeen)
  BY FaultsNow
<1> QED BY <1>1, RightAlways, PTL

(* Each alert that says CRITICAL or WARNING was told by a plugin that was    *)
(* started, which failed or looks for a fault at least as bad that the       *)
(* device has: the verdict follows from the device, not from the order of    *)
(* answers or from values kept of another row.  The one WARNING without a    *)
(* fault is that of a temperature below 0 (Freezing).  It is shown of all    *)
(* plugins but those in Vague: hp_sensors, temperatures whose limits are     *)
(* below 0, are missing or are not numbers, and an uptime that is no number. *)
(* For a device without these it is AlarmsHaveACause.                        *)
THEOREM AlarmsCaused ==
    PluginSpec => [](EveryAlarmIsCaused /\ (DOMAIN task \cap Vague = {} => AlarmsHaveACause))
<1>1. IInv /\ DInv /\ RInv /\ VInv
         => EveryAlarmIsCaused /\ (DOMAIN task \cap Vague = {} => AlarmsHaveACause)
  BY AlarmsNow
<1> QED BY <1>1, RightAlways, PTL
=============================================================================
