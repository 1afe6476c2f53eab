-------------------------- MODULE WalkfilterProofs --------------------------
(* Walkfilter, for any mapping file, any walks, any number of processes, and *)
(* jobs that fail or die anywhere: what it writes is filtered, always; of    *)
(* rules that share no destination, destinations are never partial, and      *)
(* success means that all of them were made.                                 *)
EXTENDS Walkfilter, OidsProofs, SequenceTheorems, FiniteSetTheorems

-----------------------------------------------------------------------------
(* Filtering line by line.                                                   *)

\* f is what has been written after each of the first m lines.
KeepsUpTo(lines, f, m) ==
    /\ f \in [0 .. m -> Content]
    /\ f[0] = << >>
    /\ \A i \in 1 .. m : f[i] = IF Queried(lines[i]) THEN Append(f[i - 1], lines[i]) ELSE f[i - 1]

\* However many lines there are, there is such a function: by least counterexample.
LEMMA KeepsExists ==
    ASSUME NEW lines \in Content
    PROVE  \A m \in 0 .. Len(lines) : \E f : KeepsUpTo(lines, f, m)
<1> DEFINE Bad == {m \in 0 .. Len(lines) : ~ \E f : KeepsUpTo(lines, f, m)}
<1>1. SUFFICES ASSUME Bad # {} PROVE FALSE
  OBVIOUS
<1>2. Len(lines) \in Nat /\ \A i \in 1 .. Len(lines) : lines[i] \in Oid \cup {Garbage}
  BY DEF Content
<1>3. PICK m \in Bad : \A k \in Bad : m <= k
  <2>1. Bad \in SUBSET Nat
    BY <1>2
  <2> HIDE DEF Bad
  <2> QED BY <1>1, <2>1, LeastNat
<1>4. CASE m = 0
  <2> DEFINE f == [i \in 0 .. 0 |-> << >>]
  <2>1. << >> \in Content
    BY DEF Content
  <2>2. KeepsUpTo(lines, f, 0)
    BY <2>1 DEF KeepsUpTo
  <2> QED BY <1>3, <1>4, <2>2
<1>5. CASE m # 0
  <2>1. m \in 1 .. Len(lines) /\ m - 1 \in 0 .. Len(lines) /\ m - 1 \notin Bad
    BY <1>2, <1>3, <1>5
  <2>2. PICK g : KeepsUpTo(lines, g, m - 1)
    BY <2>1
  <2> DEFINE e == IF Queried(lines[m]) THEN Append(g[m - 1], lines[m]) ELSE g[m - 1]
             f == [i \in 0 .. m |-> IF i = m THEN e ELSE g[i]]
  <2>3. g \in [0 .. m - 1 -> Content] /\ m - 1 \in 0 .. m - 1
    BY <2>1, <2>2 DEF KeepsUpTo
  <2>4. e \in Content
    <3>1. g[m - 1] \in Content /\ lines[m] \in Oid \cup {Garbage}
      BY <1>2, <2>1, <2>3
    <3>2. Append(g[m - 1], lines[m]) \in Content
      BY <3>1 DEF Content
    <3> QED BY <3>1, <3>2
  <2>5. f \in [0 .. m -> Content]
    <3> HIDE DEF e
    <3> QED BY <2>1, <2>3, <2>4
  <2>6. f[0] = << >>
    BY <2>1, <2>2 DEF KeepsUpTo
  <2>7. ASSUME NEW i \in 1 .. m
        PROVE  f[i] = IF Queried(lines[i]) THEN Append(f[i - 1], lines[i]) ELSE f[i - 1]
    <3>1. f[i - 1] = g[i - 1]
      BY <2>1
    <3>2. CASE i = m
      <4>1. f[i] = e
        BY <3>2, <2>1
      <4> QED BY <3>1, <3>2, <4>1
    <3>3. CASE i # m
      <4>1. f[i] = g[i] /\ i \in 1 .. m - 1
        BY <3>3, <2>1
      <4> HIDE DEF f
      <4> QED BY <3>1, <4>1, <2>2 DEF KeepsUpTo
    <3> QED BY <3>2, <3>3
  <2>8. KeepsUpTo(lines, f, m)
    <3> HIDE DEF f
    <3> QED BY <2>5, <2>6, <2>7 DEF KeepsUpTo
  <2> QED BY <1>3, <2>8
<1> QED BY <1>4, <1>5

\* So Kept is that function.
LEMMA KeptIs ==
    ASSUME NEW lines \in Content
    PROVE  KeepsUpTo(lines, Kept(lines), Len(lines))
<1> DEFINE n == Len(lines)
           G(f) == [i \in 0 .. n |->
                      IF i = 0 THEN << >>
                      ELSE IF Queried(lines[i]) THEN Append(f[i - 1], lines[i]) ELSE f[i - 1]]
           k == CHOOSE f : f = G(f)
<1>0. n \in Nat
  BY DEF Content
<1>1. PICK f : KeepsUpTo(lines, f, n)
  BY <1>0, KeepsExists
<1>2. f = G(f)
  <2>1. f = [i \in 0 .. n |-> f[i]]
    BY <1>1 DEF KeepsUpTo
  <2>2. \A i \in 0 .. n :
           f[i] = IF i = 0 THEN << >>
                  ELSE IF Queried(lines[i]) THEN Append(f[i - 1], lines[i]) ELSE f[i - 1]
    <3> SUFFICES ASSUME NEW i \in 0 .. n
                 PROVE  f[i] = IF i = 0 THEN << >>
                               ELSE IF Queried(lines[i]) THEN Append(f[i - 1], lines[i])
                               ELSE f[i - 1]
      OBVIOUS
    <3>1. CASE i = 0
      BY <3>1, <1>1 DEF KeepsUpTo
    <3>2. CASE i \in 1 .. n
      <4>1. f[i] = IF Queried(lines[i]) THEN Append(f[i - 1], lines[i]) ELSE f[i - 1]
        BY <3>2, <1>1 DEF KeepsUpTo
      <4>2. i # 0
        BY <3>2
      <4> QED BY <4>1, <4>2
    <3> QED BY <3>1, <3>2, <1>0
  <2>3. [i \in 0 .. n |-> f[i]] = G(f)
    BY <2>2
  <2> HIDE DEF G
  <2> QED BY <2>1, <2>3
<1>3. k = G(k)
  BY <1>2, Zenon
<1>4. Kept(lines) = k
  BY Zenon DEF Kept
<1> HIDE DEF k
<1>g. \A h : /\ DOMAIN G(h) = 0 .. n /\ G(h) = [i \in 0 .. n |-> G(h)[i]]
             /\ G(h)[0] = << >>
             /\ \A i \in 1 .. n :
                  G(h)[i] = IF Queried(lines[i]) THEN Append(h[i - 1], lines[i]) ELSE h[i - 1]
  BY <1>0
<1> HIDE DEF G
<1>5. k[0] = << >> /\ DOMAIN k = 0 .. n /\ k = [i \in 0 .. n |-> k[i]]
  BY <1>3, <1>g
<1>6. ASSUME NEW i \in 1 .. n
      PROVE  k[i] = IF Queried(lines[i]) THEN Append(k[i - 1], lines[i]) ELSE k[i - 1]
  BY <1>3, <1>g
<1> DEFINE Bad == {i \in 0 .. n : k[i] # f[i]}
<1>7. Bad = {}
  <2> SUFFICES ASSUME Bad # {} PROVE FALSE
    OBVIOUS
  <2>1. PICK m \in Bad : \A j \in Bad : m <= j
    <3>1. Bad \in SUBSET Nat
      BY <1>0
    <3> HIDE DEF Bad
    <3> QED BY <3>1, LeastNat
  <2>2. m # 0
    BY <1>5, <1>1 DEF KeepsUpTo
  <2>3. m \in 1 .. n /\ m - 1 \in 0 .. n /\ k[m - 1] = f[m - 1]
    BY <1>0, <2>1, <2>2
  <2>4. k[m] = f[m]
    BY <1>1, <1>6, <2>3 DEF KeepsUpTo
  <2> QED BY <2>1, <2>4
<1>8. k = f
  <2>1. f = [i \in 0 .. n |-> f[i]] /\ k = [i \in 0 .. n |-> k[i]]
    BY <1>1, <1>5 DEF KeepsUpTo
  <2> QED BY <1>7, <2>1
<1> QED BY <1>1, <1>4, <1>8

-----------------------------------------------------------------------------
(* The inductive invariant.  Part of it is about every job; what a job has   *)
(* done so far to its files is about jobs that have their destination alone. *)

Places == Paths \cup {Stdout} \cup Temps

Job == [at     : {"queued", "source", "tmp", "lines", "cleanup", "done", "killed"},
        todo   : Content,
        out    : Places \cup {Absent},
        pos    : Nat,
        result : {"pending", "ok", "failed"}]

Rec(a, t, o, p, r) == [at |-> a, todo |-> t, out |-> o, pos |-> p, result |-> r]

\* Whole filters of one of the contents E that a source has had.
FiltersOf(E) == {Filtered(l) : l \in {l \in E \ {Absent} : Garbage \notin Range(l)}}

\* The rest of a source is to do, and the rest of its filter to be written.
Doing(todo, lines, E) ==
    \E l \in E \ {Absent} : \E k \in 0 .. Len(l) :
        /\ todo = SubSeq(l, k + 1, Len(l))
        /\ lines = Kept(l)[k]
        /\ \A i \in 1 .. k : l[i] # Garbage

AllQueried(lines) == lines \in Content /\ \A i \in 1 .. Len(lines) : Queried(lines[i])

\* What is true of every job in the files F, when it opens the place: whatever
\* has been renamed or removed under it, it writes to a file of filtered lines.
JobSound(mode, job, place, dst, F) ==
    /\ mode = "filter" => job.at \in {"lines", "cleanup", "done"}
    /\ job.at = "done" => job.result # "pending"
    /\ job.at \in {"queued", "source", "tmp"} => job.pos = 0
    /\ job.at = "lines" => F[place] = Absent \/ AllQueried(F[place])
    /\ job.out = Absent \/ (job.out \in {place, dst} /\ AllQueried(F[job.out]))

\* What a job that is alone has done so far to the lines in its place, and to its
\* destination, when its source has had the contents E.
JobRight(mode, job, place, lines, dst, E) ==
    /\ job.at = "tmp" => job.todo \in E
    /\ job.at = "lines" => job.out = place /\ job.pos = Len(lines) /\ Doing(job.todo, lines, E)
    /\ job.at = "cleanup" /\ job.result = "pending" => mode # "filter" /\ dst \in FiltersOf(E)
    /\ job.result = "ok" =>
          job.at = "done" /\ (IF mode = "filter" THEN lines ELSE dst) \in FiltersOf(E)
    /\ job.at = "done" /\ mode # "filter" => lines = Absent

Shapes ==
    /\ input \in Inputs
    /\ files \in [Places -> Content \cup {Absent}]
    /\ ever \in [Paths -> SUBSET (Content \cup {Absent})]
    /\ jobs \in Seq(Job) /\ broken \in BOOLEAN
    /\ main \in {"submit", "collect", "ok", "failed"}

Submitted ==
    /\ Len(jobs) <= Len(input.rules)
    /\ \A j \in 1 .. Len(jobs) : Rule(j) # Garbage
    /\ main \in {"collect", "ok"} => Len(jobs) = Len(input.rules)
    /\ input.mode = "filter" => main # "submit" /\ Len(jobs) = 1
    /\ broken => input.mode = "pool"
    /\ main = "ok" => \A j \in 1 .. Len(jobs) : Is(j, "ok")

Busy == Cardinality(Running) <= Workers

\* ever has what each path had at the start and has now.
Remembered == \A p \in Paths : input.files[p] \in ever[p] /\ files[p] \in ever[p]

Old(p) == IF p = Stdout THEN << >> ELSE input.files[p]

Clean == \A p \in Places : files[p] \in {Old(p), Absent} \/ AllQueried(files[p])

JobsSound == \A j \in 1 .. Len(jobs) : JobSound(input.mode, jobs[j], Out(j), Dst(j), files)

JobsRight == \A j \in 1 .. Len(jobs) :
                Alone(j) => JobRight(input.mode, jobs[j], Out(j), files[Out(j)], files[Dst(j)],
                                     ever[Src(j)])

\* Also the rules that are not yet submitted have their destinations whole.
Whole == \A r \in 1 .. Len(input.rules) :
            Rule(r) # Garbage /\ Alone(r) =>
               \/ files[Dst(r)] = input.files[Dst(r)]
               \/ files[Dst(r)] \in FiltersOf(ever[Src(r)])

IInv == /\ Shapes /\ Submitted /\ Busy /\ Remembered /\ Clean
        /\ JobsSound /\ JobsRight /\ Whole

-----------------------------------------------------------------------------
(* Rules, their files and what jobs know.                                    *)

\* What has been written is lines, and all of them are queried.
LEMMA KeptClean ==
    ASSUME NEW l \in Content, NEW k \in 0 .. Len(l)
    PROVE  AllQueried(Kept(l)[k])
<1> DEFINE f == Kept(l)
           Bad == {i \in 0 .. Len(l) : ~ AllQueried(f[i])}
<1>1. KeepsUpTo(l, f, Len(l)) /\ Len(l) \in Nat
  BY KeptIs DEF Content
<1> HIDE DEF f
<1>2. Bad = {}
  <2> SUFFICES ASSUME Bad # {} PROVE FALSE
    OBVIOUS
  <2>1. PICK m \in Bad : \A j \in Bad : m <= j
    <3>1. Bad \in SUBSET Nat
      BY <1>1
    <3> HIDE DEF Bad
    <3> QED BY <3>1, LeastNat
  <2>2. f[0] = << >> /\ << >> \in Content
    BY <1>1 DEF KeepsUpTo, Content
  <2>3. m # 0
    BY <2>1, <2>2 DEF AllQueried
  <2>4. m \in 1 .. Len(l) /\ m - 1 \in 0 .. Len(l) /\ AllQueried(f[m - 1])
    BY <1>1, <2>1, <2>3
  <2>5. l[m] \in Oid \cup {Garbage}
    BY <2>4 DEF Content
  <2>6. CASE Queried(l[m])
    <3>1. f[m] = Append(f[m - 1], l[m])
      BY <1>1, <2>4, <2>6 DEF KeepsUpTo
    <3>2. f[m - 1] \in Seq(Oid \cup {Garbage}) /\ \A i \in 1 .. Len(f[m - 1]) : Queried(f[m - 1][i])
      BY <2>4 DEF AllQueried, Content
    <3> DEFINE g == f[m - 1]
    <3> HIDE DEF g
    <3>3. /\ Append(g, l[m]) \in Seq(Oid \cup {Garbage})
          /\ \A i \in 1 .. Len(Append(g, l[m])) :
                Append(g, l[m])[i] = IF i = Len(g) + 1 THEN l[m] ELSE g[i]
          /\ Len(Append(g, l[m])) = Len(g) + 1 /\ Len(g) \in Nat
      BY <2>5, <3>2 DEF g
    <3>4. \A i \in 1 .. Len(Append(g, l[m])) : Queried(Append(g, l[m])[i])
      BY <2>6, <3>2, <3>3 DEF g
    <3> QED BY <2>1, <3>1, <3>3, <3>4 DEF AllQueried, Content, g
  <2>7. CASE ~ Queried(l[m])
    <3>1. f[m] = f[m - 1]
      BY <1>1, <2>4, <2>7 DEF KeepsUpTo
    <3> QED BY <2>1, <2>4, <3>1
  <2> QED BY <2>6, <2>7
<1> QED BY <1>2 DEF f

\* What a job knows stays right when its source gets more contents.
LEMMA JobRightWidens ==
    ASSUME NEW mode, NEW job, NEW place, NEW lines, NEW dst, NEW E, NEW F, E \subseteq F,
           JobRight(mode, job, place, lines, dst, E)
    PROVE  JobRight(mode, job, place, lines, dst, F)
<1>1. FiltersOf(E) \subseteq FiltersOf(F)
  BY DEF FiltersOf
<1>2. \A todo : Doing(todo, lines, E) => Doing(todo, lines, F)
  BY DEF Doing
<1> QED BY <1>1, <1>2 DEF JobRight

\* A rule names two files; the main process has read it once.
LEMMA RulesAre ==
    ASSUME input \in Inputs
    PROVE  /\ Len(input.rules) \in Nat /\ input.mode \in {"filter", "pool", "sync"}
           /\ \A p \in Paths \cup Temps : input.files[p] \in Content \cup {Absent}
           /\ \A r \in 1 .. Len(input.rules) :
                 Rule(r) # Garbage => r \in Rules /\ Dst(r) \in Paths /\ Src(r) \in Paths
           /\ input.mode = "filter" =>
                 Len(input.rules) = 1 /\ Rule(1) # Garbage /\ input.files[Src(1)] # Absent
<1> DEFINE R == [dst : Paths, src : Paths] \cup {Garbage}
<1>1. /\ input \in [rules : Seq(R), files : [Paths \cup Temps -> Content \cup {Absent}],
                    mode : {"filter", "pool", "sync"}]
      /\ input.mode = "filter" =>
            /\ Len(input.rules) = 1 /\ input.rules[1] # Garbage
            /\ input.files[input.rules[1].src] # Absent
  BY WalkfilterAssumption
<1>2. input.rules \in Seq(R)
  BY <1>1
<1>3. /\ Len(input.rules) \in Nat /\ DOMAIN input.rules = 1 .. Len(input.rules)
      /\ \A r \in 1 .. Len(input.rules) : input.rules[r] \in R
  BY <1>2
<1>4. \A r \in 1 .. Len(input.rules) :
         Rule(r) # Garbage => r \in Rules /\ Dst(r) \in Paths /\ Src(r) \in Paths
  BY <1>3 DEF Rule, Dst, Src, Rules
<1>5. \A p \in Paths \cup Temps : input.files[p] \in Content \cup {Absent}
  BY <1>1
<1> QED BY <1>1, <1>3, <1>4, <1>5 DEF Rule, Dst, Src

\* Where a job writes is no rule's file; jobs that write to one place have one
\* destination, and one that is alone shares neither.
LEMMA Outs ==
    ASSUME Shapes, Submitted
    PROVE  \A j \in 1 .. Len(jobs) :
              /\ j \in 1 .. Len(input.rules) /\ Dst(j) \in Paths /\ Src(j) \in Paths
              /\ Out(j) \in Places \ Paths /\ Dst(j) \in Places
              /\ \A k \in 1 .. Len(jobs) :
                    /\ Out(j) = Out(k) => Dst(j) = Dst(k)
                    /\ Alone(k) /\ j # k => Out(j) # Out(k) /\ Dst(j) # Dst(k)
                    /\ input.mode = "filter" => j = k
<1> SUFFICES ASSUME NEW j \in 1 .. Len(jobs)
             PROVE  /\ j \in 1 .. Len(input.rules) /\ Dst(j) \in Paths /\ Src(j) \in Paths
                    /\ Out(j) \in Places \ Paths /\ Dst(j) \in Places
                    /\ \A k \in 1 .. Len(jobs) :
                          /\ Out(j) = Out(k) => Dst(j) = Dst(k)
                          /\ Alone(k) /\ j # k => Out(j) # Out(k) /\ Dst(j) # Dst(k)
                          /\ input.mode = "filter" => j = k
  OBVIOUS
<1>0. Len(jobs) \in Nat /\ Len(input.rules) \in Nat
  BY RulesAre DEF Shapes
<1>1. \A k \in 1 .. Len(jobs) :
         k \in 1 .. Len(input.rules) /\ k \in Rules /\ Dst(k) \in Paths /\ Src(k) \in Paths
  BY <1>0, RulesAre DEF Shapes, Submitted
<1>2. \A k \in 1 .. Len(jobs) : Alone(k) /\ j # k => Dst(j) # Dst(k)
  BY <1>1 DEF Alone
<1>3. Out(j) \in Places \ Paths /\ Dst(j) \in Places
  BY <1>1, WalkfilterAssumption DEF Out, Places, Temps
<1>4. ASSUME NEW k \in 1 .. Len(jobs), input.mode = "filter" PROVE j = k
  <2>1. Len(jobs) = 1
    BY <1>4 DEF Submitted
  <2> QED BY <2>1
<1>5. ASSUME NEW k \in 1 .. Len(jobs), Out(j) = Out(k) PROVE Dst(j) = Dst(k)
  <2>1. CASE input.mode = "filter"
    BY <1>4, <2>1
  <2>2. CASE input.mode # "filter"
    BY <1>5, <2>2 DEF Out, Tmp
  <2> QED BY <2>1, <2>2
<1> QED BY <1>1, <1>2, <1>3, <1>4, <1>5

\* Jobs, one by one.
LEMMA JobsAre ==
    ASSUME Shapes
    PROVE  /\ Len(jobs) \in Nat /\ DOMAIN jobs = 1 .. Len(jobs)
           /\ \A j \in 1 .. Len(jobs) :
                 /\ jobs[j] \in Job
                 /\ jobs[j] = Rec(jobs[j].at, jobs[j].todo, jobs[j].out, jobs[j].pos,
                                  jobs[j].result)
<1>1. /\ Len(jobs) \in Nat /\ DOMAIN jobs = 1 .. Len(jobs)
      /\ \A j \in 1 .. Len(jobs) : jobs[j] \in Job
  BY DEF Shapes
<1>2. \A b \in Job : b = Rec(b.at, b.todo, b.out, b.pos, b.result)
  BY DEF Job, Rec
<1> QED BY <1>1, <1>2

LEMMA RecIs ==
    \A a, t, o, p, r : /\ Rec(a, t, o, p, r).at = a /\ Rec(a, t, o, p, r).todo = t
                       /\ Rec(a, t, o, p, r).out = o /\ Rec(a, t, o, p, r).pos = p
                       /\ Rec(a, t, o, p, r).result = r
BY DEF Rec

-----------------------------------------------------------------------------
(* Steps.                                                                    *)

Idle == {"queued", "done", "killed"}

LEMMA RunningIs ==
    ASSUME Shapes
    PROVE  /\ IsFiniteSet(Running) /\ Cardinality(Running) \in Nat
           /\ Running = {j \in 1 .. Len(jobs) : jobs[j].at \notin Idle}
<1>1. Running \in SUBSET (1 .. Len(jobs)) /\ Len(jobs) \in Nat
  BY JobsAre DEF Running
<1>2. IsFiniteSet(Running)
  <2>1. IsFiniteSet(1 .. Len(jobs))
    BY <1>1, FS_Interval
  <2> QED BY <1>1, <2>1, FS_Subset
<1> QED BY <1>2, FS_CardinalityType, JobsAre DEF Running, Idle

\* A job that worked already, or takes a free process, leaves no more busy
\* processes than there are.
LEMMA BusyKept ==
    ASSUME Shapes, Busy, NEW j,
           Running' \subseteq Running \cup {j},
           j \in Running \/ Cardinality(Running) < Workers
    PROVE  Busy'
<1>1. IsFiniteSet(Running) /\ Cardinality(Running) \in Nat /\ Workers \in Nat
  BY RunningIs, WalkfilterAssumption
<1>2. CASE j \in Running
  <2>1. Running' \subseteq Running
    BY <1>2
  <2>2. Cardinality(Running') <= Cardinality(Running) /\ Cardinality(Running') \in Nat
    BY <1>1, <2>1, FS_Subset, FS_CardinalityType
  <2> QED BY <1>1, <2>2 DEF Busy
<1>3. CASE j \notin Running /\ Cardinality(Running) < Workers
  <2>1. /\ IsFiniteSet(Running \cup {j})
        /\ Cardinality(Running \cup {j}) = Cardinality(Running) + 1
    BY <1>1, <1>3, FS_AddElement
  <2>2. Cardinality(Running') <= Cardinality(Running \cup {j}) /\ Cardinality(Running') \in Nat
    BY <2>1, FS_Subset, FS_CardinalityType
  <2> QED BY <1>1, <1>3, <2>1, <2>2 DEF Busy
<1> QED BY <1>2, <1>3

\* The rules and what is known of them do not change.
LEMMA SameRules ==
    ASSUME UNCHANGED input
    PROVE  \A r : /\ Rule(r)' = Rule(r) /\ Dst(r)' = Dst(r) /\ Src(r)' = Src(r)
                  /\ Out(r)' = Out(r) /\ (Alone(r)' <=> Alone(r)) /\ Old(r)' = Old(r)
BY DEF Rule, Dst, Src, Out, Alone, Rules, Old

\* A step of job j that makes it b keeps the invariant, if it writes nothing but
\* queried lines to its place and its destination, changes of other jobs at most
\* where their file is, if that is one of these two, and keeps b's part of it.
LEMMA JobStep ==
    ASSUME IInv, NEW j \in 1 .. Len(jobs), NEW b \in Job,
           UNCHANGED <<input, broken, main>>,
           jobs' \in Seq(Job), Len(jobs') = Len(jobs), jobs'[j] = b,
           \A k \in 1 .. Len(jobs) : k # j =>
              /\ jobs'[k].at = jobs[k].at /\ jobs'[k].todo = jobs[k].todo
              /\ jobs'[k].pos = jobs[k].pos /\ jobs'[k].result = jobs[k].result
              /\ jobs'[k].out = jobs[k].out \/ jobs[k].out \in {Out(j), Dst(j)}
              /\ \/ jobs'[k].out = Absent
                 \/ jobs'[k].out \in {Out(k), Dst(k)} /\ AllQueried(files'[jobs'[k].out]),
           files' \in [Places -> Content \cup {Absent}],
           \A p \in Places : \/ files'[p] = files[p]
                             \/ /\ p \in {Out(j), Dst(j)}
                                /\ files'[p] = Absent \/ AllQueried(files'[p]),
           ever' \in [Paths -> SUBSET (Content \cup {Absent})],
           \A p \in Paths : ever[p] \subseteq ever'[p] /\ files'[p] \in ever'[p],
           Alone(j) => \/ files'[Dst(j)] = files[Dst(j)]
                       \/ files'[Dst(j)] \in FiltersOf(ever'[Src(j)]),
           jobs[j].result # "pending" => b.result = jobs[j].result,
           j \in Running \/ Cardinality(Running) < Workers,
           JobSound(input.mode, b, Out(j), Dst(j), files'),
           Alone(j) => JobRight(input.mode, b, Out(j), files'[Out(j)], files'[Dst(j)],
                                ever'[Src(j)])
    PROVE  IInv'
<1> USE DEF IInv
<1>2. /\ \A r : /\ Rule(r)' = Rule(r) /\ Dst(r)' = Dst(r) /\ Src(r)' = Src(r)
                /\ Out(r)' = Out(r) /\ (Alone(r)' <=> Alone(r)) /\ Old(r)' = Old(r)
      /\ Running' \subseteq Running \cup {j}
  <2>1. DOMAIN jobs' = 1 .. Len(jobs)
    OBVIOUS
  <2>2. Running' \subseteq Running \cup {j}
    BY <2>1, JobsAre DEF Running
  <2> QED BY <2>2, SameRules
<1>3. Shapes'
  BY DEF Shapes
<1>4. Submitted'
  <2>1. main = "ok" => \A k \in 1 .. Len(jobs) : jobs'[k].result = "ok"
    <3> SUFFICES ASSUME main = "ok", NEW k \in 1 .. Len(jobs) PROVE jobs'[k].result = "ok"
      OBVIOUS
    <3>1. jobs[k].result = "ok" /\ jobs[j].result = "ok"
      BY DEF Submitted, Is
    <3> QED BY <3>1
  <2> QED BY <1>2, <2>1 DEF Submitted, Is
<1>5. Busy'
  BY <1>2, BusyKept
<1>6. Remembered'
  BY DEF Remembered
<1>o. /\ Dst(j) \in Paths /\ Src(j) \in Paths /\ Out(j) \in Places \ Paths /\ Dst(j) \in Places
      /\ j \in 1 .. Len(input.rules) /\ Rule(j) # Garbage /\ j \in Rules
  BY Outs, RulesAre DEF Submitted, Shapes
<1>p. Paths \subseteq Places
  BY DEF Places
<1>7. Clean'
  BY <1>2 DEF Clean
<1>8. JobsSound'
  <2> SUFFICES ASSUME NEW k \in 1 .. Len(jobs)
               PROVE  JobSound(input.mode, jobs'[k], Out(k), Dst(k), files')
    BY <1>2 DEF JobsSound
  <2>1. CASE k = j
    BY <2>1
  <2>2. CASE k # j
    <3>1. JobSound(input.mode, jobs[k], Out(k), Dst(k), files) /\ Out(k) \in Places
      BY Outs DEF JobsSound
    <3>2. \/ files'[Out(k)] = files[Out(k)]
          \/ files'[Out(k)] = Absent \/ AllQueried(files'[Out(k)])
      BY <3>1
    <3> QED BY <2>2, <3>1, <3>2 DEF JobSound
  <2> QED BY <2>1, <2>2
<1>9. JobsRight'
  <2> SUFFICES ASSUME NEW k \in 1 .. Len(jobs), Alone(k)
               PROVE  JobRight(input.mode, jobs'[k], Out(k), files'[Out(k)], files'[Dst(k)],
                               ever'[Src(k)])
    BY <1>2 DEF JobsRight
  <2>1. CASE k = j
    BY <2>1
  <2>2. CASE k # j
    <3>1. /\ Out(k) \in Places \ Paths /\ Dst(k) \in Paths /\ Src(k) \in Paths
          /\ Out(k) # Out(j) /\ Dst(k) # Dst(j)
      BY <2>2, Outs
    <3>2. files'[Out(k)] = files[Out(k)] /\ files'[Dst(k)] = files[Dst(k)]
      BY <1>o, <1>p, <3>1
    <3>3. JobRight(input.mode, jobs[k], Out(k), files[Out(k)], files[Dst(k)], ever[Src(k)])
      BY DEF JobsRight
    <3>4. ever[Src(k)] \subseteq ever'[Src(k)]
      BY <3>1
    <3>5. jobs[k].at = "lines" => jobs'[k].out = Out(k)
      BY <1>o, <2>2, <3>1, <3>3 DEF JobRight
    <3>6. JobRight(input.mode, jobs'[k], Out(k), files[Out(k)], files[Dst(k)], ever[Src(k)])
      BY <2>2, <3>3, <3>5 DEF JobRight
    <3> QED BY <3>2, <3>4, <3>6, JobRightWidens
  <2> QED BY <2>1, <2>2
<1>10. Whole'
  <2> SUFFICES ASSUME NEW r \in 1 .. Len(input.rules), Rule(r) # Garbage, Alone(r)
               PROVE  \/ files'[Dst(r)] = input.files[Dst(r)]
                      \/ files'[Dst(r)] \in FiltersOf(ever'[Src(r)])
    BY <1>2 DEF Whole
  <2>1. Dst(r) \in Paths /\ Src(r) \in Paths
    BY RulesAre DEF Shapes
  <2>2. FiltersOf(ever[Src(r)]) \subseteq FiltersOf(ever'[Src(r)])
    <3>1. ever[Src(r)] \subseteq ever'[Src(r)]
      BY <2>1
    <3> QED BY <3>1 DEF FiltersOf
  <2>3. CASE files'[Dst(r)] = files[Dst(r)]
    BY <2>2, <2>3 DEF Whole
  <2>4. CASE files'[Dst(r)] # files[Dst(r)]
    <3>1. Dst(r) = Dst(j)
      BY <1>o, <1>p, <2>1, <2>4
    <3>2. r = j
      BY <1>o, <3>1 DEF Alone
    <3> QED BY <2>4, <3>2
  <2> QED BY <2>3, <2>4
<1> QED BY <1>3, <1>4, <1>5, <1>6, <1>7, <1>8, <1>9, <1>10

\* A step that changes no other job and keeps a destination that is its own.
LEMMA SoleStep ==
    ASSUME IInv, NEW j \in 1 .. Len(jobs), NEW b \in Job,
           jobs' = [jobs EXCEPT ![j] = b], UNCHANGED <<input, broken, main>>,
           files' \in [Places -> Content \cup {Absent}],
           \A p \in Places : \/ files'[p] = files[p]
                             \/ p \in {Out(j), Dst(j)} /\ AllQueried(files'[p]),
           ever' \in [Paths -> SUBSET (Content \cup {Absent})],
           \A p \in Paths : ever[p] \subseteq ever'[p] /\ files'[p] \in ever'[p],
           Alone(j) => files'[Dst(j)] = files[Dst(j)],
           jobs[j].result # "pending" => b.result = jobs[j].result,
           j \in Running \/ Cardinality(Running) < Workers,
           JobSound(input.mode, b, Out(j), Dst(j), files'),
           Alone(j) => JobRight(input.mode, b, Out(j), files'[Out(j)], files'[Dst(j)],
                                ever'[Src(j)])
    PROVE  IInv'
<1>1. /\ jobs' \in Seq(Job) /\ Len(jobs') = Len(jobs)
      /\ \A k \in 1 .. Len(jobs) : jobs'[k] = IF k = j THEN b ELSE jobs[k]
  <2>1. jobs \in Seq(Job)
    BY DEF IInv, Shapes
  <2> QED BY <2>1, ExceptSeq
<1>2. ASSUME NEW k \in 1 .. Len(jobs), k # j
      PROVE  \/ jobs'[k].out = Absent
             \/ jobs'[k].out \in {Out(k), Dst(k)} /\ AllQueried(files'[jobs'[k].out])
  <2>1. JobSound(input.mode, jobs[k], Out(k), Dst(k), files) /\ jobs'[k] = jobs[k]
    BY <1>1, <1>2 DEF IInv, JobsSound
  <2>2. Out(k) \in Places /\ Dst(k) \in Places
    BY Outs DEF IInv
  <2> QED BY <2>1, <2>2 DEF JobSound
<1>3. \A k \in 1 .. Len(jobs) : k # j => jobs'[k] = jobs[k]
  BY <1>1
<1>4. jobs'[j] = b
  BY <1>1
<1>5. \A p \in Places : \/ files'[p] = files[p]
                        \/ p \in {Out(j), Dst(j)} /\ (files'[p] = Absent \/ AllQueried(files'[p]))
  OBVIOUS
<1> QED BY <1>1, <1>2, <1>3, <1>4, <1>5, JobStep

\* A job that goes on, with the files as they are.
LEMMA QuietStep ==
    ASSUME IInv, NEW j \in 1 .. Len(jobs), NEW b \in Job,
           jobs' = [jobs EXCEPT ![j] = b], UNCHANGED <<input, files, ever, broken, main>>,
           jobs[j].result # "pending" => b.result = jobs[j].result,
           j \in Running \/ Cardinality(Running) < Workers,
           JobSound(input.mode, b, Out(j), Dst(j), files),
           Alone(j) => JobRight(input.mode, b, Out(j), files[Out(j)], files[Dst(j)], ever[Src(j)])
    PROVE  IInv'
<1>1. /\ files' \in [Places -> Content \cup {Absent}]
      /\ ever' \in [Paths -> SUBSET (Content \cup {Absent})]
  BY DEF IInv, Shapes
<1>2. \A p \in Paths : ever[p] \subseteq ever'[p] /\ files'[p] \in ever'[p]
  BY DEF IInv, Remembered
<1>3. /\ files' = files /\ ever' = ever
  OBVIOUS
<1>4. \A p \in Places : files'[p] = files[p]
  OBVIOUS
<1>5. JobSound(input.mode, b, Out(j), Dst(j), files')
  BY <1>3
<1>6. Alone(j) => JobRight(input.mode, b, Out(j), files'[Out(j)], files'[Dst(j)], ever'[Src(j)])
  BY <1>3
<1> QED BY <1>1, <1>2, <1>3, <1>4, <1>5, <1>6, SoleStep

\* The updates of a job that actions make, as records.
LEMMA Updates ==
    ASSUME Shapes, NEW j \in 1 .. Len(jobs)
    PROVE  LET c == jobs[j]
           IN  /\ \A a : [jobs EXCEPT ![j].at = a]
                          = [jobs EXCEPT ![j] = Rec(a, c.todo, c.out, c.pos, c.result)]
               /\ \A t : [jobs EXCEPT ![j].todo = t]
                          = [jobs EXCEPT ![j] = Rec(c.at, t, c.out, c.pos, c.result)]
               /\ \A a, t : [jobs EXCEPT ![j].at = a, ![j].todo = t]
                             = [jobs EXCEPT ![j] = Rec(a, t, c.out, c.pos, c.result)]
               /\ \A a, o : [jobs EXCEPT ![j].at = a, ![j].out = o]
                             = [jobs EXCEPT ![j] = Rec(a, c.todo, o, c.pos, c.result)]
               /\ \A t, n : [jobs EXCEPT ![j].todo = t, ![j].pos = n]
                             = [jobs EXCEPT ![j] = Rec(c.at, t, c.out, n, c.result)]
<1> DEFINE c == jobs[j]
           R(a, t, o, n) == Rec(a, t, o, n, c.result)
<1>1. jobs \in Seq(Job) /\ jobs[j] = R(c.at, c.todo, c.out, c.pos)
  BY JobsAre DEF Shapes
<1>2. \A a, t, o, n, x : /\ [R(a, t, o, n) EXCEPT !.at = x] = R(x, t, o, n)
                         /\ [R(a, t, o, n) EXCEPT !.todo = x] = R(a, x, o, n)
                         /\ [R(a, t, o, n) EXCEPT !.out = x] = R(a, t, x, n)
                         /\ [R(a, t, o, n) EXCEPT !.pos = x] = R(a, t, o, x)
  BY DEF Rec
<1> HIDE DEF R
<1>5. /\ \A x : [jobs EXCEPT ![j].at = x] = [jobs EXCEPT ![j] = R(x, c.todo, c.out, c.pos)]
      /\ \A x : [jobs EXCEPT ![j].todo = x] = [jobs EXCEPT ![j] = R(c.at, x, c.out, c.pos)]
  BY <1>1, <1>2
<1>6. \A x, y : [jobs EXCEPT ![j].at = x, ![j].todo = y]
                   = [jobs EXCEPT ![j] = R(x, y, c.out, c.pos)]
  <2> SUFFICES ASSUME NEW x, NEW y
               PROVE  [jobs EXCEPT ![j].at = x, ![j].todo = y]
                         = [jobs EXCEPT ![j] = R(x, y, c.out, c.pos)]
    OBVIOUS
  <2> DEFINE P == R(x, c.todo, c.out, c.pos)
             Q == R(x, y, c.out, c.pos)
  <2>1. [jobs[j] EXCEPT !.at = x] = P /\ [P EXCEPT !.todo = y] = Q
    BY <1>1, <1>2
  <2> HIDE DEF P, Q
  <2> QED BY <1>1, <2>1 DEF Q
<1>7. \A x, y : [jobs EXCEPT ![j].at = x, ![j].out = y]
                   = [jobs EXCEPT ![j] = R(x, c.todo, y, c.pos)]
  <2> SUFFICES ASSUME NEW x, NEW y
               PROVE  [jobs EXCEPT ![j].at = x, ![j].out = y]
                         = [jobs EXCEPT ![j] = R(x, c.todo, y, c.pos)]
    OBVIOUS
  <2> DEFINE P == R(x, c.todo, c.out, c.pos)
             Q == R(x, c.todo, y, c.pos)
  <2>1. [jobs[j] EXCEPT !.at = x] = P /\ [P EXCEPT !.out = y] = Q
    BY <1>1, <1>2
  <2> HIDE DEF P, Q
  <2> QED BY <1>1, <2>1 DEF Q
<1>8. \A x, y : [jobs EXCEPT ![j].todo = x, ![j].pos = y]
                   = [jobs EXCEPT ![j] = R(c.at, x, c.out, y)]
  <2> SUFFICES ASSUME NEW x, NEW y
               PROVE  [jobs EXCEPT ![j].todo = x, ![j].pos = y]
                         = [jobs EXCEPT ![j] = R(c.at, x, c.out, y)]
    OBVIOUS
  <2> DEFINE P == R(c.at, x, c.out, c.pos)
             Q == R(c.at, x, c.out, y)
  <2>1. [jobs[j] EXCEPT !.todo = x] = P /\ [P EXCEPT !.pos = y] = Q
    BY <1>1, <1>2
  <2> HIDE DEF P, Q
  <2> QED BY <1>1, <2>1 DEF Q
<1> QED BY <1>5, <1>6, <1>7, <1>8 DEF R

\* A job that gets a result, and goes on.
LEMMA Resulting ==
    ASSUME Shapes, NEW j \in 1 .. Len(jobs), NEW end
    PROVE  LET c == jobs[j]
               r == IF c.result = "pending" THEN end ELSE c.result
           IN  /\ With(c, end) = Rec(c.at, c.todo, c.out, c.pos, r)
               /\ \A place : [With(c, end) EXCEPT !.at = place]
                                = Rec(place, c.todo, c.out, c.pos, r)
<1> DEFINE c == jobs[j]
           r == IF c.result = "pending" THEN end ELSE c.result
<1>1. c = Rec(c.at, c.todo, c.out, c.pos, c.result)
  BY JobsAre
<1>2. With(c, end) = [c EXCEPT !.result = r]
  BY Zenon DEF With
<1> HIDE DEF c, r
<1>3. [c EXCEPT !.result = r] = Rec(c.at, c.todo, c.out, c.pos, r)
  BY <1>1 DEF Rec
<1>4. \A place : [Rec(c.at, c.todo, c.out, c.pos, r) EXCEPT !.at = place]
                    = Rec(place, c.todo, c.out, c.pos, r)
  BY DEF Rec
<1> QED BY <1>2, <1>3, <1>4 DEF c, r

LEMMA TakesKeeps ==
    ASSUME IInv, NEW j \in 1 .. Len(jobs), Takes(j)
    PROVE  IInv'
<1> DEFINE c == jobs[j]
           b == Rec("source", c.todo, c.out, c.pos, c.result)
<1>1. /\ c \in Job /\ c.at = "queued" /\ Cardinality(Running) < Workers
      /\ jobs' = [jobs EXCEPT ![j] = b] /\ UNCHANGED <<input, files, ever, broken, main>>
  BY JobsAre, Updates DEF Takes, At, Goes, IInv
<1>2. b \in Job
  BY <1>1 DEF Job, Rec
<1>3. /\ JobSound(input.mode, c, Out(j), Dst(j), files)
      /\ Alone(j) => JobRight(input.mode, c, Out(j), files[Out(j)], files[Dst(j)], ever[Src(j)])
  BY DEF IInv, JobsRight, JobsSound
<1>4. /\ b.at = "source" /\ b.todo = c.todo /\ b.out = c.out /\ b.pos = c.pos
      /\ b.result = c.result
  BY RecIs
<1> HIDE DEF b, c
<1>5. JobSound(input.mode, b, Out(j), Dst(j), files)
  BY <1>1, <1>3, <1>4 DEF JobSound
<1>6. Alone(j) => JobRight(input.mode, b, Out(j), files[Out(j)], files[Dst(j)], ever[Src(j)])
  BY <1>1, <1>3, <1>4 DEF JobRight
<1> QED BY <1>1, <1>2, <1>4, <1>5, <1>6, QuietStep DEF c

\* An exception sends a job to the unlink.
LEMMA FailsKeeps ==
    ASSUME IInv, NEW j \in 1 .. Len(jobs), j \in Running,
           jobs' = [jobs EXCEPT ![j] = Fails(@)],
           UNCHANGED <<input, files, ever, broken, main>>
    PROVE  IInv'
<1> DEFINE c == jobs[j]
           r == IF c.result = "pending" THEN "failed" ELSE c.result
           b == Rec("cleanup", c.todo, c.out, c.pos, r)
<1>1. jobs' = [jobs EXCEPT ![j] = b]
  <2>1. Fails(c) = b
    BY Resulting DEF IInv, Fails
  <2>2. jobs' = [jobs EXCEPT ![j] = Fails(c)]
    OBVIOUS
  <2> HIDE DEF b
  <2> QED BY <2>1, <2>2
<1>2. c \in Job /\ r # "pending" /\ (c.result # "pending" => r = c.result)
  BY JobsAre DEF IInv
<1>3. b \in Job
  BY <1>2 DEF Job, Rec
<1>4. /\ JobSound(input.mode, c, Out(j), Dst(j), files)
      /\ Alone(j) => JobRight(input.mode, c, Out(j), files[Out(j)], files[Dst(j)], ever[Src(j)])
      /\ c.at # "done"
  BY RunningIs DEF IInv, JobsRight, JobsSound, Idle
<1>5. b.at = "cleanup" /\ b.todo = c.todo /\ b.out = c.out /\ b.pos = c.pos /\ b.result = r
  BY RecIs
<1>6. r = "ok" => c.result = "ok"
  OBVIOUS
<1> HIDE DEF b, c, r
<1>7. JobSound(input.mode, b, Out(j), Dst(j), files)
  BY <1>4, <1>5 DEF JobSound
<1>8. Alone(j) => JobRight(input.mode, b, Out(j), files[Out(j)], files[Dst(j)], ever[Src(j)])
  BY <1>2, <1>4, <1>5, <1>6 DEF JobRight
<1> QED BY <1>1, <1>2, <1>3, <1>5, <1>7, <1>8, QuietStep DEF c

LEMMA BreaksKeeps ==
    ASSUME IInv, NEW j \in 1 .. Len(jobs), Breaks(j)
    PROVE  IInv'
<1>1. j \in Running
  BY RunningIs DEF Breaks, IInv, Idle
<1> QED BY <1>1, FailsKeeps DEF Breaks

LEMMA OpensSourceKeeps ==
    ASSUME IInv, NEW j \in 1 .. Len(jobs), OpensSource(j)
    PROVE  IInv'
<1> DEFINE c == jobs[j]
<1>1. /\ c \in Job /\ c.at = "source" /\ j \in Running
      /\ UNCHANGED <<input, files, ever, broken, main>>
  BY JobsAre, RunningIs DEF OpensSource, At, IInv, Idle
<1>2. CASE files[Src(j)] = Absent
  <2>1. jobs' = [jobs EXCEPT ![j] = Fails(@)]
    BY <1>2, Zenon DEF OpensSource
  <2> QED BY <1>1, <2>1, FailsKeeps
<1>3. CASE files[Src(j)] # Absent
  <2> DEFINE b == Rec("tmp", files[Src(j)], c.out, c.pos, c.result)
  <2>1. jobs' = [jobs EXCEPT ![j].at = "tmp", ![j].todo = files[Src(j)]]
    BY <1>3, Zenon DEF OpensSource
  <2>2. jobs' = [jobs EXCEPT ![j] = b]
    <3>1. \A a2, t2 : [jobs EXCEPT ![j].at = a2, ![j].todo = t2]
                         = [jobs EXCEPT ![j] = Rec(a2, t2, c.out, c.pos, c.result)]
      BY Updates DEF IInv
    <3> QED BY <2>1, <3>1, Zenon
  <2>3. Src(j) \in Paths /\ files[Src(j)] \in Content /\ files[Src(j)] \in ever[Src(j)]
    <3>1. Src(j) \in Paths /\ Src(j) \in Places
      BY Outs DEF IInv, Places
    <3> QED BY <1>3, <3>1 DEF IInv, Shapes, Remembered
  <2>4. b \in Job
    BY <1>1, <2>3 DEF Job, Rec
  <2>5. /\ JobSound(input.mode, c, Out(j), Dst(j), files)
        /\ Alone(j) => JobRight(input.mode, c, Out(j), files[Out(j)], files[Dst(j)], ever[Src(j)])
    BY DEF IInv, JobsRight, JobsSound
  <2>6. /\ b.at = "tmp" /\ b.todo = files[Src(j)] /\ b.out = c.out /\ b.pos = c.pos
        /\ b.result = c.result
    BY RecIs
  <2> HIDE DEF b, c
  <2>7. JobSound(input.mode, b, Out(j), Dst(j), files)
    BY <1>1, <2>5, <2>6 DEF JobSound
  <2>8. Alone(j) => JobRight(input.mode, b, Out(j), files[Out(j)], files[Dst(j)], ever[Src(j)])
    BY <1>1, <2>3, <2>5, <2>6 DEF JobRight
  <2> QED BY <1>1, <2>2, <2>4, <2>6, <2>7, <2>8, QuietStep DEF c
<1> QED BY <1>2, <1>3

\* What has ever been in a file grows by what is in it now.
LEMMA NotedKeeps ==
    ASSUME IInv, Noted, files' \in [Places -> Content \cup {Absent}]
    PROVE  /\ ever' \in [Paths -> SUBSET (Content \cup {Absent})]
           /\ \A p \in Paths : ever[p] \subseteq ever'[p] /\ files'[p] \in ever'[p]
<1>1. ever' = [p \in Paths |-> ever[p] \cup {files'[p]}]
  BY DEF Noted
<1>2. \A p \in Paths : /\ files'[p] \in Content \cup {Absent}
                       /\ ever[p] \subseteq Content \cup {Absent}
  BY DEF IInv, Shapes, Places
<1> QED BY <1>1, <1>2

LEMMA OpensTmpKeeps ==
    ASSUME IInv, NEW j \in 1 .. Len(jobs), OpensTmp(j)
    PROVE  IInv'
<1> DEFINE c == jobs[j]
           p == Out(j)
           d == Dst(j)
           b == Rec("lines", c.todo, p, c.pos, c.result)
<1>1. /\ c \in Job /\ c.at = "tmp" /\ j \in Running /\ UNCHANGED <<input, broken, main>>
      /\ jobs' = [jobs EXCEPT ![j] = b] /\ files' = [files EXCEPT ![p] = << >>] /\ Noted
  <2>1. \A a2, o2 : [jobs EXCEPT ![j].at = a2, ![j].out = o2]
                       = [jobs EXCEPT ![j] = Rec(a2, c.todo, o2, c.pos, c.result)]
    BY Updates DEF IInv
  <2>2. jobs' = [jobs EXCEPT ![j].at = "lines", ![j].out = p]
    BY DEF OpensTmp
  <2>3. jobs' = [jobs EXCEPT ![j] = b]
    BY <2>1, <2>2, Zenon
  <2> QED BY <2>3, JobsAre, RunningIs DEF OpensTmp, At, IInv, Idle
<1>2. /\ d \in Paths /\ Src(j) \in Paths /\ p \in Places \ Paths /\ d \in Places
      /\ files \in [Places -> Content \cup {Absent}]
  BY Outs DEF IInv, Shapes
<1>3. AllQueried(<< >>) /\ << >> \in Content
  BY DEF AllQueried, Content
<1>4. /\ files' \in [Places -> Content \cup {Absent}]
      /\ files'[p] = << >> /\ files'[d] = files[d]
      /\ \A q \in Places : q # p => files'[q] = files[q]
  BY <1>1, <1>2, <1>3
<1>5. /\ ever' \in [Paths -> SUBSET (Content \cup {Absent})]
      /\ \A q \in Paths : ever[q] \subseteq ever'[q] /\ files'[q] \in ever'[q]
  BY <1>1, <1>4, NotedKeeps
<1>6. /\ JobSound(input.mode, c, p, d, files)
      /\ Alone(j) => JobRight(input.mode, c, p, files[p], files[d], ever[Src(j)])
  BY DEF IInv, JobsRight, JobsSound
<1>7. ASSUME Alone(j) PROVE c.pos = 0 /\ Doing(c.todo, << >>, ever'[Src(j)])
  <2> DEFINE l == c.todo
  <2>1. l \in ever'[Src(j)] /\ l \in Content /\ l # Absent
    BY <1>1, <1>2, <1>5, <1>6, <1>7, WalkfilterAssumption DEF JobRight, Job
  <2>2. l = SubSeq(l, 0 + 1, Len(l)) /\ 0 \in 0 .. Len(l)
    BY <2>1 DEF Content
  <2>3. << >> = Kept(l)[0]
    BY <2>1, KeptIs DEF KeepsUpTo
  <2>4. Doing(l, << >>, ever'[Src(j)])
    <3> HIDE DEF l
    <3>1. \A i \in 1 .. 0 : l[i] # Garbage
      OBVIOUS
    <3> QED BY <2>1, <2>2, <2>3, <3>1 DEF Doing
  <2> QED BY <1>1, <1>6, <1>7, <2>4 DEF JobSound
<1>8. b \in Job
  BY <1>1, <1>2 DEF Job, Rec
<1>9. /\ b.at = "lines" /\ b.todo = c.todo /\ b.out = p /\ b.pos = c.pos
      /\ b.result = c.result
  BY RecIs
<1> HIDE DEF b, c, p, d
<1>10. JobSound(input.mode, b, p, d, files')
  BY <1>1, <1>3, <1>4, <1>6, <1>9 DEF JobSound
<1>11. Alone(j) => JobRight(input.mode, b, p, files'[p], files'[d], ever'[Src(j)])
  <2>1. Len(<< >>) = 0
    OBVIOUS
  <2> QED BY <1>1, <1>4, <1>6, <1>7, <1>9, <2>1 DEF JobRight
<1>12. \A q \in Places : files'[q] = files[q] \/ (q \in {p, d} /\ AllQueried(files'[q]))
  BY <1>3, <1>4
<1> QED BY <1>1, <1>4, <1>5, <1>8, <1>9, <1>10, <1>11, <1>12, SoleStep DEF c, p, d

\* One line more is read, and written if it is queried.
LEMMA DoingOn ==
    ASSUME NEW todo \in Content, todo # << >>, Head(todo) # Garbage,
           NEW lines, NEW E \in SUBSET (Content \cup {Absent}), Doing(todo, lines, E)
    PROVE  /\ AllQueried(lines)
           /\ Queried(Head(todo)) => Doing(Tail(todo), Append(lines, Head(todo)), E)
           /\ ~ Queried(Head(todo)) => Doing(Tail(todo), lines, E)
<1>1. PICK l \in E \ {Absent} : \E k \in 0 .. Len(l) :
          /\ todo = SubSeq(l, k + 1, Len(l)) /\ lines = Kept(l)[k]
          /\ \A i \in 1 .. k : l[i] # Garbage
  BY DEF Doing
<1>2. PICK k \in 0 .. Len(l) :
          /\ todo = SubSeq(l, k + 1, Len(l)) /\ lines = Kept(l)[k]
          /\ \A i \in 1 .. k : l[i] # Garbage
  BY <1>1
<1>3. l \in Content /\ l \in Seq(Oid \cup {Garbage}) /\ Len(l) \in Nat
  BY DEF Content
<1>4. k + 1 \in 1 .. Len(l) /\ k + 1 \in 0 .. Len(l) /\ (k + 1) - 1 = k
  BY <1>2, <1>3
<1>5. Head(todo) = l[k + 1] /\ Tail(todo) = SubSeq(l, (k + 1) + 1, Len(l))
  <2>1. /\ Head(SubSeq(l, k + 1, Len(l))) = l[k + 1]
        /\ Tail(SubSeq(l, k + 1, Len(l))) = SubSeq(l, (k + 1) + 1, Len(l))
    BY <1>3, <1>4
  <2> QED BY <1>2, <2>1
<1>6. Kept(l)[k + 1] = IF Queried(l[k + 1]) THEN Append(Kept(l)[k], l[k + 1]) ELSE Kept(l)[k]
  BY <1>3, <1>4, KeptIs DEF KeepsUpTo
<1>7. \A i \in 1 .. k + 1 : l[i] # Garbage
  BY <1>2, <1>4, <1>5
<1>8. \A more : more = Kept(l)[k + 1] => Doing(Tail(todo), more, E)
  BY <1>4, <1>5, <1>7 DEF Doing
<1>9. AllQueried(lines)
  BY <1>2, <1>3, KeptClean
<1> QED BY <1>2, <1>5, <1>6, <1>8, <1>9

LEMMA NoneLeft ==
    ASSUME NEW l \in Content, NEW k \in 0 .. Len(l), << >> = SubSeq(l, k + 1, Len(l))
    PROVE  k = Len(l)
<1>1. Len(l) \in Nat /\ l \in Seq(Oid \cup {Garbage})
  BY DEF Content
<1>2. k + 1 \notin 1 .. Len(l)
  BY <1>1
<1> QED BY <1>1, <1>2

\* All lines read, none of them spoiled: what was written is the filter.
LEMMA DoingAll ==
    ASSUME NEW lines, NEW E \in SUBSET (Content \cup {Absent}), Doing(<< >>, lines, E)
    PROVE  lines \in FiltersOf(E) /\ lines # Absent
<1>1. PICK l \in E \ {Absent} : \E k \in 0 .. Len(l) :
          /\ << >> = SubSeq(l, k + 1, Len(l)) /\ lines = Kept(l)[k]
          /\ \A i \in 1 .. k : l[i] # Garbage
  BY DEF Doing
<1>2. PICK k \in 0 .. Len(l) :
          /\ << >> = SubSeq(l, k + 1, Len(l)) /\ lines = Kept(l)[k]
          /\ \A i \in 1 .. k : l[i] # Garbage
  BY <1>1
<1>3. k = Len(l) /\ Len(l) \in Nat /\ DOMAIN l = 1 .. Len(l) /\ l \in Content
  <2>1. l \in Content
    OBVIOUS
  <2>2. Len(l) \in Nat /\ DOMAIN l = 1 .. Len(l)
    BY <2>1 DEF Content
  <2> QED BY <1>2, <2>1, <2>2, NoneLeft
<1>4. lines = Filtered(l)
  BY <1>2, <1>3 DEF Filtered
<1>5. Garbage \notin Range(l)
  BY <1>2, <1>3 DEF Range
<1>6. lines \in Content
  BY <1>2, <1>3, KeptClean DEF AllQueried
<1> QED BY <1>1, <1>4, <1>5, <1>6, WalkfilterAssumption DEF FiltersOf

\* A queried line is written to a file of such lines.
LEMMA PutQueried ==
    ASSUME NEW lines, AllQueried(lines), NEW n \in Nat, NEW line \in Oid \cup {Garbage},
           Queried(line)
    PROVE  AllQueried(Put(lines, n + 1, line))
<1>1. lines \in Seq(Oid \cup {Garbage}) /\ \A i \in 1 .. Len(lines) : Queried(lines[i])
  BY DEF AllQueried, Content
<1>2. CASE n + 1 <= Len(lines)
  <2> DEFINE g == [lines EXCEPT ![n + 1] = line]
  <2>1. /\ g \in Seq(Oid \cup {Garbage}) /\ Len(g) = Len(lines)
        /\ \A i \in 1 .. Len(lines) : g[i] = IF i = n + 1 THEN line ELSE lines[i]
    <3>1. n + 1 \in 1 .. Len(lines)
      BY <1>1, <1>2
    <3> QED BY <1>1, <3>1, ExceptSeq
  <2>2. Put(lines, n + 1, line) = g
    BY <1>2 DEF Put
  <2> HIDE DEF g
  <2> QED BY <1>1, <2>1, <2>2 DEF AllQueried, Content
<1>3. CASE ~ (n + 1 <= Len(lines))
  <2> DEFINE g == Append(lines, line)
  <2>1. /\ g \in Seq(Oid \cup {Garbage}) /\ Len(g) = Len(lines) + 1 /\ Len(lines) \in Nat
        /\ \A i \in 1 .. Len(g) : g[i] = IF i = Len(lines) + 1 THEN line ELSE lines[i]
    BY <1>1
  <2>2. Put(lines, n + 1, line) = g
    BY <1>3 DEF Put
  <2> HIDE DEF g
  <2>3. \A i \in 1 .. Len(g) : Queried(g[i])
    BY <1>1, <2>1
  <2> QED BY <2>1, <2>2, <2>3 DEF AllQueried, Content
<1> QED BY <1>2, <1>3

LEMMA FiltersLineKeeps ==
    ASSUME IInv, NEW j \in 1 .. Len(jobs), FiltersLine(j)
    PROVE  IInv'
<1> DEFINE c == jobs[j]
           line == Head(c.todo)
           p == Out(j)
           d == Dst(j)
           E == ever[Src(j)]
<1>1. /\ c \in Job /\ c.at = "lines" /\ j \in Running /\ c.todo # << >>
      /\ UNCHANGED <<input, broken, main>>
  BY JobsAre, RunningIs DEF FiltersLine, At, IInv, Idle
<1>2. /\ d \in Paths /\ Src(j) \in Paths /\ p \in Places \ Paths /\ d \in Places
      /\ files \in [Places -> Content \cup {Absent}]
      /\ ever \in [Paths -> SUBSET (Content \cup {Absent})] /\ E \in SUBSET (Content \cup {Absent})
  BY Outs DEF IInv, Shapes
<1>3. line \in Oid \cup {Garbage} /\ Tail(c.todo) \in Content /\ c.todo \in Content
  <2>1. c.todo \in Content
    BY <1>1 DEF Job
  <2> HIDE DEF c
  <2>2. Head(c.todo) \in Oid \cup {Garbage} /\ Tail(c.todo) \in Content
    BY <1>1, <2>1 DEF Content
  <2> QED BY <2>1, <2>2
<1>4. /\ JobSound(input.mode, c, p, d, files)
      /\ Alone(j) => JobRight(input.mode, c, p, files[p], files[d], E)
  BY DEF IInv, JobsRight, JobsSound
<1>5. \A t, n : [jobs EXCEPT ![j].todo = t, ![j].pos = n]
                  = [jobs EXCEPT ![j] = Rec(c.at, t, c.out, n, c.result)]
  BY Updates DEF IInv
<1>6. \A t : [jobs EXCEPT ![j].todo = t] = [jobs EXCEPT ![j] = Rec(c.at, t, c.out, c.pos, c.result)]
  BY Updates DEF IInv
<1>7. CASE line = Garbage
  <2>1. /\ jobs' = [jobs EXCEPT ![j] = Fails(@)]
        /\ UNCHANGED <<input, files, ever, broken, main>>
    BY <1>7 DEF FiltersLine
  <2> QED BY <1>1, <2>1, FailsKeeps
<1>8. CASE line # Garbage /\ ~ Queried(line)
  <2> DEFINE b == Rec("lines", Tail(c.todo), c.out, c.pos, c.result)
  <2>1. /\ jobs' = [jobs EXCEPT ![j].todo = Tail(@)]
        /\ UNCHANGED <<input, files, ever, broken, main>>
    BY <1>8 DEF FiltersLine
  <2>2. jobs' = [jobs EXCEPT ![j] = b]
    <3>1. jobs' = [jobs EXCEPT ![j].todo = Tail(c.todo)]
      BY <2>1
    <3> QED BY <1>1, <1>6, <3>1, Zenon
  <2>3. b \in Job
    BY <1>1, <1>3 DEF Job, Rec
  <2>4. /\ b.at = "lines" /\ b.todo = Tail(c.todo) /\ b.out = c.out /\ b.pos = c.pos
        /\ b.result = c.result
    BY RecIs
  <2> HIDE DEF b
  <2>5. Alone(j) => Doing(b.todo, files[p], E)
    <3> HIDE DEF c
    <3> QED BY <1>1, <1>2, <1>3, <1>4, <1>8, <2>4, DoingOn DEF JobRight
  <2> HIDE DEF c, E
  <2>6. JobSound(input.mode, b, p, d, files)
    BY <1>1, <1>4, <2>4 DEF JobSound
  <2>7. Alone(j) => JobRight(input.mode, b, p, files[p], files[d], E)
    BY <1>1, <1>4, <2>4, <2>5 DEF JobRight
  <2> QED BY <1>1, <2>1, <2>2, <2>3, <2>4, <2>6, <2>7, QuietStep DEF c, E
<1>9. CASE line # Garbage /\ Queried(line)
  <2> DEFINE n == c.pos + 1
             b == Rec("lines", Tail(c.todo), c.out, n, c.result)
  <2>1. /\ files' = IF c.out = Absent THEN files
                    ELSE [files EXCEPT ![c.out] = Put(@, n, line)]
        /\ jobs' = [jobs EXCEPT ![j].todo = Tail(@), ![j].pos = @ + 1] /\ Noted
    BY <1>9 DEF FiltersLine, Writes
  <2>2. jobs' = [jobs EXCEPT ![j] = b]
    <3>1. [jobs EXCEPT ![j].todo = Tail(c.todo)][j].pos = c.pos
      BY <1>6, RecIs, JobsAre DEF IInv
    <3>2. jobs' = [jobs EXCEPT ![j].todo = Tail(c.todo), ![j].pos = n]
      BY <2>1, <3>1
    <3> HIDE DEF n
    <3> QED BY <1>1, <1>5, <3>2, Zenon
  <2>3. n \in Nat /\ c.pos \in Nat
    BY <1>1 DEF Job
  <2>4. b \in Job
    BY <1>1, <1>3, <2>3 DEF Job, Rec
  <2>5. /\ b.at = "lines" /\ b.todo = Tail(c.todo) /\ b.out = c.out /\ b.pos = n
        /\ b.result = c.result
    BY RecIs
  <2> HIDE DEF b, line
  <2>6. c.out # Absent => c.out \in {p, d} /\ c.out \in Places /\ AllQueried(files[c.out])
                            /\ AllQueried(Put(files[c.out], n, line))
    BY <1>2, <1>3, <1>4, <1>9, <2>3, PutQueried DEF JobSound
  <2>7. /\ files' \in [Places -> Content \cup {Absent}]
        /\ \A q \in Places : files'[q] = IF q = c.out /\ c.out # Absent
                                         THEN Put(files[c.out], n, line) ELSE files[q]
    <3>1. CASE c.out = Absent
      BY <1>2, <2>1, <3>1
    <3>2. CASE c.out # Absent
      <4>1. files' = [files EXCEPT ![c.out] = Put(files[c.out], n, line)]
        BY <2>1, <3>2
      <4>2. Put(files[c.out], n, line) \in Content
        BY <2>6, <3>2 DEF AllQueried
      <4> HIDE DEF c, n
      <4> QED BY <1>2, <2>6, <3>2, <4>1, <4>2
    <3> QED BY <3>1, <3>2
  <2>8. \A q \in Places : files'[q] = files[q] \/ (q \in {p, d} /\ AllQueried(files'[q]))
    <3> HIDE DEF c, n
    <3> QED BY <2>6, <2>7
  <2>9. /\ ever' \in [Paths -> SUBSET (Content \cup {Absent})]
        /\ \A q \in Paths : ever[q] \subseteq ever'[q] /\ files'[q] \in ever'[q]
    BY <2>1, <2>7, NotedKeeps
  <2>10. ASSUME Alone(j)
         PROVE  /\ files'[d] = files[d] /\ b.out = p /\ b.pos = Len(files'[p])
                /\ Doing(b.todo, files'[p], E)
    <3>1. /\ c.out = p /\ c.pos = Len(files[p]) /\ Doing(c.todo, files[p], E)
          /\ p # d /\ p # Absent
      BY <1>1, <1>2, <1>4, <2>10, WalkfilterAssumption DEF JobRight, Places
    <3>2. files'[d] = files[d] /\ files'[p] = Put(files[p], n, line)
      BY <1>2, <2>7, <3>1
    <3>3. AllQueried(files[p]) /\ files[p] \in Seq(Oid \cup {Garbage})
      BY <2>6, <3>1 DEF AllQueried, Content
    <3>4. files'[p] = Append(files[p], line) /\ Len(files'[p]) = n
      <4>1. n = Len(files[p]) + 1 /\ Len(files[p]) \in Nat
        BY <3>1, <3>3
      <4>2. Put(files[p], n, line) = Append(files[p], line)
        BY <4>1 DEF Put
      <4> QED BY <3>2, <3>3, <4>1, <4>2
    <3>5. Doing(Tail(c.todo), Append(files[p], line), E)
      <4> HIDE DEF c
      <4> QED BY <1>1, <1>2, <1>3, <1>9, <3>1, DoingOn DEF line
    <3> QED BY <2>5, <3>1, <3>2, <3>4, <3>5
  <2>11. JobSound(input.mode, b, p, d, files')
    <3>1. files'[p] = Absent \/ AllQueried(files'[p])
      BY <1>1, <1>2, <1>4, <2>8 DEF JobSound
    <3>2. c.out # Absent => AllQueried(files'[c.out])
      BY <2>6, <2>7
    <3> HIDE DEF c
    <3> QED BY <1>1, <1>4, <2>5, <2>6, <3>1, <3>2 DEF JobSound
  <2>12. Alone(j) => JobRight(input.mode, b, p, files'[p], files'[d], ever'[Src(j)])
    <3>1. Alone(j) => JobRight(input.mode, b, p, files'[p], files'[d], E)
      <4> HIDE DEF c, E
      <4> QED BY <1>1, <1>4, <2>5, <2>10 DEF JobRight
    <3> QED BY <1>2, <2>9, <3>1, JobRightWidens
  <2>13. Alone(j) => files'[d] = files[d]
    BY <2>10
  <2> HIDE DEF c, p, d, E
  <2> QED BY <1>1, <2>2, <2>4, <2>5, <2>7, <2>8, <2>9, <2>11, <2>12, <2>13, SoleStep DEF c, p, d
<1> QED BY <1>7, <1>8, <1>9

LEMMA FilterEndsKeeps ==
    ASSUME IInv, NEW j \in 1 .. Len(jobs), FilterEnds(j)
    PROVE  IInv'
<1> DEFINE c == jobs[j]
           r == IF c.result = "pending" THEN "ok" ELSE c.result
           b == Rec("done", c.todo, c.out, c.pos, r)
<1>1. /\ c \in Job /\ c.at = "lines" /\ c.todo = << >> /\ j \in Running
      /\ input.mode = "filter" /\ UNCHANGED <<input, files, ever, broken, main>>
  BY JobsAre, RunningIs DEF FilterEnds, At, IInv, Idle
<1>2. jobs' = [jobs EXCEPT ![j] = b]
  <2>1. [With(c, "ok") EXCEPT !.at = "done"] = b
    BY Resulting DEF IInv
  <2>2. jobs' = [jobs EXCEPT ![j] = [With(c, "ok") EXCEPT !.at = "done"]]
    BY DEF FilterEnds
  <2> HIDE DEF b
  <2> QED BY <2>1, <2>2
<1>3. r # "pending" /\ (c.result # "pending" => r = c.result) /\ b \in Job
  BY <1>1 DEF Job, Rec
<1>4. /\ JobSound(input.mode, c, Out(j), Dst(j), files)
      /\ Alone(j) => JobRight(input.mode, c, Out(j), files[Out(j)], files[Dst(j)], ever[Src(j)])
  BY DEF IInv, JobsRight, JobsSound
<1>5. Alone(j) => files[Out(j)] \in FiltersOf(ever[Src(j)])
  <2>1. ever[Src(j)] \in SUBSET (Content \cup {Absent})
    BY Outs DEF IInv, Shapes
  <2> QED BY <1>1, <1>4, <2>1, DoingAll DEF JobRight
<1>6. b.at = "done" /\ b.todo = c.todo /\ b.out = c.out /\ b.pos = c.pos /\ b.result = r
  BY RecIs
<1> HIDE DEF b, c, r
<1>7. JobSound(input.mode, b, Out(j), Dst(j), files)
  BY <1>1, <1>3, <1>4, <1>6 DEF JobSound
<1>8. Alone(j) => JobRight(input.mode, b, Out(j), files[Out(j)], files[Dst(j)], ever[Src(j)])
  BY <1>1, <1>3, <1>5, <1>6 DEF JobRight
<1> QED BY <1>1, <1>2, <1>3, <1>6, <1>7, <1>8, QuietStep DEF c

LEMMA RenamesKeeps ==
    ASSUME IInv, NEW j \in 1 .. Len(jobs), Renames(j)
    PROVE  IInv'
<1> DEFINE c == jobs[j]
           p == Out(j)
           d == Dst(j)
           E == ever[Src(j)]
<1>1. /\ c \in Job /\ c.at = "lines" /\ c.todo = << >> /\ j \in Running
      /\ input.mode # "filter" /\ p = Tmp(d) /\ UNCHANGED <<input, broken, main>>
  BY JobsAre, RunningIs DEF Renames, At, IInv, Idle, Out
<1>2. CASE files[p] = Absent
  <2>1. jobs' = [jobs EXCEPT ![j] = Fails(@)] /\ UNCHANGED <<input, files, ever, broken, main>>
    BY <1>1, <1>2 DEF Renames
  <2> QED BY <1>1, <2>1, FailsKeeps
<1>3. CASE files[p] # Absent
  <2> DEFINE o(k) == Moved(jobs[k].out, p, d)
             R(k, a) == Rec(a, jobs[k].todo, o(k), jobs[k].pos, jobs[k].result)
             b == R(j, "cleanup")
  <2>1. /\ files' = [files EXCEPT ![d] = files[p], ![p] = Absent] /\ Noted
        /\ jobs' = [k \in DOMAIN jobs |-> [jobs[k] EXCEPT
                                             !.at = IF k = j THEN "cleanup" ELSE @,
                                             !.out = Moved(@, p, d)]]
    BY <1>1, <1>3, Zenon DEF Renames
  <2>2. /\ d \in Paths /\ Src(j) \in Paths /\ p \in Places \ Paths /\ d \in Places /\ d # p
        /\ files \in [Places -> Content \cup {Absent}]
        /\ E \in SUBSET (Content \cup {Absent})
    BY Outs DEF IInv, Shapes
  <2>3. ASSUME NEW k \in 1 .. Len(jobs)
        PROVE  /\ jobs[k] \in Job
               /\ JobSound(input.mode, jobs[k], Out(k), Dst(k), files)
               /\ o(k) = IF jobs[k].out = p THEN d ELSE IF jobs[k].out = d THEN Absent
                         ELSE jobs[k].out
               /\ o(k) \in Places \cup {Absent}
               /\ \A a : R(k, a).at = a /\ R(k, a).todo = jobs[k].todo /\ R(k, a).out = o(k)
                         /\ R(k, a).pos = jobs[k].pos /\ R(k, a).result = jobs[k].result
    <3>1. jobs[k] \in Job /\ JobSound(input.mode, jobs[k], Out(k), Dst(k), files)
      BY JobsAre DEF IInv, JobsSound
    <3>2. jobs[k].out \in Places \cup {Absent}
      BY <3>1 DEF Job
    <3> QED BY <2>2, <3>1, <3>2, RecIs DEF Moved
  <2>4. /\ jobs' \in Seq(Job) /\ Len(jobs') = Len(jobs)
        /\ jobs'[j] = b /\ b \in Job
        /\ \A k \in 1 .. Len(jobs) : k # j => jobs'[k] = R(k, jobs[k].at)
    <3>1. ASSUME NEW k \in 1 .. Len(jobs)
          PROVE  [jobs[k] EXCEPT !.at = IF k = j THEN "cleanup" ELSE @, !.out = Moved(@, p, d)]
                    = R(k, IF k = j THEN "cleanup" ELSE jobs[k].at)
      <4> DEFINE e == jobs[k]
                 a == IF k = j THEN "cleanup" ELSE e.at
                 x == o(k)
      <4>1. e = Rec(e.at, e.todo, e.out, e.pos, e.result)
        BY JobsAre DEF IInv
      <4>2. [e EXCEPT !.at = IF k = j THEN "cleanup" ELSE @, !.out = Moved(@, p, d)]
               = [e EXCEPT !.at = a, !.out = x]
        <5>1. [e EXCEPT !.at = a].out = e.out
          BY <4>1 DEF Rec
        <5> QED BY <5>1
      <4> HIDE DEF e, a, x
      <4>3. [e EXCEPT !.at = a, !.out = x] = Rec(a, e.todo, x, e.pos, e.result)
        <5> DEFINE P == Rec(a, e.todo, e.out, e.pos, e.result)
                   Q == Rec(a, e.todo, x, e.pos, e.result)
        <5>1. [e EXCEPT !.at = a] = P /\ [P EXCEPT !.out = x] = Q
          BY <4>1 DEF Rec
        <5> HIDE DEF P, Q
        <5> QED BY <5>1 DEF Q
      <4> QED BY <4>2, <4>3 DEF e, a, x
    <3>2. \A k \in 1 .. Len(jobs) : \A a \in {"cleanup", jobs[k].at} : R(k, a) \in Job
      <4> SUFFICES ASSUME NEW k \in 1 .. Len(jobs), NEW a \in {"cleanup", jobs[k].at}
                   PROVE  R(k, a) \in Job
        OBVIOUS
      <4> HIDE DEF o
      <4> QED BY <2>3 DEF Job, Rec
    <3> HIDE DEF R
    <3>3. jobs' = [k \in 1 .. Len(jobs) |-> R(k, IF k = j THEN "cleanup" ELSE jobs[k].at)]
      BY <2>1, <3>1, JobsAre DEF IInv
    <3>4. Len(jobs) \in Nat
      BY JobsAre DEF IInv
    <3> QED BY <3>2, <3>3, <3>4
  <2>5. AllQueried(files[p]) /\ files[p] \in Content
    BY <1>1, <1>3, <2>3 DEF JobSound, AllQueried
  <2>6. /\ files' \in [Places -> Content \cup {Absent}]
        /\ files'[p] = Absent /\ files'[d] = files[p]
        /\ \A q \in Places : q \notin {p, d} => files'[q] = files[q]
    <3> HIDE DEF p, d
    <3> QED BY <2>1, <2>2, <2>5
  <2>7. /\ ever' \in [Paths -> SUBSET (Content \cup {Absent})]
        /\ \A q \in Paths : ever[q] \subseteq ever'[q] /\ files'[q] \in ever'[q]
    BY <2>1, <2>6, NotedKeeps
  <2>8. \A q \in Places : \/ files'[q] = files[q]
                          \/ q \in {p, d} /\ (files'[q] = Absent \/ AllQueried(files'[q]))
    <3> HIDE DEF p, d
    <3> QED BY <2>5, <2>6
  <2>9. ASSUME NEW k \in 1 .. Len(jobs)
        PROVE  o(k) = Absent \/ (o(k) \in {Out(k), Dst(k)} /\ AllQueried(files'[o(k)]))
    <3>1. CASE jobs[k].out = p
      <4>1. p \in {Out(k), Dst(k)} /\ Dst(k) \in Paths
        BY <2>2, <2>3, <3>1, Outs, WalkfilterAssumption DEF JobSound, Places, IInv
      <4>2. Dst(k) = d
        BY <2>2, <4>1, Outs DEF IInv
      <4>3. o(k) = d
        BY <2>3, <3>1
      <4> QED BY <2>5, <2>6, <4>2, <4>3
    <3>2. CASE jobs[k].out = d
      BY <2>2, <2>3, <3>2
    <3>3. CASE jobs[k].out \notin {p, d} /\ jobs[k].out # Absent
      <4>1. jobs[k].out \in {Out(k), Dst(k)} /\ jobs[k].out \in Places /\ o(k) = jobs[k].out
            /\ AllQueried(files[jobs[k].out])
        BY <2>3, <3>3 DEF JobSound, Job
      <4>2. files'[jobs[k].out] = files[jobs[k].out]
        BY <2>6, <3>3, <4>1
      <4> QED BY <4>1, <4>2
    <3>4. CASE jobs[k].out = Absent
      <4>1. p # Absent /\ d # Absent
        BY <2>2, WalkfilterAssumption DEF Places
      <4> QED BY <2>3, <3>4, <4>1
    <3> QED BY <3>1, <3>2, <3>3, <3>4
  <2>10. \A k \in 1 .. Len(jobs) : k # j =>
            /\ jobs'[k].at = jobs[k].at /\ jobs'[k].todo = jobs[k].todo
            /\ jobs'[k].pos = jobs[k].pos /\ jobs'[k].result = jobs[k].result
            /\ jobs'[k].out = jobs[k].out \/ jobs[k].out \in {Out(j), Dst(j)}
            /\ \/ jobs'[k].out = Absent
               \/ jobs'[k].out \in {Out(k), Dst(k)} /\ AllQueried(files'[jobs'[k].out])
    <3> HIDE DEF o, R
    <3> QED BY <2>3, <2>4, <2>9
  <2>11. /\ b.at = "cleanup" /\ b.todo = c.todo /\ b.out = o(j) /\ b.pos = c.pos
         /\ b.result = c.result
    BY <2>3
  <2> HIDE DEF b, o, R
  <2>12. ASSUME Alone(j)
         PROVE  /\ files'[d] \in FiltersOf(ever'[Src(j)])
                /\ JobRight(input.mode, b, p, files'[p], files'[d], ever'[Src(j)])
    <3>1. JobRight(input.mode, c, p, files[p], files[d], E)
      BY <2>12 DEF IInv, JobsRight
    <3>2. files[p] \in FiltersOf(E)
      BY <1>1, <2>2, <3>1, DoingAll DEF JobRight
    <3>3. files'[d] \in FiltersOf(ever'[Src(j)])
      BY <2>2, <2>6, <2>7, <3>2 DEF FiltersOf
    <3>4. c.result # "ok"
      BY <1>1, <3>1 DEF JobRight
    <3> HIDE DEF c
    <3> QED BY <1>1, <2>11, <3>3, <3>4 DEF JobRight
  <2>13. JobSound(input.mode, b, p, d, files')
    <3>1. o(j) = Absent \/ (o(j) \in {p, d} /\ AllQueried(files'[o(j)]))
      BY <2>9
    <3> HIDE DEF p, d
    <3> QED BY <1>1, <2>11, <3>1 DEF JobSound
  <2> QED BY <1>1, <2>4, <2>6, <2>7, <2>8, <2>10, <2>11, <2>12, <2>13, JobStep
<1> QED BY <1>2, <1>3

LEMMA CleansKeeps ==
    ASSUME IInv, NEW j \in 1 .. Len(jobs), Cleans(j)
    PROVE  IInv'
<1> DEFINE c == jobs[j]
           p == Out(j)
           d == Dst(j)
           t == Tmp(d)
           E == ever[Src(j)]
           r == IF c.result = "pending" THEN "ok" ELSE c.result
           o(k) == IF jobs[k].out = t THEN Absent ELSE jobs[k].out
           R(k, a, e) == Rec(a, jobs[k].todo, o(k), jobs[k].pos, e)
           b == R(j, "done", r)
<1>1. /\ c \in Job /\ c.at = "cleanup" /\ j \in Running
      /\ UNCHANGED <<input, ever, broken, main>>
      /\ files' = IF input.mode = "filter" THEN files ELSE [files EXCEPT ![t] = Absent]
      /\ input.mode # "filter" => p = t
  BY JobsAre, RunningIs DEF Cleans, Unlinks, At, IInv, Idle, Out
<1>2. /\ d \in Paths /\ Src(j) \in Paths /\ p \in Places \ Paths /\ d \in Places /\ d # p
      /\ t \in Places \ Paths /\ t # Stdout
      /\ files \in [Places -> Content \cup {Absent}]
      /\ ever \in [Paths -> SUBSET (Content \cup {Absent})]
  BY Outs, WalkfilterAssumption DEF IInv, Shapes, Places, Temps
<1>3. ASSUME NEW k \in 1 .. Len(jobs)
      PROVE  /\ jobs[k] \in Job
             /\ JobSound(input.mode, jobs[k], Out(k), Dst(k), files)
             /\ o(k) \in Places \cup {Absent}
             /\ \A a, e : R(k, a, e).at = a /\ R(k, a, e).todo = jobs[k].todo
                          /\ R(k, a, e).out = o(k) /\ R(k, a, e).pos = jobs[k].pos
                          /\ R(k, a, e).result = e
  <2>1. jobs[k] \in Job /\ JobSound(input.mode, jobs[k], Out(k), Dst(k), files)
    BY JobsAre DEF IInv, JobsSound
  <2>2. jobs[k].out \in Places \cup {Absent}
    BY <2>1 DEF Job
  <2> QED BY <1>2, <2>1, <2>2, RecIs
<1>4. r # "pending" /\ (c.result # "pending" => r = c.result)
      /\ r \in {"pending", "ok", "failed"}
  BY <1>1 DEF Job
<1>5. /\ jobs' \in Seq(Job) /\ Len(jobs') = Len(jobs) /\ jobs'[j] = b /\ b \in Job
      /\ \A k \in 1 .. Len(jobs) : k # j => jobs'[k] = R(k, jobs[k].at, jobs[k].result)
  <2> DEFINE new(k) == [(IF k = j THEN With(c, "ok") ELSE jobs[k]) EXCEPT
                          !.at = IF k = j THEN "done" ELSE @,
                          !.out = IF @ = t THEN Absent ELSE @]
  <2>1. jobs' = [k \in DOMAIN jobs |-> new(k)]
    BY Zenon DEF Cleans, Ended
  <2>3. ASSUME NEW k \in 1 .. Len(jobs), k # j
        PROVE  new(k) = R(k, jobs[k].at, jobs[k].result)
    <3> DEFINE e == jobs[k]
    <3>1. e = Rec(e.at, e.todo, e.out, e.pos, e.result)
      BY JobsAre DEF IInv
    <3>2. new(k) = [e EXCEPT !.at = e.at, !.out = IF @ = t THEN Absent ELSE @]
      BY <2>3
    <3>3. [e EXCEPT !.at = e.at, !.out = IF @ = t THEN Absent ELSE @]
             = R(k, e.at, e.result)
      <4> DEFINE P == Rec(e.at, e.todo, e.out, e.pos, e.result)
                 x == IF e.out = t THEN Absent ELSE e.out
      <4>1. e = Rec(e.at, e.todo, e.out, e.pos, e.result)
        BY <3>1
      <4> HIDE DEF e, t, x
      <4>2. /\ [e EXCEPT !.at = e.at] = P
            /\ [P EXCEPT !.out = x] = Rec(e.at, e.todo, x, e.pos, e.result)
        BY <4>1 DEF Rec
      <4>3. [e EXCEPT !.at = e.at, !.out = x] = Rec(e.at, e.todo, x, e.pos, e.result)
        <5> HIDE DEF P
        <5> QED BY <4>2
      <4> QED BY <4>3 DEF x, e
    <3> QED BY <3>2, <3>3, Zenon
  <2>4. new(j) = b
    <3> DEFINE e == With(c, "ok")
    <3>1. e = Rec(c.at, c.todo, c.out, c.pos, r)
      BY Resulting DEF IInv
    <3>2. new(j) = [e EXCEPT !.at = "done", !.out = IF @ = t THEN Absent ELSE @]
      <4> HIDE DEF t
      <4> QED OBVIOUS
    <3>3. [e EXCEPT !.at = "done", !.out = IF @ = t THEN Absent ELSE @] = b
      <4> DEFINE P == Rec("done", e.todo, e.out, e.pos, e.result)
                 x == IF e.out = t THEN Absent ELSE e.out
      <4>1. e = Rec(e.at, e.todo, e.out, e.pos, e.result)
        BY <3>1, RecIs
      <4> HIDE DEF e, t, x
      <4>2. /\ [e EXCEPT !.at = "done"] = P
            /\ [P EXCEPT !.out = x] = Rec("done", e.todo, x, e.pos, e.result)
        BY <4>1 DEF Rec
      <4>3. [e EXCEPT !.at = "done", !.out = x] = Rec("done", e.todo, x, e.pos, e.result)
        <5> HIDE DEF P
        <5> QED BY <4>2
      <4>4. e.todo = c.todo /\ e.out = c.out /\ e.pos = c.pos /\ e.result = r
        BY <3>1, RecIs DEF e
      <4> QED BY <4>3, <4>4 DEF x
    <3> QED BY <3>2, <3>3, Zenon
  <2>5. \A k \in 1 .. Len(jobs) : R(k, jobs[k].at, jobs[k].result) \in Job
    <3> SUFFICES ASSUME NEW k \in 1 .. Len(jobs) PROVE R(k, jobs[k].at, jobs[k].result) \in Job
      OBVIOUS
    <3> HIDE DEF o
    <3> QED BY <1>3 DEF Job, Rec
  <2>6. b \in Job
    <3>1. o(j) \in Places \cup {Absent}
      BY <1>3
    <3> HIDE DEF o, r
    <3> QED BY <1>1, <1>4, <3>1 DEF Job, Rec
  <2> HIDE DEF R, b, new
  <2>7. Len(jobs) \in Nat /\ DOMAIN jobs = 1 .. Len(jobs)
    BY JobsAre DEF IInv
  <2>8. \A k \in 1 .. Len(jobs) : new(k) \in Job
    BY <2>3, <2>4, <2>5, <2>6
  <2>9. /\ jobs' \in Seq(Job) /\ Len(jobs') = Len(jobs)
        /\ \A k \in 1 .. Len(jobs) : jobs'[k] = new(k)
    BY <2>1, <2>7, <2>8
  <2> QED BY <2>3, <2>4, <2>6, <2>9
<1>6. /\ files' \in [Places -> Content \cup {Absent}]
      /\ \A q \in Places : files'[q] = IF q = t /\ input.mode # "filter" THEN Absent ELSE files[q]
  <2> HIDE DEF t
  <2>1. CASE input.mode = "filter"
    BY <1>1, <1>2, <2>1
  <2>2. CASE input.mode # "filter"
    <3>1. files' = [files EXCEPT ![t] = Absent]
      BY <1>1, <2>2
    <3> QED BY <1>2, <2>2, <3>1
  <2> QED BY <2>1, <2>2
<1>7. \A q \in Paths : ever[q] \subseteq ever'[q] /\ files'[q] \in ever'[q]
  BY <1>1, <1>2, <1>6 DEF IInv, Remembered, Places
<1>8. \A q \in Places : \/ files'[q] = files[q]
                        \/ q \in {p, d} /\ (files'[q] = Absent \/ AllQueried(files'[q]))
  <2> HIDE DEF p, d, t
  <2> QED BY <1>1, <1>6
<1>9. ASSUME NEW k \in 1 .. Len(jobs)
      PROVE  o(k) = Absent \/ (o(k) \in {Out(k), Dst(k)} /\ AllQueried(files'[o(k)]))
  <2>1. CASE jobs[k].out \in {t, Absent}
    BY <2>1
  <2>2. CASE jobs[k].out \notin {t, Absent}
    <3>1. jobs[k].out \in {Out(k), Dst(k)} /\ jobs[k].out \in Places /\ o(k) = jobs[k].out
          /\ AllQueried(files[jobs[k].out])
      BY <1>3, <2>2 DEF JobSound, Job
    <3>2. files'[jobs[k].out] = files[jobs[k].out]
      BY <1>6, <2>2, <3>1
    <3> QED BY <3>1, <3>2
  <2> QED BY <2>1, <2>2
<1>10. ASSUME NEW k \in 1 .. Len(jobs), k # j
       PROVE  o(k) = jobs[k].out \/ jobs[k].out \in {p, d}
  <2>1. input.mode # "filter"
    BY <1>10, Outs DEF IInv
  <2> QED BY <1>1, <2>1
<1>11. /\ b.at = "done" /\ b.todo = c.todo /\ b.out = o(j) /\ b.pos = c.pos /\ b.result = r
  BY RecIs
<1> HIDE DEF b, o, R
<1>12. \A k \in 1 .. Len(jobs) : k # j =>
          /\ jobs'[k].at = jobs[k].at /\ jobs'[k].todo = jobs[k].todo
          /\ jobs'[k].pos = jobs[k].pos /\ jobs'[k].result = jobs[k].result
          /\ jobs'[k].out = jobs[k].out \/ jobs[k].out \in {Out(j), Dst(j)}
          /\ \/ jobs'[k].out = Absent
             \/ jobs'[k].out \in {Out(k), Dst(k)} /\ AllQueried(files'[jobs'[k].out])
  BY <1>3, <1>5, <1>9, <1>10
<1>13. JobSound(input.mode, b, p, d, files')
  <2>1. o(j) = Absent \/ (o(j) \in {p, d} /\ AllQueried(files'[o(j)]))
    BY <1>9
  <2> HIDE DEF p, d, r
  <2> QED BY <1>4, <1>11, <2>1 DEF JobSound
<1>14. files'[d] = files[d]
  BY <1>2, <1>6
<1>15. ASSUME Alone(j)
       PROVE  JobRight(input.mode, b, p, files'[p], files'[d], ever'[Src(j)])
  <2>1. JobRight(input.mode, c, p, files[p], files[d], E)
    BY <1>15 DEF IInv, JobsRight
  <2>2. r = "ok" => input.mode # "filter" /\ files[d] \in FiltersOf(E)
    BY <1>1, <2>1 DEF JobRight
  <2>3. input.mode # "filter" => files'[p] = Absent
    BY <1>1, <1>2, <1>6
  <2> HIDE DEF c, p, d, r
  <2> QED BY <1>1, <1>11, <1>14, <2>2, <2>3 DEF JobRight
<1> QED BY <1>1, <1>2, <1>4, <1>5, <1>6, <1>7, <1>8, <1>11, <1>12, <1>13, <1>14, <1>15, JobStep

LEMMA IsKilledKeeps ==
    ASSUME IInv, NEW j \in 1 .. Len(jobs), IsKilled(j)
    PROVE  IInv'
<1> DEFINE c == jobs[j]
           b == Rec("killed", c.todo, c.out, c.pos, c.result)
<1>1. /\ c \in Job /\ j \in Running /\ c.at # "done" /\ input.mode # "filter"
      /\ jobs' = [jobs EXCEPT ![j] = b] /\ UNCHANGED <<input, files, ever, broken, main>>
  BY JobsAre, Updates, RunningIs DEF IsKilled, Goes, IInv, Submitted, Idle
<1>2. b \in Job
  BY <1>1 DEF Job, Rec
<1>3. /\ JobSound(input.mode, c, Out(j), Dst(j), files)
      /\ Alone(j) => JobRight(input.mode, c, Out(j), files[Out(j)], files[Dst(j)], ever[Src(j)])
  BY DEF IInv, JobsRight, JobsSound
<1>4. /\ b.at = "killed" /\ b.todo = c.todo /\ b.out = c.out /\ b.pos = c.pos
      /\ b.result = c.result
  BY RecIs
<1> HIDE DEF b, c
<1>5. JobSound(input.mode, b, Out(j), Dst(j), files)
  BY <1>1, <1>3, <1>4 DEF JobSound
<1>6. Alone(j) => JobRight(input.mode, b, Out(j), files[Out(j)], files[Dst(j)], ever[Src(j)])
  BY <1>1, <1>3, <1>4 DEF JobRight
<1> QED BY <1>1, <1>2, <1>4, <1>5, <1>6, QuietStep DEF c

\* When a process dies, every job without a result fails at once.
LEMMA DiesKeeps ==
    ASSUME IInv, NEW j \in 1 .. Len(jobs), Dies(j)
    PROVE  IInv'
<1> DEFINE r(k) == IF jobs[k].result = "pending" THEN "failed" ELSE jobs[k].result
           a(k) == IF k = j THEN "killed" ELSE jobs[k].at
           b(k) == Rec(a(k), jobs[k].todo, jobs[k].out, jobs[k].pos, r(k))
<1>1. /\ input.mode = "pool" /\ j \in Running /\ jobs[j].at # "done" /\ broken' = TRUE
      /\ UNCHANGED <<input, files, ever, main>>
  BY RunningIs DEF Dies, IInv, Idle
<1>2. /\ Len(jobs) \in Nat /\ DOMAIN jobs = 1 .. Len(jobs)
      /\ \A k \in 1 .. Len(jobs) : jobs[k] \in Job
  BY JobsAre DEF IInv
<1>3. \A k \in 1 .. Len(jobs) :
         [With(jobs[k], "failed") EXCEPT !.at = IF k = j THEN "killed" ELSE @] = b(k)
  <2> SUFFICES ASSUME NEW k \in 1 .. Len(jobs)
               PROVE  [With(jobs[k], "failed") EXCEPT !.at = IF k = j THEN "killed" ELSE @] = b(k)
    OBVIOUS
  <2> DEFINE c == jobs[k]
             g == With(c, "failed")
             q == r(k)
  <2>1. /\ g = Rec(c.at, c.todo, c.out, c.pos, q)
        /\ \A place : [g EXCEPT !.at = place] = Rec(place, c.todo, c.out, c.pos, q)
    BY Resulting DEF IInv
  <2>2. g.at = c.at
    BY <2>1, RecIs
  <2>3. [g EXCEPT !.at = IF k = j THEN "killed" ELSE @] = [g EXCEPT !.at = a(k)]
    <3> HIDE DEF g
    <3> QED BY <2>2
  <2> QED BY <2>1, <2>3, Zenon
<1>4. jobs' = [k \in 1 .. Len(jobs) |-> b(k)]
  BY <1>2, <1>3 DEF Dies
<1>5. \A k \in 1 .. Len(jobs) : b(k) \in Job
  BY <1>2 DEF Job, Rec
<1>7. \A k \in 1 .. Len(jobs) :
         /\ b(k).at = a(k) /\ b(k).todo = jobs[k].todo /\ b(k).out = jobs[k].out
         /\ b(k).pos = jobs[k].pos /\ b(k).result = r(k)
  BY RecIs
<1> HIDE DEF b
<1>6. /\ jobs' \in Seq(Job) /\ Len(jobs') = Len(jobs) /\ DOMAIN jobs' = 1 .. Len(jobs)
      /\ \A k \in 1 .. Len(jobs) : jobs'[k] = b(k)
  BY <1>2, <1>4, <1>5
<1>8. \A k : /\ Rule(k)' = Rule(k) /\ Dst(k)' = Dst(k) /\ Src(k)' = Src(k)
             /\ Out(k)' = Out(k) /\ (Alone(k)' <=> Alone(k)) /\ Old(k)' = Old(k)
  BY <1>1, SameRules
<1>9. Running' \subseteq Running
  BY <1>2, <1>6, <1>7 DEF Running
<1>10. Shapes'
  BY <1>1, <1>6 DEF IInv, Shapes
<1>11. Submitted'
  <2>1. main = "ok" => \A k \in 1 .. Len(jobs) : jobs'[k].result = "ok"
    BY <1>6, <1>7 DEF IInv, Submitted, Is
  <2> QED BY <1>1, <1>6, <1>8, <2>1 DEF IInv, Submitted, Is
<1>12. Busy'
  BY <1>1, <1>9, BusyKept DEF IInv
<1>13. Remembered' /\ Clean'
  BY <1>1, <1>8 DEF IInv, Remembered, Clean
<1>14. JobsSound'
  <2> SUFFICES ASSUME NEW k \in 1 .. Len(jobs)
               PROVE  JobSound(input.mode, b(k), Out(k), Dst(k), files)
    BY <1>1, <1>6, <1>8 DEF JobsSound
  <2>1. JobSound(input.mode, jobs[k], Out(k), Dst(k), files)
    BY DEF IInv, JobsSound
  <2>2. /\ b(k).at = a(k) /\ b(k).todo = jobs[k].todo /\ b(k).out = jobs[k].out
        /\ b(k).pos = jobs[k].pos /\ b(k).result = r(k)
    BY <1>7
  <2>3. r(k) # "pending"
    OBVIOUS
  <2> HIDE DEF r
  <2> QED BY <1>1, <2>1, <2>2, <2>3 DEF JobSound
<1>15. JobsRight'
  <2> SUFFICES ASSUME NEW k \in 1 .. Len(jobs), Alone(k)
               PROVE  JobRight(input.mode, b(k), Out(k), files[Out(k)], files[Dst(k)], ever[Src(k)])
    BY <1>1, <1>6, <1>8 DEF JobsRight
  <2>1. JobRight(input.mode, jobs[k], Out(k), files[Out(k)], files[Dst(k)], ever[Src(k)])
    BY DEF IInv, JobsRight
  <2>2. /\ b(k).at = a(k) /\ b(k).todo = jobs[k].todo /\ b(k).out = jobs[k].out
        /\ b(k).pos = jobs[k].pos /\ b(k).result = r(k)
    BY <1>7
  <2>3. r(k) # "pending" /\ (r(k) = "ok" => jobs[k].result = "ok" /\ k # j)
    <3>1. k = j => jobs[k].result # "ok"
      BY <1>1, <2>1 DEF JobRight
    <3> QED BY <3>1
  <2> HIDE DEF r
  <2> QED BY <1>1, <2>1, <2>2, <2>3 DEF JobRight
<1>16. Whole'
  BY <1>1, <1>8 DEF IInv, Whole
<1> QED BY <1>10, <1>11, <1>12, <1>13, <1>14, <1>15, <1>16 DEF IInv

-----------------------------------------------------------------------------
(* The main process, and the invariant.                                      *)

LEMMA SubmitsKeeps ==
    ASSUME IInv, Submits
    PROVE  IInv'
<1> DEFINE n == Len(jobs) + 1
<1>1. /\ main = "submit" /\ n <= Len(input.rules) /\ input.mode # "filter"
      /\ UNCHANGED <<input, files, ever, broken>>
  BY DEF Submits, NextRule, IInv, Submitted
<1>2. /\ Len(jobs) \in Nat /\ Len(input.rules) \in Nat
      /\ \A k \in 1 .. Len(jobs) : jobs[k] \in Job
      /\ jobs \in Seq(Job)
  BY JobsAre, RulesAre DEF IInv, Shapes
<1>3. \A k : /\ Rule(k)' = Rule(k) /\ Dst(k)' = Dst(k) /\ Src(k)' = Src(k)
             /\ Out(k)' = Out(k) /\ (Alone(k)' <=> Alone(k)) /\ Old(k)' = Old(k)
  BY <1>1, SameRules
<1>4. Remembered' /\ Clean' /\ Whole'
  BY <1>1, <1>3 DEF IInv, Remembered, Clean, Whole
<1>5. CASE Rule(n) = Garbage \/ broken
  <2>1. main' = "failed" /\ UNCHANGED jobs
    BY <1>5 DEF Submits, NextRule
  <2>2. Running' = Running
    BY <2>1 DEF Running
  <2>3. Shapes' /\ Submitted' /\ Busy' /\ JobsSound' /\ JobsRight'
    BY <1>1, <1>3, <2>1, <2>2 DEF IInv, Shapes, Submitted, Busy, JobsSound, JobsRight
  <2> QED BY <1>4, <2>3 DEF IInv
<1>6. CASE Rule(n) # Garbage /\ ~ broken
  <2>1. jobs' = Append(jobs, NewJob) /\ UNCHANGED main
    BY <1>6 DEF Submits, NextRule
  <2>2. NewJob \in Job
    BY DEF NewJob, Job, Content, Places
  <2>3. /\ jobs' \in Seq(Job) /\ Len(jobs') = n /\ DOMAIN jobs' = 1 .. n
        /\ \A k \in 1 .. n : jobs'[k] = IF k = n THEN NewJob ELSE jobs[k]
    BY <1>2, <2>1, <2>2
  <2>4. Shapes'
    BY <1>1, <2>1, <2>3 DEF IInv, Shapes
  <2>5. Submitted'
    <3>1. \A k \in 1 .. n : Rule(k) # Garbage
      <4> SUFFICES ASSUME NEW k \in 1 .. n PROVE Rule(k) # Garbage
        OBVIOUS
      <4>1. CASE k = n
        BY <1>6, <4>1
      <4>2. CASE k # n
        <5>1. k \in 1 .. Len(jobs)
          BY <1>2, <4>2
        <5> QED BY <5>1 DEF IInv, Submitted
      <4> QED BY <4>1, <4>2
    <3> HIDE DEF n
    <3> QED BY <1>1, <1>2, <1>3, <1>6, <2>1, <2>3, <3>1 DEF IInv, Submitted
  <2>6. Busy'
    <3>1. Running' \subseteq Running
      <4> SUFFICES ASSUME NEW k \in 1 .. n, jobs'[k].at \notin {"queued", "done", "killed"}
                   PROVE  k \in 1 .. Len(jobs) /\ jobs[k].at \notin {"queued", "done", "killed"}
        BY <1>2, <2>3 DEF Running, IInv, Shapes
      <4>1. k # n
        BY <2>3 DEF NewJob
      <4>2. k \in 1 .. Len(jobs) /\ jobs'[k] = jobs[k]
        BY <1>2, <2>3, <4>1
      <4> QED BY <4>2
    <3>2. IsFiniteSet(Running) /\ Cardinality(Running) \in Nat /\ Workers \in Nat
      BY RunningIs, WalkfilterAssumption DEF IInv
    <3>3. Cardinality(Running') <= Cardinality(Running) /\ Cardinality(Running') \in Nat
      BY <3>1, <3>2, FS_Subset, FS_CardinalityType
    <3> QED BY <3>2, <3>3 DEF IInv, Busy
  <2>7. JobsSound'
    <3> SUFFICES ASSUME NEW k \in 1 .. n
                 PROVE  JobSound(input.mode, jobs'[k], Out(k), Dst(k), files)
      BY <1>1, <1>3, <2>3 DEF JobsSound
    <3>1. CASE k = n
      <4>1. jobs'[k] = NewJob
        BY <2>3, <3>1
      <4> QED BY <1>1, <4>1 DEF JobSound, NewJob
    <3>2. CASE k # n
      <4>1. k \in 1 .. Len(jobs) /\ jobs'[k] = jobs[k]
        BY <1>2, <2>3, <3>2
      <4> QED BY <4>1 DEF IInv, JobsSound
    <3> QED BY <3>1, <3>2
  <2>8. JobsRight'
    <3> SUFFICES ASSUME NEW k \in 1 .. n, Alone(k)
                 PROVE  JobRight(input.mode, jobs'[k], Out(k), files[Out(k)], files[Dst(k)],
                                 ever[Src(k)])
      BY <1>1, <1>3, <2>3 DEF JobsRight
    <3>1. CASE k = n
      <4>1. jobs'[k] = NewJob
        BY <2>3, <3>1
      <4> QED BY <1>1, <4>1 DEF JobRight, NewJob
    <3>2. CASE k # n
      <4>1. k \in 1 .. Len(jobs) /\ jobs'[k] = jobs[k]
        BY <1>2, <2>3, <3>2
      <4> QED BY <4>1 DEF IInv, JobsRight
    <3> QED BY <3>1, <3>2
  <2> QED BY <1>4, <2>4, <2>5, <2>6, <2>7, <2>8 DEF IInv
<1> QED BY <1>5, <1>6

LEMMA AllSubmittedKeeps ==
    ASSUME IInv, AllSubmitted
    PROVE  IInv'
<1>1. /\ main = "submit" /\ Len(jobs) + 1 > Len(input.rules) /\ main' = "collect"
      /\ UNCHANGED <<input, files, ever, jobs, broken>>
  BY DEF AllSubmitted, NextRule
<1>2. Len(jobs) \in Nat /\ Len(input.rules) \in Nat /\ Len(jobs) <= Len(input.rules)
  BY JobsAre, RulesAre DEF IInv, Shapes, Submitted
<1>3. Len(jobs) = Len(input.rules)
  BY <1>1, <1>2
<1>4. /\ \A k : /\ Rule(k)' = Rule(k) /\ Dst(k)' = Dst(k) /\ Src(k)' = Src(k)
                /\ Out(k)' = Out(k) /\ (Alone(k)' <=> Alone(k)) /\ Old(k)' = Old(k)
      /\ Running' = Running
  BY <1>1, SameRules DEF Running
<1>5. Shapes' /\ Busy' /\ Remembered' /\ Clean' /\ JobsSound' /\ JobsRight' /\ Whole'
  BY <1>1, <1>4 DEF IInv, Shapes, Busy, Remembered, Clean, JobsSound, JobsRight, Whole
<1>6. Submitted'
  BY <1>1, <1>3, <1>4 DEF IInv, Submitted
<1> QED BY <1>5, <1>6 DEF IInv

LEMMA CollectsKeeps ==
    ASSUME IInv, Collects
    PROVE  IInv'
<1>1. /\ main = "collect" /\ main' \in {"ok", "failed"}
      /\ main' = "ok" => \A k \in DOMAIN jobs : Is(k, "ok")
      /\ UNCHANGED <<input, files, ever, jobs, broken>>
  BY DEF Collects
<1>2. DOMAIN jobs = 1 .. Len(jobs)
  BY JobsAre DEF IInv
<1>3. /\ \A k : /\ Rule(k)' = Rule(k) /\ Dst(k)' = Dst(k) /\ Src(k)' = Src(k)
                /\ Out(k)' = Out(k) /\ (Alone(k)' <=> Alone(k)) /\ Old(k)' = Old(k)
      /\ Running' = Running
  BY <1>1, SameRules DEF Running
<1>4. Shapes' /\ Busy' /\ Remembered' /\ Clean' /\ JobsSound' /\ JobsRight' /\ Whole'
  BY <1>1, <1>3 DEF IInv, Shapes, Busy, Remembered, Clean, JobsSound, JobsRight, Whole
<1>5. Submitted'
  BY <1>1, <1>2, <1>3 DEF IInv, Submitted, Is
<1> QED BY <1>4, <1>5 DEF IInv

LEMMA FilterJobIs ==
    ASSUME NEW lines
    PROVE  FilterJob(lines) = Rec("lines", lines, Stdout, 0, "pending")
<1> DEFINE b == Rec("queued", << >>, Absent, 0, "pending")
           c == Rec("lines", << >>, Absent, 0, "pending")
           d == Rec("lines", lines, Absent, 0, "pending")
           e == Rec("lines", lines, Stdout, 0, "pending")
<1>1. /\ [b EXCEPT !.at = "lines"] = c /\ [c EXCEPT !.todo = lines] = d
      /\ [d EXCEPT !.out = Stdout] = e
  BY DEF Rec
<1>2. NewJob = b
  BY DEF NewJob, Rec
<1> HIDE DEF b, c, d, e
<1> QED BY <1>1, <1>2 DEF FilterJob, e

LEMMA InitIInv == Init => IInv
<1> SUFFICES ASSUME Init PROVE IInv
  OBVIOUS
<1>1. input \in Inputs /\ broken = FALSE
  BY DEF Init
<1>2. /\ Len(input.rules) \in Nat /\ input.mode \in {"filter", "pool", "sync"}
      /\ \A p \in Paths \cup Temps : input.files[p] \in Content \cup {Absent}
      /\ \A r \in 1 .. Len(input.rules) :
            Rule(r) # Garbage => Dst(r) \in Paths /\ Src(r) \in Paths
      /\ input.mode = "filter" =>
            Len(input.rules) = 1 /\ Rule(1) # Garbage /\ input.files[Src(1)] # Absent
  BY <1>1, RulesAre
<1>3. AllQueried(<< >>) /\ << >> \in Content
  BY DEF AllQueried, Content
<1>4. /\ files \in [Places -> Content \cup {Absent}]
      /\ \A p \in Places : files[p] = Old(p)
      /\ \A p \in Paths : files[p] = input.files[p]
  BY <1>2, <1>3, WalkfilterAssumption DEF Init, Places, Old
<1>5. /\ ever \in [Paths -> SUBSET (Content \cup {Absent})]
      /\ \A p \in Paths : ever[p] = {input.files[p]}
  BY <1>2 DEF Init
<1>6. Remembered /\ Clean /\ Whole
  <2>1. Clean
    BY <1>4 DEF Clean
  <2> QED BY <1>2, <1>4, <1>5, <2>1 DEF Remembered, Whole
<1>w. Workers \in Nat /\ Workers >= 1
  BY WalkfilterAssumption
<1>7. CASE input.mode # "filter"
  <2>1. jobs = << >> /\ main = "submit" /\ Len(jobs) = 0 /\ jobs \in Seq(Job)
    BY <1>7 DEF Init
  <2>2. Shapes
    BY <1>1, <1>4, <1>5, <2>1 DEF Shapes
  <2>3. 1 .. Len(jobs) = {}
    BY <2>1
  <2>4. Submitted /\ JobsSound /\ JobsRight
    BY <1>1, <1>2, <1>7, <2>1, <2>3 DEF Submitted, JobsSound, JobsRight
  <2>5. Running = {}
    BY <2>1 DEF Running
  <2>6. Busy
    BY <1>w, <2>5, FS_EmptySet DEF Busy
  <2> QED BY <1>6, <2>2, <2>4, <2>6 DEF IInv
<1>8. CASE input.mode = "filter"
  <2> DEFINE l == input.files[Src(1)]
             b == Rec("lines", l, Stdout, 0, "pending")
  <2>1. jobs = << b >> /\ main = "collect"
    <3>1. FilterJob(l) = b
      BY FilterJobIs
    <3> QED BY <1>8, <3>1 DEF Init
  <2>2. l \in Content /\ l # Absent /\ Src(1) \in Paths
    <3>0. Len(input.rules) = 1 /\ Rule(1) # Garbage /\ l # Absent
      BY <1>2, <1>8, Zenon
    <3>1. 1 \in 1 .. Len(input.rules) /\ Rule(1) # Garbage /\ l # Absent
      <4> HIDE DEF l
      <4> QED BY <3>0
    <3>2. Src(1) \in Paths
      BY <1>2, <3>1
    <3>3. l \in Content \cup {Absent}
      BY <1>2, <3>2
    <3> HIDE DEF l
    <3> QED BY <3>1, <3>2, <3>3
  <2>3. b \in Job
    BY <2>2 DEF Job, Rec, Places
  <2>i. b.at = "lines" /\ b.todo = l /\ b.out = Stdout /\ b.pos = 0 /\ b.result = "pending"
    BY RecIs
  <2> HIDE DEF b
  <2>4. jobs \in Seq(Job) /\ Len(jobs) = 1 /\ DOMAIN jobs = {1} /\ jobs[1] = b
    BY <2>1, <2>3
  <2>5. Shapes /\ Submitted
    <3>1. Shapes
      BY <1>1, <1>4, <1>5, <2>1, <2>4 DEF Shapes
    <3>2. \A j \in 1 .. Len(jobs) : j = 1
      BY <2>4
    <3>3. Submitted
      BY <1>1, <1>2, <1>8, <2>1, <2>4, <3>2 DEF Submitted
    <3> QED BY <3>1, <3>3
  <2>6. Busy
    <3>1. Running \subseteq {1}
      BY <2>4 DEF Running
    <3>2. IsFiniteSet({1}) /\ Cardinality({1}) = 1
      BY FS_Singleton
    <3>3. Cardinality(Running) <= 1 /\ Cardinality(Running) \in Nat
      BY <3>1, <3>2, FS_Subset, FS_CardinalityType
    <3> QED BY <1>w, <3>3 DEF Busy
  <2>7. files[Out(1)] = << >> /\ Out(1) = Stdout
    <3>1. Out(1) = Stdout /\ Stdout \in Places
      BY <1>8, WalkfilterAssumption DEF Out, Places
    <3> QED BY <1>4, <3>1 DEF Old
  <2>8. Doing(l, << >>, ever[Src(1)])
    <3>1. l = SubSeq(l, 0 + 1, Len(l)) /\ 0 \in 0 .. Len(l)
      BY <2>2 DEF Content
    <3>2. << >> = Kept(l)[0]
      BY <2>2, KeptIs DEF KeepsUpTo
    <3>3. l \in ever[Src(1)] \ {Absent}
      BY <1>5, <2>2
    <3> HIDE DEF l
    <3>4. \A i \in 1 .. 0 : l[i] # Garbage
      OBVIOUS
    <3> QED BY <3>1, <3>2, <3>3, <3>4 DEF Doing
  <2>9. JobRight(input.mode, b, Out(1), << >>, files[Dst(1)], ever[Src(1)])
    <3>1. Len(<< >>) = 0
      OBVIOUS
    <3> HIDE DEF l
    <3> QED BY <1>8, <2>i, <2>7, <2>8, <3>1 DEF JobRight
  <2>10. JobSound(input.mode, b, Out(1), Dst(1), files)
    <3> HIDE DEF l
    <3> QED BY <1>3, <2>i, <2>7 DEF JobSound
  <2>11. JobsRight /\ JobsSound
    BY <2>4, <2>7, <2>9, <2>10 DEF JobsRight, JobsSound
  <2> QED BY <1>6, <2>5, <2>6, <2>11 DEF IInv
<1> QED BY <1>7, <1>8

LEMMA NextKeeps == IInv /\ [Next]_vars => IInv'
<1> SUFFICES ASSUME IInv, [Next]_vars PROVE IInv'
  OBVIOUS
<1>0. DOMAIN jobs = 1 .. Len(jobs)
  BY JobsAre DEF IInv
<1>1. CASE Submits
  BY <1>1, SubmitsKeeps
<1>2. CASE AllSubmitted
  BY <1>2, AllSubmittedKeeps
<1>3. CASE Collects
  BY <1>3, CollectsKeeps
<1>4. ASSUME NEW j \in DOMAIN jobs, Works(j) PROVE IInv'
  <2>0. j \in 1 .. Len(jobs)
    BY <1>0, <1>4
  <2>1. CASE Takes(j)
    BY <2>0, <2>1, TakesKeeps
  <2>2. CASE OpensSource(j)
    BY <2>0, <2>2, OpensSourceKeeps
  <2>3. CASE OpensTmp(j)
    BY <2>0, <2>3, OpensTmpKeeps
  <2>4. CASE FiltersLine(j)
    BY <2>0, <2>4, FiltersLineKeeps
  <2>5. CASE FilterEnds(j)
    BY <2>0, <2>5, FilterEndsKeeps
  <2>6. CASE Renames(j)
    BY <2>0, <2>6, RenamesKeeps
  <2>7. CASE Cleans(j)
    BY <2>0, <2>7, CleansKeeps
  <2> QED BY <1>4, <2>1, <2>2, <2>3, <2>4, <2>5, <2>6, <2>7 DEF Works
<1>5. ASSUME NEW j \in DOMAIN jobs, Dies(j) PROVE IInv'
  BY <1>0, <1>5, DiesKeeps
<1>6. ASSUME NEW j \in DOMAIN jobs, IsKilled(j) PROVE IInv'
  BY <1>0, <1>6, IsKilledKeeps
<1>8. ASSUME NEW j \in DOMAIN jobs, Breaks(j) PROVE IInv'
  BY <1>0, <1>8, BreaksKeeps
<1>7. CASE UNCHANGED vars
  <2>1. UNCHANGED <<input, files, ever, jobs, broken, main>>
    BY <1>7 DEF vars
  <2>2. /\ \A k : /\ Rule(k)' = Rule(k) /\ Dst(k)' = Dst(k) /\ Src(k)' = Src(k)
                  /\ Out(k)' = Out(k) /\ (Alone(k)' <=> Alone(k)) /\ Old(k)' = Old(k)
        /\ Running' = Running
    BY <2>1, SameRules DEF Running
  <2>3. Shapes' /\ Busy' /\ Remembered' /\ Clean' /\ JobsSound' /\ JobsRight' /\ Whole'
    BY <2>1, <2>2 DEF IInv, Shapes, Busy, Remembered, Clean, JobsSound, JobsRight, Whole
  <2>4. Submitted'
    BY <2>1, <2>2 DEF IInv, Submitted, Is
  <2> QED BY <2>3, <2>4 DEF IInv
<1> QED BY <1>1, <1>2, <1>3, <1>4, <1>5, <1>6, <1>7, <1>8 DEF Next, Main

\* The invariant holds in every reachable state.
LEMMA Invariant == Spec => []IInv
BY InitIInv, NextKeeps, PTL DEF Spec

-----------------------------------------------------------------------------
(* What it says.                                                             *)

\* The pool runs at most as many jobs at a time as it has processes, and a job
\* that has ended has a result.
THEOREM TypeCorrect == Spec => []TypeOK
<1>1. IInv => TypeOK
  <2> SUFFICES ASSUME IInv PROVE TypeOK
    OBVIOUS
  <2>1. \A j \in DOMAIN jobs :
           jobs[j] \in Job /\ (jobs[j].at = "done" => jobs[j].result # "pending")
    BY JobsAre DEF IInv, JobsSound, JobSound
  <2> QED BY <2>1 DEF TypeOK, At, Is, Job, IInv, Busy, Shapes
<1> QED BY <1>1, Invariant, PTL

\* Whatever the walks and the rules are, also when two rules have one
\* destination and their jobs rename and unlink each other's files, whatever
\* fails and whenever a process dies: no file that transform or check_stream has
\* written to has a line that check_line refuses.
THEOREM OnlyQueried == Spec => []NothingElseIsWritten
<1>1. IInv => NothingElseIsWritten
  <2> SUFFICES ASSUME IInv, NEW p \in DOMAIN files, files[p] \notin {Old(p), Absent}
               PROVE  \A line \in Range(files[p]) : Queried(line)
    BY DEF NothingElseIsWritten, Old
  <2>1. p \in Places
    BY DEF IInv, Shapes
  <2>2. AllQueried(files[p])
    BY <2>1 DEF IInv, Clean
  <2>3. DOMAIN files[p] = 1 .. Len(files[p])
    BY <2>2 DEF AllQueried, Content
  <2> QED BY <2>2, <2>3 DEF AllQueried, Range
<1> QED BY <1>1, Invariant, PTL

LEMMA FiltersIs == \A j : Filters(j) = FiltersOf(ever[Src(j)])
BY DEF Filters, FiltersOf

\* The destination of a rule that has its files for itself never has a part of a
\* filter: it has what it had, or the filter of all the lines of its source,
\* renamed to it in one step, whatever the other rules' jobs do to each other.
THEOREM NeverPartial == Spec => []DestinationsAreWhole
<1>1. IInv => DestinationsAreWhole
  <2> SUFFICES ASSUME IInv, NEW j \in DOMAIN jobs, Alone(j)
               PROVE  files[Dst(j)] \in {input.files[Dst(j)]} \cup Filters(j)
    BY DEF DestinationsAreWhole, Apart
  <2>1. j \in 1 .. Len(jobs) /\ j \in 1 .. Len(input.rules)
    BY JobsAre, Outs DEF IInv
  <2> QED BY <2>1, FiltersIs DEF IInv, Whole, Submitted
<1> QED BY <1>1, Invariant, PTL

\* When the program reports success, every rule was submitted, and each that has
\* its files for itself has its destination made from its source.
THEOREM SuccessMeansAll == Spec => []SuccessIsComplete
<1>1. IInv => SuccessIsComplete
  <2> SUFFICES ASSUME IInv, main = "ok", NEW j \in DOMAIN jobs, Alone(j)
               PROVE  files[IF input.mode = "filter" THEN Stdout ELSE Dst(j)] \in Filters(j)
    BY DEF SuccessIsComplete, IInv, Submitted, Apart
  <2>1. j \in 1 .. Len(jobs)
    BY JobsAre DEF IInv
  <2>2. jobs[j].result = "ok"
    BY <2>1 DEF IInv, Submitted, Is
  <2>3. (IF input.mode = "filter" THEN files[Out(j)] ELSE files[Dst(j)]) \in FiltersOf(ever[Src(j)])
    BY <2>1, <2>2 DEF IInv, JobsRight, JobRight
  <2> QED BY <2>3, FiltersIs DEF Out
<1> QED BY <1>1, Invariant, PTL

\* A job that has ended, well or not, has removed its temporary file, if no other
\* rule's job has the same one.
THEOREM Unlinked == Spec => []NoLitter
<1>1. IInv => NoLitter
  <2> SUFFICES ASSUME IInv, NEW j \in DOMAIN jobs, At(j, "done"), Alone(j),
                      input.mode # "filter"
               PROVE  files[Tmp(Dst(j))] = Absent
    BY DEF NoLitter
  <2>1. j \in 1 .. Len(jobs)
    BY JobsAre DEF IInv
  <2> QED BY <2>1 DEF IInv, JobsRight, JobRight, At, Out
<1> QED BY <1>1, Invariant, PTL
=============================================================================
