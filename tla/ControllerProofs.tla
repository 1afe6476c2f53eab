-------------------------- MODULE ControllerProofs --------------------------
(* For any families, tables and bounds, and any answers of the engine.       *)
EXTENDS Controller, AgentProofs

-----------------------------------------------------------------------------
(* The state the proofs speak of is passed as arguments: ts for tasks, sv    *)
(* for service, cb for callbacks, st for stack, pd for pending, al for       *)
(* alerts, so that the same lemma serves before and after a step.            *)

On(s, x)   == \E k \in 1 .. Len(s) : s[k] = x
Once(s, x) == \A j, k \in 1 .. Len(s) : s[j] = x /\ s[k] = x => j = k

RunF(t) == Frame("run", t)
RegF(t) == Frame("register", t)
CbF(f)  == Frame("callbacks", f)

Future    == {"call", "task"} \X Nat
FrameType == [op : {"run", "register"}, arg : Nat] \cup [op : {"callbacks"}, arg : Future]

Futures(ts, sv)  == {Task(t) : t \in DOMAIN ts} \cup {Call(i) : i \in DOMAIN sv}
Done(ts, sv, f)  == IF f[1] = "task" THEN ts[f[2]].out.val # Pending
                                     ELSE sv[f[2]].ans.val # Pending
Queue(cb, f)     == IF f \in DOMAIN cb THEN cb[f] ELSE << >>
With(cb, f, s)   == [g \in DOMAIN cb \cup {f} |-> IF g = f THEN s ELSE cb[g]]
IsPlugin(ts, t)  == ts[t].prog \in {"detect", "table"}

\* A task is on the stack to run, waits, or has ended.
Scheduled(ts, sv, st) ==
    \A t \in DOMAIN ts :
        /\ Once(st, RunF(t))
        /\ On(st, RunF(t)) <=> ts[t].wait = << >> /\ ts[t].out.val = Pending
        /\ ts[t].wait # << >> => ts[t].out.val = Pending /\ ts[t].wait \in Futures(ts, sv)

\* What the frames are about.
Framed(ts, sv, st) ==
    \A x : On(st, x) =>
        IF x.op = "callbacks" THEN x.arg \in Futures(ts, sv) /\ Done(ts, sv, x.arg)
                              ELSE x.arg \in DOMAIN ts

\* The callbacks of a future: those who wait for it, each once, and the
\* controller's if it is a pending plugin; once it is done, they are run.
Called(ts, sv, cb, st, pd) ==
    \A f \in Futures(ts, sv) :
        /\ \A t \in DOMAIN ts : /\ Once(Queue(cb, f), t)
                                /\ On(Queue(cb, f), t) <=> ts[t].wait = f
        /\ \A x : On(Queue(cb, f), x) => x \in DOMAIN ts \cup {Completion}
        /\ Queue(cb, f) # << >> /\ Done(ts, sv, f) => On(st, CbF(f))
        /\ Once(Queue(cb, f), Completion)
        /\ On(Queue(cb, f), Completion) <=> \E t \in pd : f = Task(t)

\* A plugin is about to be registered, pending, or completed.
Watched(ts, st, pd, al) ==
    \A t \in DOMAIN ts :
        /\ Once(st, RegF(t))
        /\ On(st, RegF(t)) => t \notin pd
        /\ t \in pd \/ On(st, RegF(t)) => IsPlugin(ts, t)
        /\ t \in al <=> /\ IsPlugin(ts, t) /\ t \notin pd /\ ~ On(st, RegF(t))
                        /\ ts[t].out.val \in Errors
        /\ IsPlugin(ts, t) /\ t \notin pd /\ ~ On(st, RegF(t)) => ts[t].out.val # Pending

Shaped(ts, sv, cb, st, pd, al) ==
    /\ DOMAIN ts \subseteq Nat \ {0} /\ DOMAIN sv \subseteq Nat
    /\ st \in Seq(FrameType)
    /\ DOMAIN cb \subseteq Futures(ts, sv) /\ \A f \in DOMAIN cb : cb[f] \in Seq(Nat)
    /\ pd \subseteq DOMAIN ts /\ al \subseteq DOMAIN ts

Core(ts, sv, cb, st, pd, al) ==
    /\ Shaped(ts, sv, cb, st, pd, al)
    /\ Scheduled(ts, sv, st)
    /\ Framed(ts, sv, st)
    /\ Called(ts, sv, cb, st, pd)
    /\ Watched(ts, st, pd, al)

-----------------------------------------------------------------------------
(* Sequences used as stacks and queues.                                      *)

LEMMA OnPushed ==
    ASSUME NEW S, NEW s \in Seq(S), NEW a \in S
    PROVE  /\ << a >> \o s \in Seq(S) /\ << a >> \o s # << >>
           /\ Head(<< a >> \o s) = a /\ Tail(<< a >> \o s) = s
           /\ \A x : On(<< a >> \o s, x) <=> a = x \/ On(s, x)
           /\ \A x : Once(<< a >> \o s, x) <=> Once(s, x) /\ (a = x => ~ On(s, x))
<1> DEFINE r == << a >> \o s
<1>1. /\ r \in Seq(S) /\ Len(r) = Len(s) + 1 /\ r[1] = a /\ Len(s) \in Nat /\ r # << >>
      /\ \A k \in 1 .. Len(s) : r[k + 1] = s[k]
      /\ \A k \in 2 .. Len(r) : r[k] = s[k - 1]
  OBVIOUS
<1>2. Head(r) = a /\ Tail(r) = s
  OBVIOUS
<1> HIDE DEF r
<1>3. ASSUME NEW x PROVE On(r, x) <=> a = x \/ On(s, x)
  <2>1. ASSUME On(r, x), a # x PROVE On(s, x)
    <3>1. PICK k \in 1 .. Len(r) : r[k] = x
      BY <2>1 DEF On
    <3>2. k # 1
      BY <1>1, <2>1, <3>1
    <3>3. k - 1 \in 1 .. Len(s) /\ s[k - 1] = x
      BY <1>1, <3>1, <3>2
    <3> QED BY <3>3 DEF On
  <2>2. ASSUME a = x PROVE On(r, x)
    <3>1. 1 \in 1 .. Len(r)
      BY <1>1
    <3> QED BY <1>1, <2>2, <3>1 DEF On
  <2>3. ASSUME On(s, x) PROVE On(r, x)
    <3>1. PICK k \in 1 .. Len(s) : s[k] = x
      BY <2>3 DEF On
    <3>2. k + 1 \in 1 .. Len(r) /\ r[k + 1] = x
      BY <1>1, <3>1
    <3> QED BY <3>2 DEF On
  <2> QED BY <2>1, <2>2, <2>3
<1>4. ASSUME NEW x PROVE Once(r, x) <=> Once(s, x) /\ (a = x => ~ On(s, x))
  <2>1. ASSUME Once(r, x) PROVE Once(s, x) /\ (a = x => ~ On(s, x))
    <3>1. ASSUME NEW j \in 1 .. Len(s), NEW k \in 1 .. Len(s), s[j] = x, s[k] = x PROVE j = k
      <4>1. /\ j + 1 \in 1 .. Len(r) /\ r[j + 1] = x
            /\ k + 1 \in 1 .. Len(r) /\ r[k + 1] = x
        BY <1>1, <3>1
      <4>2. j + 1 = k + 1
        BY <2>1, <4>1 DEF Once
      <4> QED BY <4>2
    <3>2. ASSUME a = x, NEW k \in 1 .. Len(s), s[k] = x PROVE FALSE
      <4>1. 1 \in 1 .. Len(r) /\ k + 1 \in 1 .. Len(r) /\ r[k + 1] = x /\ r[1] = x
        BY <1>1, <3>2
      <4>2. 1 = k + 1
        BY <2>1, <4>1 DEF Once
      <4> QED BY <4>2
    <3> QED BY <3>1, <3>2 DEF Once, On
  <2>2. ASSUME Once(s, x), a = x => ~ On(s, x) PROVE Once(r, x)
    <3> SUFFICES ASSUME NEW j \in 1 .. Len(r), NEW k \in 1 .. Len(r), r[j] = x, r[k] = x
                 PROVE  j = k
      BY DEF Once
    <3>1. CASE j = 1 /\ k = 1
      BY <3>1
    <3>2. CASE j # 1 /\ k # 1
      <4>1. /\ j - 1 \in 1 .. Len(s) /\ s[j - 1] = x
            /\ k - 1 \in 1 .. Len(s) /\ s[k - 1] = x
        BY <1>1, <3>2
      <4>2. j - 1 = k - 1
        BY <2>2, <4>1 DEF Once
      <4> QED BY <4>2
    <3>3. CASE j = 1 /\ k # 1
      <4>1. k - 1 \in 1 .. Len(s) /\ s[k - 1] = x /\ a = x
        BY <1>1, <3>3
      <4> QED BY <2>2, <4>1 DEF On
    <3>4. CASE j # 1 /\ k = 1
      <4>1. j - 1 \in 1 .. Len(s) /\ s[j - 1] = x /\ a = x
        BY <1>1, <3>4
      <4> QED BY <2>2, <4>1 DEF On
    <3> QED BY <3>1, <3>2, <3>3, <3>4
  <2> QED BY <2>1, <2>2
<1> QED BY <1>1, <1>2, <1>3, <1>4 DEF r

LEMMA OnPopped ==
    ASSUME NEW S, NEW s \in Seq(S), s # << >>
    PROVE  /\ Head(s) \in S /\ Tail(s) \in Seq(S)
           /\ s = << Head(s) >> \o Tail(s)
           /\ \A x : On(s, x) <=> Head(s) = x \/ On(Tail(s), x)
           /\ \A x : Once(s, x) <=> Once(Tail(s), x) /\ (Head(s) = x => ~ On(Tail(s), x))
<1>1. /\ Head(s) \in S /\ Tail(s) \in Seq(S)
      /\ s = << Head(s) >> \o Tail(s)
  OBVIOUS
<1> DEFINE a == Head(s)
           r == Tail(s)
<1> HIDE DEF a, r
<1>2. /\ \A x : On(<< a >> \o r, x) <=> a = x \/ On(r, x)
      /\ \A x : Once(<< a >> \o r, x) <=> Once(r, x) /\ (a = x => ~ On(r, x))
  BY <1>1, OnPushed DEF a, r
<1>3. s = << a >> \o r
  BY <1>1 DEF a, r
<1>4. /\ \A x : On(s, x) <=> a = x \/ On(r, x)
      /\ \A x : Once(s, x) <=> Once(r, x) /\ (a = x => ~ On(r, x))
  BY <1>2, <1>3
<1> QED BY <1>1, <1>4 DEF a, r

LEMMA OnAppended ==
    ASSUME NEW S, NEW s \in Seq(S), NEW a \in S
    PROVE  /\ Append(s, a) \in Seq(S) /\ Append(s, a) # << >>
           /\ \A x : On(Append(s, a), x) <=> a = x \/ On(s, x)
           /\ \A x : Once(s, x) /\ (a = x => ~ On(s, x)) => Once(Append(s, a), x)
<1> DEFINE r == Append(s, a)
<1>1. /\ r \in Seq(S) /\ Len(r) = Len(s) + 1 /\ r[Len(r)] = a /\ Len(s) \in Nat /\ r # << >>
      /\ \A k \in 1 .. Len(s) : r[k] = s[k]
  OBVIOUS
<1> HIDE DEF r
<1>a. /\ 1 .. Len(s) \subseteq 1 .. Len(r)
      /\ \A k \in 1 .. Len(r) : k \in 1 .. Len(s) \/ k = Len(r)
  BY <1>1
<1>2. ASSUME NEW x PROVE On(r, x) <=> a = x \/ On(s, x)
  <2>1. Len(r) \in 1 .. Len(r)
    BY <1>1
  <2> QED BY <1>1, <1>a, <2>1 DEF On
<1>3. ASSUME NEW x, Once(s, x), a = x => ~ On(s, x) PROVE Once(r, x)
  <2> SUFFICES ASSUME NEW j \in 1 .. Len(r), NEW k \in 1 .. Len(r), r[j] = x, r[k] = x
               PROVE  j = k
    BY DEF Once
  <2>1. CASE j \in 1 .. Len(s) /\ k \in 1 .. Len(s)
    <3>1. s[j] = x /\ s[k] = x
      BY <1>1, <2>1
    <3> QED BY <1>3, <2>1, <3>1 DEF Once
  <2>2. CASE j \notin 1 .. Len(s) /\ k \notin 1 .. Len(s)
    BY <1>a, <2>2
  <2>3. CASE j \in 1 .. Len(s) /\ k \notin 1 .. Len(s)
    <3>1. s[j] = x /\ a = x
      BY <1>1, <1>a, <2>3
    <3> QED BY <1>3, <2>3, <3>1 DEF On
  <2>4. CASE j \notin 1 .. Len(s) /\ k \in 1 .. Len(s)
    <3>1. s[k] = x /\ a = x
      BY <1>1, <1>a, <2>4
    <3> QED BY <1>3, <2>4, <3>1 DEF On
  <2> QED BY <2>1, <2>2, <2>3, <2>4
<1> QED BY <1>1, <1>2, <1>3 DEF r

LEMMA EmptyOn == \A x : ~ On(<< >>, x) /\ Once(<< >>, x)
BY DEF On, Once

-----------------------------------------------------------------------------
(* Frames, futures and queues.                                               *)

LEMMA Frames ==
    /\ \A t \in Nat : RunF(t) \in FrameType /\ RegF(t) \in FrameType
    /\ \A f \in Future : CbF(f) \in FrameType
    /\ \A t : RunF(t).op = "run" /\ RunF(t).arg = t
    /\ \A t : RegF(t).op = "register" /\ RegF(t).arg = t
    /\ \A f : CbF(f).op = "callbacks" /\ CbF(f).arg = f
BY DEF RunF, RegF, CbF, Frame, FrameType

LEMMA FramesDiffer ==
    /\ \A t, u : RunF(t) = RunF(u) => t = u
    /\ \A t, u : RegF(t) = RegF(u) => t = u
    /\ \A f, g : CbF(f) = CbF(g) => f = g
    /\ \A t, u : RunF(t) # RegF(u) /\ RunF(t) # CbF(u) /\ RegF(t) # CbF(u)
<1>1. \A t, u : RunF(t) = RunF(u) => t = u
  BY Frames
<1>2. \A t, u : RegF(t) = RegF(u) => t = u
  BY Frames
<1>3. \A f, g : CbF(f) = CbF(g) => f = g
  BY Frames
<1>4. \A t, u : RunF(t) # RegF(u) /\ RunF(t) # CbF(u) /\ RegF(t) # CbF(u)
  BY Frames
<1> QED BY <1>1, <1>2, <1>3, <1>4

LEMMA FuturesAre ==
    /\ \A t : Task(t)[1] = "task" /\ Task(t)[2] = t /\ Task(t) # << >>
    /\ \A i : Call(i)[1] = "call" /\ Call(i)[2] = i /\ Call(i) # << >>
    /\ \A t \in Nat : Task(t) \in Future /\ Call(t) \in Future
    /\ \A t, u : Task(t) # Call(u)
    /\ \A t, u : Task(t) = Task(u) => t = u
    /\ \A t, u : Call(t) = Call(u) => t = u
BY DEF Task, Call, Future

LEMMA DoneIs ==
    ASSUME NEW ts, NEW sv
    PROVE  /\ \A t : Done(ts, sv, Task(t)) <=> ts[t].out.val # Pending
           /\ \A i : Done(ts, sv, Call(i)) <=> sv[i].ans.val # Pending
BY FuturesAre DEF Done

LEMMA QueueWith ==
    ASSUME NEW cb, NEW f, NEW s
    PROVE  /\ DOMAIN With(cb, f, s) = DOMAIN cb \cup {f}
           /\ \A g : Queue(With(cb, f, s), g) = IF g = f THEN s ELSE Queue(cb, g)
BY DEF With, Queue

LEMMA QueueType ==
    ASSUME NEW ts, NEW sv, NEW cb, NEW st, NEW pd, NEW al, Shaped(ts, sv, cb, st, pd, al), NEW f
    PROVE  Queue(cb, f) \in Seq(Nat)
<1>1. << >> \in Seq(Nat)
  OBVIOUS
<1> QED BY <1>1 DEF Shaped, Queue

-----------------------------------------------------------------------------
(* The moves the actions are made of.                                        *)

\* Only task t changes, and not in its program.
Others(ts, ts2, t) == /\ DOMAIN ts2 = DOMAIN ts
                      /\ \A u \in DOMAIN ts : u # t => ts2[u] = ts[u]
                      /\ ts2[t].prog = ts[t].prog

\* Futures are made, never dropped, and none is completed.
Grows(ts, sv, ts2, sv2) ==
    /\ Futures(ts, sv) \subseteq Futures(ts2, sv2)
    /\ \A f \in Futures(ts, sv) : Done(ts2, sv2, f) <=> Done(ts, sv, f)
    /\ DOMAIN sv2 \subseteq Nat

\* A generator goes on without waiting.
LEMMA GoesOn ==
    ASSUME NEW ts, NEW sv, NEW cb, NEW st, NEW pd, NEW al, Core(ts, sv, cb, st, pd, al),
           NEW t \in DOMAIN ts, NEW ts2, NEW sv2,
           Others(ts, ts2, t), Grows(ts, sv, ts2, sv2),
           ts2[t].out = ts[t].out, ts2[t].wait = ts[t].wait
    PROVE  Core(ts2, sv2, cb, st, pd, al)
<1>0. /\ \A u \in DOMAIN ts : /\ ts2[u].prog = ts[u].prog /\ ts2[u].out = ts[u].out
                              /\ ts2[u].wait = ts[u].wait
      /\ DOMAIN ts2 = DOMAIN ts
  BY DEF Others
<1>1. Shaped(ts2, sv2, cb, st, pd, al)
  BY <1>0 DEF Core, Shaped, Grows
<1>2. Scheduled(ts2, sv2, st)
  BY <1>0 DEF Core, Scheduled, Grows
<1>3. Framed(ts2, sv2, st)
  BY <1>0 DEF Core, Framed, Grows
<1>4. Called(ts2, sv2, cb, st, pd)
  <2> SUFFICES ASSUME NEW f \in Futures(ts2, sv2)
               PROVE  /\ \A u \in DOMAIN ts : /\ Once(Queue(cb, f), u)
                                              /\ On(Queue(cb, f), u) <=> ts[u].wait = f
                      /\ \A x : On(Queue(cb, f), x) => x \in DOMAIN ts \cup {Completion}
                      /\ Queue(cb, f) # << >> /\ Done(ts2, sv2, f) => On(st, CbF(f))
                      /\ Once(Queue(cb, f), Completion)
                      /\ On(Queue(cb, f), Completion) <=> \E u \in pd : f = Task(u)
    BY <1>0 DEF Called
  <2>1. CASE f \in Futures(ts, sv)
    BY <2>1 DEF Core, Called, Grows
  <2>2. CASE f \notin Futures(ts, sv)
    <3>1. Queue(cb, f) = << >>
      BY <2>2 DEF Core, Shaped, Queue
    <3>2. \A u \in DOMAIN ts : ts[u].wait # f
      <4> SUFFICES ASSUME NEW u \in DOMAIN ts, ts[u].wait = f PROVE FALSE
        OBVIOUS
      <4>1. f # << >>
        BY FuturesAre DEF Futures
      <4> QED BY <2>2, <4>1 DEF Core, Scheduled
    <3>3. \A u \in pd : f # Task(u)
      BY <2>2 DEF Core, Shaped, Futures
    <3> QED BY <3>1, <3>2, <3>3, EmptyOn
  <2> QED BY <2>1, <2>2
<1>5. Watched(ts2, st, pd, al)
  BY <1>0 DEF Core, Watched, IsPlugin
<1> QED BY <1>1, <1>2, <1>3, <1>4, <1>5 DEF Core

\* A generator yields f.
LEMMA Yields ==
    ASSUME NEW ts, NEW sv, NEW cb, NEW st, NEW pd, NEW al, Core(ts, sv, cb, st, pd, al),
           NEW t \in DOMAIN ts, st # << >>, Head(st) = RunF(t), NEW ts2, NEW sv2,
           Others(ts, ts2, t), Grows(ts, sv, ts2, sv2),
           NEW f \in Futures(ts2, sv2), ts2[t].out = ts[t].out, ts2[t].wait = f,
           NEW st2, st2 = (IF Done(ts2, sv2, f) THEN << CbF(f) >> ELSE << >>) \o Tail(st)
    PROVE  Core(ts2, sv2, With(cb, f, Append(Queue(cb, f), t)), st2, pd, al)
<1> DEFINE q   == Queue(cb, f)
           cb2 == With(cb, f, Append(q, t))
           d   == Done(ts2, sv2, f)
<1>0. /\ \A u \in DOMAIN ts : ts2[u].prog = ts[u].prog /\ ts2[u].out = ts[u].out
      /\ \A u \in DOMAIN ts : u # t => ts2[u].wait = ts[u].wait
      /\ DOMAIN ts2 = DOMAIN ts
  BY DEF Others
<1>1. /\ st \in Seq(FrameType) /\ DOMAIN ts \subseteq Nat \ {0} /\ t \in Nat \ {0}
      /\ Futures(ts2, sv2) \subseteq Future /\ f # << >>
  BY <1>0, FuturesAre DEF Core, Shaped, Futures, Grows
<1>2. /\ Tail(st) \in Seq(FrameType)
      /\ \A x : On(st, x) <=> RunF(t) = x \/ On(Tail(st), x)
      /\ \A x : Once(st, x) <=> Once(Tail(st), x) /\ (RunF(t) = x => ~ On(Tail(st), x))
  BY <1>1, OnPopped
<1>3. /\ st2 \in Seq(FrameType)
      /\ \A x : On(st2, x) <=> (d /\ CbF(f) = x) \/ On(Tail(st), x)
      /\ \A x : x # CbF(f) /\ Once(Tail(st), x) => Once(st2, x)
  <2> HIDE DEF d
  <2>1. CASE d
    <3> DEFINE r == Tail(st)
    <3>1. st2 = << CbF(f) >> \o r /\ CbF(f) \in FrameType /\ r \in Seq(FrameType)
      BY <1>1, <1>2, <2>1, Frames DEF d
    <3> HIDE DEF r
    <3> DEFINE c == CbF(f)
    <3>2. c \in FrameType
      BY <3>1
    <3> HIDE DEF c
    <3>3. /\ << c >> \o r \in Seq(FrameType)
          /\ \A x : On(<< c >> \o r, x) <=> c = x \/ On(r, x)
          /\ \A x : Once(<< c >> \o r, x) <=> Once(r, x) /\ (c = x => ~ On(r, x))
      BY <3>1, <3>2, OnPushed
    <3> QED BY <2>1, <3>1, <3>3 DEF r, c
  <2>2. CASE ~ d
    <3>1. st2 = Tail(st)
      BY <1>2, <2>2 DEF d
    <3> QED BY <1>2, <2>2, <3>1
  <2> QED BY <2>1, <2>2
<1>4. ts[t].wait = << >> /\ ts[t].out.val = Pending
  <2>1. On(st, RunF(t))
    BY <1>2
  <2> QED BY <2>1 DEF Core, Scheduled
<1>5. \A x : x.op # "callbacks" => (On(st2, x) <=> On(Tail(st), x))
  BY <1>3, Frames
<1>6. /\ q \in Seq(Nat) /\ Append(q, t) \in Seq(Nat) /\ Append(q, t) # << >>
      /\ \A x : On(Append(q, t), x) <=> t = x \/ On(q, x)
      /\ \A x : Once(q, x) /\ (t = x => ~ On(q, x)) => Once(Append(q, t), x)
  <2>1. q \in Seq(Nat)
    BY QueueType DEF Core
  <2> HIDE DEF q
  <2> QED BY <1>1, <2>1, OnAppended
<1>7. \A g : Queue(cb2, g) = IF g = f THEN Append(q, t) ELSE Queue(cb, g)
  <2> DEFINE a == Append(q, t)
  <2> HIDE DEF a
  <2>1. \A g : Queue(With(cb, f, a), g) = IF g = f THEN a ELSE Queue(cb, g)
    BY DEF With, Queue
  <2> QED BY <2>1 DEF a
<1>8. DOMAIN cb2 = DOMAIN cb \cup {f}
  BY QueueWith
<1>9. f \notin Futures(ts, sv) => /\ q = << >>
                                  /\ \A u \in DOMAIN ts : ts[u].wait # f
                                  /\ \A u \in pd : f # Task(u)
  <2> SUFFICES ASSUME f \notin Futures(ts, sv)
               PROVE  q = << >> /\ (\A u \in DOMAIN ts : ts[u].wait # f) /\ \A u \in pd : f # Task(u)
    OBVIOUS
  <2>1. q = << >>
    BY DEF Core, Shaped, Queue
  <2>2. \A u \in DOMAIN ts : ts[u].wait # f
    BY <1>1 DEF Core, Scheduled
  <2>3. \A u \in pd : f # Task(u)
    BY DEF Core, Shaped, Futures
  <2> QED BY <2>1, <2>2, <2>3
<1> HIDE DEF q, cb2, d
<1>10. Shaped(ts2, sv2, cb2, st2, pd, al)
  <2>1. \A g \in DOMAIN cb2 : cb2[g] \in Seq(Nat)
    <3> SUFFICES ASSUME NEW g \in DOMAIN cb2 PROVE cb2[g] \in Seq(Nat)
      OBVIOUS
    <3>1. cb2[g] = Queue(cb2, g)
      BY DEF Queue
    <3>2. Queue(cb, g) \in Seq(Nat)
      BY QueueType DEF Core
    <3> QED BY <1>6, <1>7, <3>1, <3>2
  <2> QED BY <1>0, <1>3, <1>8, <2>1 DEF Core, Shaped, Grows
<1>11. Scheduled(ts2, sv2, st2)
  <2> SUFFICES ASSUME NEW u \in DOMAIN ts
               PROVE  /\ Once(st2, RunF(u))
                      /\ On(st2, RunF(u)) <=> ts2[u].wait = << >> /\ ts2[u].out.val = Pending
                      /\ ts2[u].wait # << >> => /\ ts2[u].out.val = Pending
                                                /\ ts2[u].wait \in Futures(ts2, sv2)
    BY <1>0 DEF Scheduled
  <2>1. Once(st, RunF(u)) /\ (On(st, RunF(u)) <=> ts[u].wait = << >> /\ ts[u].out.val = Pending)
        /\ (ts[u].wait # << >> => ts[u].out.val = Pending /\ ts[u].wait \in Futures(ts, sv))
    BY DEF Core, Scheduled
  <2>2. RunF(u).op # "callbacks" /\ RunF(u) # CbF(f)
    BY Frames, FramesDiffer
  <2>3. Once(st2, RunF(u)) /\ (On(st2, RunF(u)) <=> On(Tail(st), RunF(u)))
    BY <1>2, <1>3, <1>5, <2>1, <2>2
  <2>4. CASE u = t
    <3>1. ~ On(Tail(st), RunF(t))
      BY <1>2, <2>1, <2>4
    <3> QED BY <1>0, <1>1, <1>4, <2>3, <2>4, <3>1
  <2>5. CASE u # t
    <3>1. On(Tail(st), RunF(u)) <=> On(st, RunF(u))
      BY <1>2, <2>5, FramesDiffer
    <3>2. ts2[u].wait = ts[u].wait /\ ts2[u].out = ts[u].out
      BY <1>0, <2>5
    <3> QED BY <2>1, <2>3, <3>1, <3>2 DEF Grows
  <2> QED BY <2>4, <2>5
<1>12. Framed(ts2, sv2, st2)
  <2> SUFFICES ASSUME NEW x, On(st2, x)
               PROVE  IF x.op = "callbacks" THEN x.arg \in Futures(ts2, sv2) /\ Done(ts2, sv2, x.arg)
                                            ELSE x.arg \in DOMAIN ts2
    BY DEF Framed
  <2>1. CASE On(Tail(st), x)
    <3>1. On(st, x)
      BY <1>2, <2>1
    <3>2. IF x.op = "callbacks" THEN x.arg \in Futures(ts, sv) /\ Done(ts, sv, x.arg)
                                ELSE x.arg \in DOMAIN ts
      BY <3>1 DEF Core, Framed
    <3> QED BY <1>0, <3>2 DEF Grows
  <2>2. CASE d /\ CbF(f) = x
    BY <2>2, Frames DEF d
  <2> QED BY <1>3, <2>1, <2>2
<1>13. Called(ts2, sv2, cb2, st2, pd)
  <2> SUFFICES ASSUME NEW g \in Futures(ts2, sv2)
               PROVE  /\ \A u \in DOMAIN ts : /\ Once(Queue(cb2, g), u)
                                              /\ On(Queue(cb2, g), u) <=> ts2[u].wait = g
                      /\ \A x : On(Queue(cb2, g), x) => x \in DOMAIN ts \cup {Completion}
                      /\ Queue(cb2, g) # << >> /\ Done(ts2, sv2, g) => On(st2, CbF(g))
                      /\ Once(Queue(cb2, g), Completion)
                      /\ On(Queue(cb2, g), Completion) <=> \E u \in pd : g = Task(u)
    BY <1>0 DEF Called
  <2>0. g # << >>
    BY FuturesAre DEF Futures
  <2>1. /\ \A u \in DOMAIN ts : /\ Once(Queue(cb, g), u)
                                /\ On(Queue(cb, g), u) <=> ts[u].wait = g
        /\ \A x : On(Queue(cb, g), x) => x \in DOMAIN ts \cup {Completion}
        /\ Queue(cb, g) # << >> /\ Done(ts2, sv2, g) => On(st, CbF(g))
        /\ Once(Queue(cb, g), Completion)
        /\ On(Queue(cb, g), Completion) <=> \E u \in pd : g = Task(u)
    <3>1. CASE g \in Futures(ts, sv)
      BY <3>1 DEF Core, Called, Grows
    <3>2. CASE g \notin Futures(ts, sv)
      <4>1. Queue(cb, g) = << >>
        BY <3>2 DEF Core, Shaped, Queue
      <4>2. \A u \in DOMAIN ts : ts[u].wait # g
        BY <2>0, <3>2 DEF Core, Scheduled
      <4>3. \A u \in pd : g # Task(u)
        BY <3>2 DEF Core, Shaped, Futures
      <4> QED BY <4>1, <4>2, <4>3, EmptyOn
    <3> QED BY <3>1, <3>2
  <2>2. CASE g = f
    <3>1. Queue(cb2, g) = Append(q, t) /\ Queue(cb, g) = q
      BY <1>7, <2>2 DEF q
    <3>2. ~ On(q, t)
      BY <1>4, <2>0, <2>1, <3>1
    <3>3. \A u \in DOMAIN ts : /\ Once(Append(q, t), u)
                               /\ On(Append(q, t), u) <=> ts2[u].wait = g
      <4> SUFFICES ASSUME NEW u \in DOMAIN ts
                   PROVE  Once(Append(q, t), u) /\ (On(Append(q, t), u) <=> ts2[u].wait = g)
        OBVIOUS
      <4>1. Once(q, u) /\ (On(q, u) <=> ts[u].wait = g)
        BY <2>1, <3>1
      <4>2. CASE u = t
        BY <1>6, <2>2, <3>2, <4>1, <4>2
      <4>3. CASE u # t
        BY <1>0, <1>6, <4>1, <4>3
      <4> QED BY <4>2, <4>3
    <3>4. \A x : On(Append(q, t), x) => x \in DOMAIN ts \cup {Completion}
      BY <1>6, <2>1, <3>1
    <3>5. t # Completion
      BY <1>1 DEF Completion
    <3>6. Once(Append(q, t), Completion) /\ (On(Append(q, t), Completion) <=> On(q, Completion))
      BY <1>6, <2>1, <3>1, <3>5
    <3>7. Done(ts2, sv2, g) => On(st2, CbF(g))
      BY <1>3, <2>2 DEF d
    <3> QED BY <2>1, <3>1, <3>3, <3>4, <3>6, <3>7
  <2>3. CASE g # f
    <3>1. Queue(cb2, g) = Queue(cb, g)
      BY <1>7, <2>3
    <3>2. \A u \in DOMAIN ts : ts2[u].wait = g <=> ts[u].wait = g
      BY <1>0, <1>4, <2>0, <2>3
    <3>3. On(st, CbF(g)) => On(st2, CbF(g))
      BY <1>2, <1>3, FramesDiffer
    <3> QED BY <2>1, <3>1, <3>2, <3>3
  <2> QED BY <2>2, <2>3
<1>14. Watched(ts2, st2, pd, al)
  <2>1. \A u : /\ On(st2, RegF(u)) <=> On(st, RegF(u))
               /\ Once(st, RegF(u)) => Once(st2, RegF(u))
    <3> SUFFICES ASSUME NEW u
                 PROVE  /\ On(st2, RegF(u)) <=> On(st, RegF(u))
                        /\ Once(st, RegF(u)) => Once(st2, RegF(u))
      OBVIOUS
    <3>1. RegF(u) # RunF(t) /\ RegF(u) # CbF(f) /\ RegF(u).op # "callbacks"
      BY Frames, FramesDiffer
    <3> QED BY <1>2, <1>3, <1>5, <3>1
  <2> QED BY <1>0, <2>1 DEF Core, Watched, IsPlugin
<1> QED BY <1>10, <1>11, <1>12, <1>13, <1>14 DEF Core, cb2, q

\* A generator ends.
LEMMA EndsMove ==
    ASSUME NEW ts, NEW sv, NEW cb, NEW st, NEW pd, NEW al, Core(ts, sv, cb, st, pd, al),
           NEW t \in DOMAIN ts, st # << >>, Head(st) = RunF(t), NEW ts2,
           Others(ts, ts2, t), ts2[t].out.val # Pending, ts2[t].wait = ts[t].wait
    PROVE  Core(ts2, sv, cb, << CbF(Task(t)) >> \o Tail(st), pd, al)
<1> DEFINE f   == Task(t)
           r   == Tail(st)
           c   == CbF(f)
           st2 == << c >> \o r
<1>0. /\ \A u \in DOMAIN ts : ts2[u].prog = ts[u].prog /\ ts2[u].wait = ts[u].wait
      /\ \A u \in DOMAIN ts : u # t => ts2[u].out = ts[u].out
      /\ DOMAIN ts2 = DOMAIN ts
      /\ Futures(ts2, sv) = Futures(ts, sv)
  BY DEF Others, Futures
<1>1. /\ st \in Seq(FrameType) /\ DOMAIN ts \subseteq Nat \ {0} /\ t \in Nat \ {0}
      /\ f \in Future /\ c \in FrameType /\ f \in Futures(ts, sv)
  BY FuturesAre, Frames DEF Core, Shaped, Futures
<1>2. /\ r \in Seq(FrameType)
      /\ \A x : On(st, x) <=> RunF(t) = x \/ On(r, x)
      /\ \A x : Once(st, x) <=> Once(r, x) /\ (RunF(t) = x => ~ On(r, x))
  BY <1>1, OnPopped
<1>3. /\ st2 \in Seq(FrameType)
      /\ \A x : On(st2, x) <=> c = x \/ On(r, x)
      /\ \A x : x # c /\ Once(r, x) => Once(st2, x)
  <2> HIDE DEF c, r
  <2> QED BY <1>1, <1>2, OnPushed
<1>4. ts[t].wait = << >> /\ ts[t].out.val = Pending
  <2>1. On(st, RunF(t))
    BY <1>2
  <2> QED BY <2>1 DEF Core, Scheduled
<1>5. /\ \A g \in Futures(ts, sv) : g # f => (Done(ts2, sv, g) <=> Done(ts, sv, g))
      /\ Done(ts2, sv, f)
  <2>1. ASSUME NEW u \in DOMAIN ts, Task(u) # f
        PROVE  Done(ts2, sv, Task(u)) <=> Done(ts, sv, Task(u))
    <3>1. u # t
      BY <2>1
    <3> QED BY <1>0, <3>1, DoneIs, ZenonT(30)
  <2>2. ASSUME NEW i \in DOMAIN sv PROVE Done(ts2, sv, Call(i)) <=> Done(ts, sv, Call(i))
    BY DoneIs
  <2>3. Done(ts2, sv, f)
    BY DoneIs
  <2> QED BY <2>1, <2>2, <2>3 DEF Futures
<1>6. c.op = "callbacks" /\ c.arg = f /\ \A u : c # RunF(u) /\ c # RegF(u)
  BY Frames, FramesDiffer
<1>7. \A g : c = CbF(g) => g = f
  BY FramesDiffer
<1> HIDE DEF f, c, r, st2
<1>8. Shaped(ts2, sv, cb, st2, pd, al)
  BY <1>0, <1>3 DEF Core, Shaped
<1>9. Scheduled(ts2, sv, st2)
  <2> SUFFICES ASSUME NEW u \in DOMAIN ts
               PROVE  /\ Once(st2, RunF(u))
                      /\ On(st2, RunF(u)) <=> ts2[u].wait = << >> /\ ts2[u].out.val = Pending
                      /\ ts2[u].wait # << >> => /\ ts2[u].out.val = Pending
                                                /\ ts2[u].wait \in Futures(ts2, sv)
    BY <1>0 DEF Scheduled
  <2>1. Once(st, RunF(u)) /\ (On(st, RunF(u)) <=> ts[u].wait = << >> /\ ts[u].out.val = Pending)
        /\ (ts[u].wait # << >> => ts[u].out.val = Pending /\ ts[u].wait \in Futures(ts, sv))
    BY DEF Core, Scheduled
  <2>2. Once(st2, RunF(u)) /\ (On(st2, RunF(u)) <=> On(r, RunF(u)))
    BY <1>2, <1>3, <1>6, <2>1
  <2>3. CASE u = t
    <3>1. ~ On(r, RunF(t))
      BY <1>2, <2>1, <2>3
    <3> QED BY <1>0, <1>4, <2>2, <2>3, <3>1
  <2>4. CASE u # t
    <3>1. On(r, RunF(u)) <=> On(st, RunF(u))
      BY <1>2, <2>4, FramesDiffer
    <3> QED BY <1>0, <2>1, <2>2, <2>4, <3>1
  <2> QED BY <2>3, <2>4
<1>10. Framed(ts2, sv, st2)
  <2> SUFFICES ASSUME NEW x, On(st2, x)
               PROVE  IF x.op = "callbacks" THEN x.arg \in Futures(ts2, sv) /\ Done(ts2, sv, x.arg)
                                            ELSE x.arg \in DOMAIN ts2
    BY DEF Framed
  <2>1. CASE On(r, x)
    <3>1. On(st, x)
      BY <1>2, <2>1
    <3>2. IF x.op = "callbacks" THEN x.arg \in Futures(ts, sv) /\ Done(ts, sv, x.arg)
                                ELSE x.arg \in DOMAIN ts
      BY <3>1 DEF Core, Framed
    <3> QED BY <1>0, <1>5, <3>2
  <2>2. CASE c = x
    BY <1>0, <1>1, <1>5, <1>6, <2>2
  <2> QED BY <1>3, <2>1, <2>2
<1>11. Called(ts2, sv, cb, st2, pd)
  <2> SUFFICES ASSUME NEW g \in Futures(ts, sv)
               PROVE  /\ \A u \in DOMAIN ts : /\ Once(Queue(cb, g), u)
                                              /\ On(Queue(cb, g), u) <=> ts2[u].wait = g
                      /\ \A x : On(Queue(cb, g), x) => x \in DOMAIN ts \cup {Completion}
                      /\ Queue(cb, g) # << >> /\ Done(ts2, sv, g) => On(st2, CbF(g))
                      /\ Once(Queue(cb, g), Completion)
                      /\ On(Queue(cb, g), Completion) <=> \E u \in pd : g = Task(u)
    BY <1>0 DEF Called
  <2>1. /\ \A u \in DOMAIN ts : /\ Once(Queue(cb, g), u)
                                /\ On(Queue(cb, g), u) <=> ts[u].wait = g
        /\ \A x : On(Queue(cb, g), x) => x \in DOMAIN ts \cup {Completion}
        /\ Queue(cb, g) # << >> /\ Done(ts, sv, g) => On(st, CbF(g))
        /\ Once(Queue(cb, g), Completion)
        /\ On(Queue(cb, g), Completion) <=> \E u \in pd : g = Task(u)
    BY DEF Core, Called
  <2>2. Queue(cb, g) # << >> /\ Done(ts2, sv, g) => On(st2, CbF(g))
    <3>1. CASE g = f
      BY <1>3, <3>1 DEF c
    <3>2. CASE g # f
      <4>1. On(st, CbF(g)) => On(st2, CbF(g))
        BY <1>2, <1>3, FramesDiffer
      <4> QED BY <1>5, <2>1, <3>2, <4>1
    <3> QED BY <3>1, <3>2
  <2> QED BY <1>0, <2>1, <2>2
<1>12. Watched(ts2, st2, pd, al)
  <2> SUFFICES ASSUME NEW u \in DOMAIN ts
               PROVE  /\ Once(st2, RegF(u))
                      /\ On(st2, RegF(u)) => u \notin pd
                      /\ u \in pd \/ On(st2, RegF(u)) => IsPlugin(ts2, u)
                      /\ u \in al <=> /\ IsPlugin(ts2, u) /\ u \notin pd /\ ~ On(st2, RegF(u))
                                      /\ ts2[u].out.val \in Errors
                      /\ IsPlugin(ts2, u) /\ u \notin pd /\ ~ On(st2, RegF(u))
                            => ts2[u].out.val # Pending
    BY <1>0 DEF Watched
  <2>1. RegF(u) # RunF(t) /\ RegF(u) # c
    BY <1>6, FramesDiffer
  <2>2. (On(st2, RegF(u)) <=> On(st, RegF(u))) /\ (Once(st, RegF(u)) => Once(st2, RegF(u)))
    BY <1>2, <1>3, <2>1
  <2>3. IsPlugin(ts2, u) <=> IsPlugin(ts, u)
    BY <1>0 DEF IsPlugin
  <2>4. /\ Once(st, RegF(u))
        /\ On(st, RegF(u)) => u \notin pd
        /\ u \in pd \/ On(st, RegF(u)) => IsPlugin(ts, u)
        /\ u \in al <=> /\ IsPlugin(ts, u) /\ u \notin pd /\ ~ On(st, RegF(u))
                        /\ ts[u].out.val \in Errors
        /\ IsPlugin(ts, u) /\ u \notin pd /\ ~ On(st, RegF(u)) => ts[u].out.val # Pending
    BY DEF Core, Watched
  <2>5. CASE u = t
    BY <1>4, <2>2, <2>3, <2>4, <2>5
  <2>6. CASE u # t
    BY <1>0, <2>2, <2>3, <2>4, <2>6
  <2> QED BY <2>5, <2>6
<1> QED BY <1>8, <1>9, <1>10, <1>11, <1>12 DEF Core, c, f, r, st2

\* A generator that waited is resumed by a callback.
LEMMA Resumes ==
    ASSUME NEW ts, NEW sv, NEW cb, NEW st, NEW pd, NEW al, Core(ts, sv, cb, st, pd, al),
           NEW f \in Futures(ts, sv), Queue(cb, f) # << >>,
           st # << >>, Head(st) = CbF(f),
           NEW t \in DOMAIN ts, Head(Queue(cb, f)) = t, NEW ts2,
           Others(ts, ts2, t), ts2[t].out = ts[t].out, ts2[t].wait = << >>
    PROVE  /\ ts[t].wait = f
           /\ Core(ts2, sv, With(cb, f, Tail(Queue(cb, f))), << RunF(t) >> \o st, pd, al)
<1> DEFINE q   == Queue(cb, f)
           w   == Tail(q)
           cb2 == With(cb, f, w)
           c   == RunF(t)
           st2 == << c >> \o st
<1>0. /\ \A u \in DOMAIN ts : ts2[u].prog = ts[u].prog /\ ts2[u].out = ts[u].out
      /\ \A u \in DOMAIN ts : u # t => ts2[u].wait = ts[u].wait
      /\ DOMAIN ts2 = DOMAIN ts /\ Futures(ts2, sv) = Futures(ts, sv)
  BY DEF Others, Futures
<1>1. /\ st \in Seq(FrameType) /\ DOMAIN ts \subseteq Nat \ {0} /\ t \in Nat \ {0}
      /\ c \in FrameType /\ f # << >>
  BY FuturesAre, Frames DEF Core, Shaped, Futures
<1>2. /\ w \in Seq(Nat)
      /\ \A x : On(q, x) <=> t = x \/ On(w, x)
      /\ \A x : Once(q, x) <=> Once(w, x) /\ (t = x => ~ On(w, x))
  <2>1. q \in Seq(Nat)
    BY QueueType DEF Core
  <2> HIDE DEF q
  <2> QED BY <2>1, OnPopped DEF q
<1>3. /\ st2 \in Seq(FrameType)
      /\ \A x : On(st2, x) <=> c = x \/ On(st, x)
      /\ \A x : Once(st2, x) <=> Once(st, x) /\ (c = x => ~ On(st, x))
  <2> HIDE DEF c
  <2> QED BY <1>1, OnPushed
<1>4. ts[t].wait = f /\ ts[t].out.val = Pending
  <2>1. ts[t].wait = f
    BY <1>2 DEF Core, Called
  <2> QED BY <1>1, <2>1 DEF Core, Scheduled
<1>5. /\ \A g : Queue(cb2, g) = IF g = f THEN w ELSE Queue(cb, g)
      /\ DOMAIN cb2 = DOMAIN cb \cup {f}
  <2> HIDE DEF w
  <2> QED BY DEF With, Queue
<1>6. \A g \in Futures(ts, sv) : Done(ts2, sv, g) <=> Done(ts, sv, g)
  <2>1. ASSUME NEW u \in DOMAIN ts PROVE Done(ts2, sv, Task(u)) <=> Done(ts, sv, Task(u))
    BY <1>0, FuturesAre DEF Done
  <2>2. \A i \in DOMAIN sv : Done(ts2, sv, Call(i)) <=> Done(ts, sv, Call(i))
    BY FuturesAre DEF Done
  <2> QED BY <2>1, <2>2 DEF Futures
<1>7. c.op = "run" /\ c.arg = t /\ \A u : c # CbF(u) /\ c # RegF(u) /\ (c = RunF(u) => t = u)
  BY Frames, FramesDiffer
<1> HIDE DEF q, w, cb2, c, st2
<1>8. Shaped(ts2, sv, cb2, st2, pd, al)
  <2>1. \A g \in DOMAIN cb2 : cb2[g] \in Seq(Nat)
    <3> SUFFICES ASSUME NEW g \in DOMAIN cb2 PROVE cb2[g] \in Seq(Nat)
      OBVIOUS
    <3>1. cb2[g] = Queue(cb2, g)
      BY DEF Queue
    <3>2. Queue(cb, g) \in Seq(Nat)
      BY QueueType DEF Core
    <3> QED BY <1>2, <1>5, <3>1, <3>2
  <2> QED BY <1>0, <1>3, <1>5, <2>1 DEF Core, Shaped
<1>9. Scheduled(ts2, sv, st2)
  <2> SUFFICES ASSUME NEW u \in DOMAIN ts
               PROVE  /\ Once(st2, RunF(u))
                      /\ On(st2, RunF(u)) <=> ts2[u].wait = << >> /\ ts2[u].out.val = Pending
                      /\ ts2[u].wait # << >> => /\ ts2[u].out.val = Pending
                                                /\ ts2[u].wait \in Futures(ts2, sv)
    BY <1>0 DEF Scheduled
  <2>1. Once(st, RunF(u)) /\ (On(st, RunF(u)) <=> ts[u].wait = << >> /\ ts[u].out.val = Pending)
        /\ (ts[u].wait # << >> => ts[u].out.val = Pending /\ ts[u].wait \in Futures(ts, sv))
    BY DEF Core, Scheduled
  <2>2. CASE u = t
    <3>1. ~ On(st, RunF(t))
      BY <1>1, <1>4, <2>1, <2>2
    <3>2. Once(st2, RunF(t)) /\ On(st2, RunF(t))
      BY <1>3, <2>1, <2>2, <3>1 DEF c
    <3> QED BY <1>0, <1>4, <2>2, <3>2
  <2>3. CASE u # t
    BY <1>0, <1>3, <1>7, <2>1, <2>3
  <2> QED BY <2>2, <2>3
<1>10. Framed(ts2, sv, st2)
  BY <1>0, <1>3, <1>6, <1>7 DEF Core, Framed
<1>11. Called(ts2, sv, cb2, st2, pd)
  <2> SUFFICES ASSUME NEW g \in Futures(ts, sv)
               PROVE  /\ \A u \in DOMAIN ts : /\ Once(Queue(cb2, g), u)
                                              /\ On(Queue(cb2, g), u) <=> ts2[u].wait = g
                      /\ \A x : On(Queue(cb2, g), x) => x \in DOMAIN ts \cup {Completion}
                      /\ Queue(cb2, g) # << >> /\ Done(ts2, sv, g) => On(st2, CbF(g))
                      /\ Once(Queue(cb2, g), Completion)
                      /\ On(Queue(cb2, g), Completion) <=> \E u \in pd : g = Task(u)
    BY <1>0 DEF Called
  <2>0. g # << >>
    BY FuturesAre DEF Futures
  <2>1. /\ \A u \in DOMAIN ts : /\ Once(Queue(cb, g), u)
                                /\ On(Queue(cb, g), u) <=> ts[u].wait = g
        /\ \A x : On(Queue(cb, g), x) => x \in DOMAIN ts \cup {Completion}
        /\ Queue(cb, g) # << >> /\ Done(ts, sv, g) => On(st, CbF(g))
        /\ Once(Queue(cb, g), Completion)
        /\ On(Queue(cb, g), Completion) <=> \E u \in pd : g = Task(u)
    BY DEF Core, Called
  <2>2. CASE g = f
    <3>1. Queue(cb2, g) = w /\ Queue(cb, g) = q
      BY <1>5, <2>2 DEF q
    <3>2. ~ On(w, t)
      BY <1>2, <2>1, <3>1
    <3>3. \A u \in DOMAIN ts : Once(w, u) /\ (On(w, u) <=> ts2[u].wait = g)
      <4> SUFFICES ASSUME NEW u \in DOMAIN ts PROVE Once(w, u) /\ (On(w, u) <=> ts2[u].wait = g)
        OBVIOUS
      <4>1. Once(q, u) /\ (On(q, u) <=> ts[u].wait = g)
        BY <2>1, <3>1
      <4>2. CASE u = t
        BY <1>2, <2>0, <3>2, <4>1, <4>2
      <4>3. CASE u # t
        BY <1>0, <1>2, <4>1, <4>3
      <4> QED BY <4>2, <4>3
    <3>4. \A x : On(w, x) => x \in DOMAIN ts \cup {Completion}
      BY <1>2, <2>1, <3>1
    <3>5. Once(w, Completion) /\ (On(w, Completion) <=> On(q, Completion))
      <4>1. t # Completion
        BY <1>1 DEF Completion
      <4> QED BY <1>2, <2>1, <3>1, <4>1
    <3>6. On(st2, CbF(g))
      <4>1. On(st, CbF(f))
        BY <1>1, OnPopped
      <4> QED BY <1>3, <2>2, <4>1
    <3> QED BY <2>1, <3>1, <3>3, <3>4, <3>5, <3>6
  <2>3. CASE g # f
    <3>1. Queue(cb2, g) = Queue(cb, g)
      BY <1>5, <2>3
    <3>2. \A u \in DOMAIN ts : ts2[u].wait = g <=> ts[u].wait = g
      BY <1>0, <1>4, <2>0, <2>3
    <3> QED BY <1>3, <1>6, <2>1, <3>1, <3>2
  <2> QED BY <2>2, <2>3
<1>12. Watched(ts2, st2, pd, al)
  <2>1. \A u : /\ On(st2, RegF(u)) <=> On(st, RegF(u))
               /\ Once(st, RegF(u)) => Once(st2, RegF(u))
    BY <1>3, <1>7
  <2> QED BY <1>0, <2>1 DEF Core, Watched, IsPlugin
<1> QED BY <1>4, <1>8, <1>9, <1>10, <1>11, <1>12 DEF Core, q, w, cb2, c, st2

\* A coroutine is called: its task is run, and registered if it is a plugin.
LEMMA Creates ==
    ASSUME NEW ts, NEW sv, NEW cb, NEW st, NEW pd, NEW al, Core(ts, sv, cb, st, pd, al),
           NEW n \in Nat \ {0}, n \notin DOMAIN ts, NEW ts2, DOMAIN ts2 = DOMAIN ts \cup {n},
           \A u \in DOMAIN ts : ts2[u] = ts[u],
           ts2[n].wait = << >>, ts2[n].out.val = Pending,
           NEW st2, st2 = << RunF(n) >> \o ((IF IsPlugin(ts2, n) THEN << RegF(n) >> ELSE << >>) \o st)
    PROVE  Core(ts2, sv, cb, st2, pd, al)
<1> DEFINE p == IsPlugin(ts2, n)
           m == (IF p THEN << RegF(n) >> ELSE << >>) \o st
<1>0. /\ Futures(ts2, sv) = Futures(ts, sv) \cup {Task(n)} /\ Task(n) \notin Futures(ts, sv)
      /\ Task(n) # << >>
  BY FuturesAre DEF Futures
<1>1. /\ st \in Seq(FrameType) /\ RunF(n) \in FrameType /\ RegF(n) \in FrameType
      /\ RunF(n).op = "run" /\ RunF(n).arg = n /\ RegF(n).op = "register" /\ RegF(n).arg = n
  BY Frames DEF Core, Shaped
<1>2. /\ m \in Seq(FrameType)
      /\ \A x : On(m, x) <=> (p /\ RegF(n) = x) \/ On(st, x)
      /\ \A x : Once(st, x) /\ (RegF(n) = x => ~ On(st, x)) => Once(m, x)
  <2>1. CASE p
    <3>1. m = << RegF(n) >> \o st
      BY <2>1
    <3> DEFINE c == RegF(n)
    <3> HIDE DEF c, m, p
    <3>2. /\ << c >> \o st \in Seq(FrameType)
          /\ \A x : On(<< c >> \o st, x) <=> c = x \/ On(st, x)
          /\ \A x : Once(<< c >> \o st, x) <=> Once(st, x) /\ (c = x => ~ On(st, x))
      BY <1>1, OnPushed DEF c
    <3> QED BY <2>1, <3>1, <3>2 DEF c
  <2>2. CASE ~ p
    <3>1. m = st
      BY <1>1, <2>2
    <3> HIDE DEF m, p
    <3> QED BY <1>1, <2>2, <3>1
  <2> QED BY <2>1, <2>2
<1>3. st2 = << RunF(n) >> \o m
  OBVIOUS
<1> HIDE DEF m, p
<1>4. /\ st2 \in Seq(FrameType)
      /\ \A x : On(st2, x) <=> RunF(n) = x \/ On(m, x)
      /\ \A x : Once(st2, x) <=> Once(m, x) /\ (RunF(n) = x => ~ On(m, x))
  <2> DEFINE c == RunF(n)
  <2> HIDE DEF c
  <2>1. /\ << c >> \o m \in Seq(FrameType)
        /\ \A x : On(<< c >> \o m, x) <=> c = x \/ On(m, x)
        /\ \A x : Once(<< c >> \o m, x) <=> Once(m, x) /\ (c = x => ~ On(m, x))
    BY <1>1, <1>2, OnPushed DEF c
  <2> QED BY <1>3, <2>1 DEF c
<1>5. ~ On(st, RunF(n)) /\ ~ On(st, RegF(n))
  BY <1>1 DEF Core, Framed
<1>6. /\ \A x : On(st2, x) <=> RunF(n) = x \/ (p /\ RegF(n) = x) \/ On(st, x)
      /\ \A x : Once(st, x) => Once(st2, x)
  <2>1. RunF(n) # RegF(n)
    BY FramesDiffer
  <2>2. ASSUME NEW x PROVE On(st2, x) <=> RunF(n) = x \/ (p /\ RegF(n) = x) \/ On(st, x)
    BY <1>2, <1>4
  <2>3. ASSUME NEW x, Once(st, x) PROVE Once(st2, x)
    <3>1. Once(m, x)
      BY <1>2, <1>5, <2>3
    <3>2. RunF(n) = x => ~ On(m, x)
      BY <1>2, <1>5, <2>1
    <3> QED BY <1>4, <3>1, <3>2
  <2> QED BY <2>2, <2>3
<1>7. \A f \in Futures(ts, sv) : Done(ts2, sv, f) <=> Done(ts, sv, f)
  <2>1. ASSUME NEW u \in DOMAIN ts PROVE Done(ts2, sv, Task(u)) <=> Done(ts, sv, Task(u))
    BY FuturesAre DEF Done
  <2>2. ASSUME NEW i \in DOMAIN sv PROVE Done(ts2, sv, Call(i)) <=> Done(ts, sv, Call(i))
    BY FuturesAre DEF Done
  <2> QED BY <2>1, <2>2 DEF Futures
<1>8. Queue(cb, Task(n)) = << >>
  BY <1>0 DEF Core, Shaped, Queue
<1>9. \A f \in Futures(ts, sv) : ~ On(Queue(cb, f), n) /\ Once(Queue(cb, f), n)
  <2> SUFFICES ASSUME NEW f \in Futures(ts, sv)
               PROVE  ~ On(Queue(cb, f), n) /\ Once(Queue(cb, f), n)
    OBVIOUS
  <2>1. ~ On(Queue(cb, f), n)
    BY DEF Core, Called, Completion
  <2> QED BY <2>1 DEF On, Once
<1>10. Shaped(ts2, sv, cb, st2, pd, al)
  BY <1>0, <1>4 DEF Core, Shaped
<1>11. Scheduled(ts2, sv, st2)
  <2> SUFFICES ASSUME NEW u \in DOMAIN ts2
               PROVE  /\ Once(st2, RunF(u))
                      /\ On(st2, RunF(u)) <=> ts2[u].wait = << >> /\ ts2[u].out.val = Pending
                      /\ ts2[u].wait # << >> => /\ ts2[u].out.val = Pending
                                                /\ ts2[u].wait \in Futures(ts2, sv)
    BY DEF Scheduled
  <2>1. CASE u = n
    <3>1. Once(st, RunF(n))
      BY <1>5 DEF On, Once
    <3>2. Once(st2, RunF(u)) /\ On(st2, RunF(u))
      BY <1>6, <2>1, <3>1
    <3> QED BY <2>1, <3>2
  <2>2. CASE u # n
    <3>1. u \in DOMAIN ts /\ ts2[u] = ts[u]
      BY <2>2
    <3>2. RunF(n) # RunF(u) /\ RegF(n) # RunF(u)
      BY <2>2, FramesDiffer
    <3>3. Once(st, RunF(u)) /\ (On(st, RunF(u)) <=> ts[u].wait = << >> /\ ts[u].out.val = Pending)
          /\ (ts[u].wait # << >> => ts[u].out.val = Pending /\ ts[u].wait \in Futures(ts, sv))
      BY <3>1 DEF Core, Scheduled
    <3> QED BY <1>0, <1>6, <3>1, <3>2, <3>3
  <2> QED BY <2>1, <2>2
<1>12. Framed(ts2, sv, st2)
  <2> SUFFICES ASSUME NEW x, On(st2, x)
               PROVE  IF x.op = "callbacks" THEN x.arg \in Futures(ts2, sv) /\ Done(ts2, sv, x.arg)
                                            ELSE x.arg \in DOMAIN ts2
    BY DEF Framed
  <2>1. CASE On(st, x)
    <3>1. IF x.op = "callbacks" THEN x.arg \in Futures(ts, sv) /\ Done(ts, sv, x.arg)
                                ELSE x.arg \in DOMAIN ts
      BY <2>1 DEF Core, Framed
    <3> QED BY <1>0, <1>7, <3>1
  <2>2. CASE RunF(n) = x \/ RegF(n) = x
    BY <1>1, <2>2
  <2> QED BY <1>6, <2>1, <2>2
<1>13. Called(ts2, sv, cb, st2, pd)
  <2> SUFFICES ASSUME NEW g \in Futures(ts2, sv)
               PROVE  /\ \A u \in DOMAIN ts2 : /\ Once(Queue(cb, g), u)
                                               /\ On(Queue(cb, g), u) <=> ts2[u].wait = g
                      /\ \A x : On(Queue(cb, g), x) => x \in DOMAIN ts2 \cup {Completion}
                      /\ Queue(cb, g) # << >> /\ Done(ts2, sv, g) => On(st2, CbF(g))
                      /\ Once(Queue(cb, g), Completion)
                      /\ On(Queue(cb, g), Completion) <=> \E u \in pd : g = Task(u)
    BY DEF Called
  <2>0. g # << >>
    BY FuturesAre DEF Futures
  <2>1. CASE g = Task(n)
    <3>1. \A u \in DOMAIN ts2 : ts2[u].wait # g
      <4> SUFFICES ASSUME NEW u \in DOMAIN ts2, ts2[u].wait = g PROVE FALSE
        OBVIOUS
      <4>1. CASE u = n
        BY <2>0, <4>1
      <4>2. CASE u # n
        BY <1>0, <2>0, <2>1, <4>2 DEF Core, Scheduled
      <4> QED BY <4>1, <4>2
    <3>2. \A u \in pd : g # Task(u)
      BY <1>0, <2>1 DEF Core, Shaped, Futures
    <3> QED BY <1>8, <2>1, <3>1, <3>2, EmptyOn
  <2>2. CASE g # Task(n)
    <3>1. g \in Futures(ts, sv)
      BY <1>0, <2>2
    <3>2. /\ \A u \in DOMAIN ts : /\ Once(Queue(cb, g), u)
                                  /\ On(Queue(cb, g), u) <=> ts[u].wait = g
          /\ \A x : On(Queue(cb, g), x) => x \in DOMAIN ts \cup {Completion}
          /\ Queue(cb, g) # << >> /\ Done(ts, sv, g) => On(st, CbF(g))
          /\ Once(Queue(cb, g), Completion)
          /\ On(Queue(cb, g), Completion) <=> \E u \in pd : g = Task(u)
      BY <3>1 DEF Core, Called
    <3>3. \A u \in DOMAIN ts2 : Once(Queue(cb, g), u) /\ (On(Queue(cb, g), u) <=> ts2[u].wait = g)
      <4> SUFFICES ASSUME NEW u \in DOMAIN ts2
                   PROVE  Once(Queue(cb, g), u) /\ (On(Queue(cb, g), u) <=> ts2[u].wait = g)
        OBVIOUS
      <4>1. CASE u = n
        BY <1>9, <2>0, <3>1, <4>1
      <4>2. CASE u # n
        BY <3>2, <4>2
      <4> QED BY <4>1, <4>2
    <3> QED BY <1>6, <1>7, <3>1, <3>2, <3>3
  <2> QED BY <2>1, <2>2
<1>14. Watched(ts2, st2, pd, al)
  <2> SUFFICES ASSUME NEW u \in DOMAIN ts2
               PROVE  /\ Once(st2, RegF(u))
                      /\ On(st2, RegF(u)) => u \notin pd
                      /\ u \in pd \/ On(st2, RegF(u)) => IsPlugin(ts2, u)
                      /\ u \in al <=> /\ IsPlugin(ts2, u) /\ u \notin pd /\ ~ On(st2, RegF(u))
                                      /\ ts2[u].out.val \in Errors
                      /\ IsPlugin(ts2, u) /\ u \notin pd /\ ~ On(st2, RegF(u))
                            => ts2[u].out.val # Pending
    BY DEF Watched
  <2>1. CASE u = n
    <3>1. u \notin pd /\ u \notin al
      BY <2>1 DEF Core, Shaped
    <3>2. Once(st, RegF(n))
      BY <1>5 DEF On, Once
    <3>3. On(st2, RegF(n)) <=> p
      BY <1>5, <1>6, FramesDiffer
    <3> QED BY <1>6, <2>1, <3>1, <3>2, <3>3 DEF p
  <2>2. CASE u # n
    <3>1. u \in DOMAIN ts /\ ts2[u] = ts[u]
      BY <2>2
    <3>2. RunF(n) # RegF(u) /\ RegF(n) # RegF(u)
      BY <2>2, FramesDiffer
    <3>3. /\ Once(st, RegF(u))
          /\ On(st, RegF(u)) => u \notin pd
          /\ u \in pd \/ On(st, RegF(u)) => IsPlugin(ts, u)
          /\ u \in al <=> /\ IsPlugin(ts, u) /\ u \notin pd /\ ~ On(st, RegF(u))
                          /\ ts[u].out.val \in Errors
          /\ IsPlugin(ts, u) /\ u \notin pd /\ ~ On(st, RegF(u)) => ts[u].out.val # Pending
      BY <3>1 DEF Core, Watched
    <3>4. IsPlugin(ts2, u) <=> IsPlugin(ts, u)
      BY <3>1 DEF IsPlugin
    <3>5. (On(st2, RegF(u)) <=> On(st, RegF(u))) /\ Once(st2, RegF(u))
      BY <1>6, <3>2, <3>3
    <3> QED BY <3>1, <3>3, <3>4, <3>5
  <2> QED BY <2>1, <2>2
<1> QED BY <1>10, <1>11, <1>12, <1>13, <1>14 DEF Core

\* The controller registers a plugin it has started.
Noted(pd, t)     == pd \cup {t}
Notified(cb, t)  == With(cb, Task(t), Append(Queue(cb, Task(t)), Completion))
Reached(ts, sv, st, t) ==
    (IF Done(ts, sv, Task(t)) THEN << CbF(Task(t)) >> ELSE << >>) \o Tail(st)

LEMMA Registers ==
    ASSUME NEW ts, NEW sv, NEW cb, NEW st, NEW pd, NEW al, Core(ts, sv, cb, st, pd, al),
           NEW t, st # << >>, Head(st) = RegF(t), NEW st2, st2 = Reached(ts, sv, st, t)
    PROVE  /\ t \in DOMAIN ts /\ t \notin pd
           /\ Core(ts, sv, Notified(cb, t), st2, Noted(pd, t), al)
<1> DEFINE f   == Task(t)
           q   == Queue(cb, f)
           a   == Append(q, Completion)
           cb2 == With(cb, f, a)
           d   == Done(ts, sv, f)
           r   == Tail(st)
           c   == CbF(f)
<1>1. /\ st \in Seq(FrameType) /\ DOMAIN ts \subseteq Nat \ {0}
      /\ RegF(t).op = "register" /\ RegF(t).arg = t
  BY Frames DEF Core, Shaped
<1>2. /\ r \in Seq(FrameType)
      /\ \A x : On(st, x) <=> RegF(t) = x \/ On(r, x)
      /\ \A x : Once(st, x) <=> Once(r, x) /\ (RegF(t) = x => ~ On(r, x))
  BY <1>1, OnPopped
<1>3. On(st, RegF(t)) /\ t \in DOMAIN ts /\ t \in Nat \ {0}
  <2>1. On(st, RegF(t))
    BY <1>2
  <2> QED BY <1>1, <2>1 DEF Core, Framed
<1>4. /\ t \notin pd /\ ~ On(r, RegF(t)) /\ IsPlugin(ts, t) /\ t \notin al
  BY <1>2, <1>3 DEF Core, Watched
<1>5. /\ f \in Futures(ts, sv) /\ f \in Future /\ c \in FrameType
      /\ c.op = "callbacks" /\ c.arg = f /\ f # << >>
  BY <1>3, FuturesAre, Frames DEF Futures
<1>6. /\ st2 \in Seq(FrameType)
      /\ \A x : On(st2, x) <=> (d /\ c = x) \/ On(r, x)
      /\ \A x : x # c /\ Once(r, x) => Once(st2, x)
  <2>1. CASE d
    <3>1. st2 = << c >> \o r
      BY <2>1 DEF Reached
    <3> HIDE DEF c, r, d
    <3>2. /\ << c >> \o r \in Seq(FrameType)
          /\ \A x : On(<< c >> \o r, x) <=> c = x \/ On(r, x)
          /\ \A x : Once(<< c >> \o r, x) <=> Once(r, x) /\ (c = x => ~ On(r, x))
      BY <1>2, <1>5, OnPushed
    <3> QED BY <2>1, <3>1, <3>2
  <2>2. CASE ~ d
    <3>1. st2 = r
      BY <1>2, <2>2 DEF Reached
    <3> HIDE DEF c, r, d
    <3> QED BY <1>2, <2>2, <3>1
  <2> QED BY <2>1, <2>2
<1>7. ~ On(q, Completion) /\ Once(q, Completion)
  <2>1. \A u \in pd : f # Task(u)
    BY <1>4, FuturesAre
  <2> QED BY <1>5, <2>1 DEF Core, Called
<1>8. q \in Seq(Nat)
  BY QueueType DEF Core
<1>9. /\ a \in Seq(Nat) /\ a # << >>
      /\ \A x : On(a, x) <=> Completion = x \/ On(q, x)
      /\ \A x : Once(q, x) /\ (Completion = x => ~ On(q, x)) => Once(a, x)
  <2>1. Completion \in Nat
    BY DEF Completion
  <2> HIDE DEF q
  <2> QED BY <1>8, <2>1, OnAppended
<1>10. /\ \A g : Queue(cb2, g) = IF g = f THEN a ELSE Queue(cb, g)
       /\ DOMAIN cb2 = DOMAIN cb \cup {f}
  <2> HIDE DEF a, f
  <2> QED BY DEF With, Queue
<1>11. \A u \in DOMAIN ts : u # Completion
  BY <1>1 DEF Completion
<1>12. \A x : x.op # "callbacks" => (On(st2, x) <=> On(r, x)) /\ x # c
  BY <1>5, <1>6
<1> HIDE DEF f, q, a, cb2, d, r, c
<1>13. Shaped(ts, sv, cb2, st2, pd \cup {t}, al)
  <2>1. \A g \in DOMAIN cb2 : cb2[g] \in Seq(Nat)
    <3> SUFFICES ASSUME NEW g \in DOMAIN cb2 PROVE cb2[g] \in Seq(Nat)
      OBVIOUS
    <3>1. cb2[g] = Queue(cb2, g)
      BY DEF Queue
    <3>2. Queue(cb, g) \in Seq(Nat)
      BY QueueType DEF Core
    <3> QED BY <1>9, <1>10, <3>1, <3>2
  <2> QED BY <1>3, <1>5, <1>6, <1>10, <2>1 DEF Core, Shaped
<1>14. Scheduled(ts, sv, st2)
  <2> SUFFICES ASSUME NEW u \in DOMAIN ts
               PROVE  Once(st2, RunF(u)) /\ (On(st2, RunF(u)) <=> On(st, RunF(u)))
    BY DEF Core, Scheduled
  <2>1. RunF(u).op # "callbacks" /\ RunF(u) # RegF(t)
    BY Frames, FramesDiffer
  <2>2. Once(st, RunF(u))
    BY DEF Core, Scheduled
  <2> QED BY <1>2, <1>6, <1>12, <2>1, <2>2
<1>15. Framed(ts, sv, st2)
  <2> SUFFICES ASSUME NEW x, On(st2, x)
               PROVE  IF x.op = "callbacks" THEN x.arg \in Futures(ts, sv) /\ Done(ts, sv, x.arg)
                                            ELSE x.arg \in DOMAIN ts
    BY DEF Framed
  <2>1. CASE On(r, x)
    BY <1>2, <2>1 DEF Core, Framed
  <2>2. CASE d /\ c = x
    BY <1>5, <2>2 DEF d
  <2> QED BY <1>6, <2>1, <2>2
<1>16. Called(ts, sv, cb2, st2, pd \cup {t})
  <2> SUFFICES ASSUME NEW g \in Futures(ts, sv)
               PROVE  /\ \A u \in DOMAIN ts : /\ Once(Queue(cb2, g), u)
                                              /\ On(Queue(cb2, g), u) <=> ts[u].wait = g
                      /\ \A x : On(Queue(cb2, g), x) => x \in DOMAIN ts \cup {Completion}
                      /\ Queue(cb2, g) # << >> /\ Done(ts, sv, g) => On(st2, CbF(g))
                      /\ Once(Queue(cb2, g), Completion)
                      /\ On(Queue(cb2, g), Completion) <=> \E u \in pd \cup {t} : g = Task(u)
    BY DEF Called
  <2>1. /\ \A u \in DOMAIN ts : /\ Once(Queue(cb, g), u)
                                /\ On(Queue(cb, g), u) <=> ts[u].wait = g
        /\ \A x : On(Queue(cb, g), x) => x \in DOMAIN ts \cup {Completion}
        /\ Queue(cb, g) # << >> /\ Done(ts, sv, g) => On(st, CbF(g))
        /\ Once(Queue(cb, g), Completion)
        /\ On(Queue(cb, g), Completion) <=> \E u \in pd : g = Task(u)
    BY DEF Core, Called
  <2>2. CASE g = f
    <3>1. Queue(cb2, g) = a /\ Queue(cb, g) = q
      BY <1>10, <2>2 DEF q
    <3>2. \A u \in DOMAIN ts : Once(a, u) /\ (On(a, u) <=> ts[u].wait = g)
      BY <1>9, <1>11, <2>1, <3>1
    <3>3. \A x : On(a, x) => x \in DOMAIN ts \cup {Completion}
      BY <1>9, <2>1, <3>1
    <3>4. Once(a, Completion) /\ On(a, Completion)
      BY <1>7, <1>9
    <3>5. Done(ts, sv, g) => On(st2, CbF(g))
      BY <1>6, <2>2 DEF d, c
    <3>6. \E u \in pd \cup {t} : g = Task(u)
      BY <2>2 DEF f
    <3> QED BY <3>1, <3>2, <3>3, <3>4, <3>5, <3>6
  <2>3. CASE g # f
    <3>1. Queue(cb2, g) = Queue(cb, g)
      BY <1>10, <2>3
    <3>2. On(st, CbF(g)) => On(st2, CbF(g))
      BY <1>2, <1>6, FramesDiffer
    <3>3. (\E u \in pd \cup {t} : g = Task(u)) <=> (\E u \in pd : g = Task(u))
      BY <2>3 DEF f
    <3> QED BY <2>1, <3>1, <3>2, <3>3
  <2> QED BY <2>2, <2>3
<1>17. Watched(ts, st2, pd \cup {t}, al)
  <2> SUFFICES ASSUME NEW u \in DOMAIN ts
               PROVE  /\ Once(st2, RegF(u))
                      /\ On(st2, RegF(u)) => u \notin pd \cup {t}
                      /\ u \in pd \cup {t} \/ On(st2, RegF(u)) => IsPlugin(ts, u)
                      /\ u \in al <=> /\ IsPlugin(ts, u) /\ u \notin pd \cup {t}
                                      /\ ~ On(st2, RegF(u)) /\ ts[u].out.val \in Errors
                      /\ IsPlugin(ts, u) /\ u \notin pd \cup {t} /\ ~ On(st2, RegF(u))
                            => ts[u].out.val # Pending
    BY DEF Watched
  <2>1. /\ Once(st, RegF(u))
        /\ On(st, RegF(u)) => u \notin pd
        /\ u \in pd \/ On(st, RegF(u)) => IsPlugin(ts, u)
        /\ u \in al <=> /\ IsPlugin(ts, u) /\ u \notin pd /\ ~ On(st, RegF(u))
                        /\ ts[u].out.val \in Errors
        /\ IsPlugin(ts, u) /\ u \notin pd /\ ~ On(st, RegF(u)) => ts[u].out.val # Pending
    BY DEF Core, Watched
  <2>2. RegF(u).op # "callbacks"
    BY Frames
  <2>3. Once(st2, RegF(u)) /\ (On(st2, RegF(u)) <=> On(r, RegF(u)))
    BY <1>2, <1>6, <1>12, <2>1, <2>2
  <2>4. CASE u = t
    BY <1>4, <2>3, <2>4
  <2>5. CASE u # t
    <3>1. RegF(u) # RegF(t)
      BY <2>5, FramesDiffer
    <3>2. On(st2, RegF(u)) <=> On(st, RegF(u))
      BY <1>2, <2>3, <3>1
    <3> QED BY <2>1, <2>3, <2>5, <3>2
  <2> QED BY <2>4, <2>5
<1>18. Core(ts, sv, cb2, st2, pd \cup {t}, al)
  BY <1>13, <1>14, <1>15, <1>16, <1>17 DEF Core
<1> QED BY <1>3, <1>4, <1>18 DEF Notified, Noted, cb2, a, q, f

\* The controller's callback runs.
LEMMA Completes ==
    ASSUME NEW ts, NEW sv, NEW cb, NEW st, NEW pd, NEW al, Core(ts, sv, cb, st, pd, al),
           NEW f \in Futures(ts, sv), Queue(cb, f) # << >>, Head(Queue(cb, f)) = Completion,
           st # << >>, Head(st) = CbF(f)
    PROVE  \E t \in pd :
              /\ f = Task(t)
              /\ Core(ts, sv, With(cb, f, Tail(Queue(cb, f))), st, pd \ {t},
                      IF ts[t].out.val \in Errors THEN al \cup {t} ELSE al)
<1> DEFINE q   == Queue(cb, f)
           w   == Tail(q)
           cb2 == With(cb, f, w)
<1>1. /\ w \in Seq(Nat)
      /\ \A x : On(q, x) <=> Completion = x \/ On(w, x)
      /\ \A x : Once(q, x) <=> Once(w, x) /\ (Completion = x => ~ On(w, x))
  <2>1. q \in Seq(Nat)
    BY QueueType DEF Core
  <2> HIDE DEF q
  <2> QED BY <2>1, OnPopped DEF q
<1>2. On(q, Completion) /\ ~ On(w, Completion) /\ Once(w, Completion)
  BY <1>1 DEF Core, Called
<1>3. PICK t \in pd : f = Task(t)
  BY <1>2 DEF Core, Called
<1> DEFINE al2 == IF ts[t].out.val \in Errors THEN al \cup {t} ELSE al
<1>4. /\ t \in DOMAIN ts /\ DOMAIN ts \subseteq Nat \ {0} /\ st \in Seq(FrameType)
  BY DEF Core, Shaped
<1>5. Done(ts, sv, f) /\ On(st, CbF(f))
  <2>1. On(st, CbF(f))
    BY <1>4, OnPopped
  <2>2. CbF(f).op = "callbacks" /\ CbF(f).arg = f
    BY Frames
  <2> QED BY <2>1, <2>2 DEF Core, Framed
<1>6. ts[t].out.val # Pending
  BY <1>3, <1>5, DoneIs
<1>7. /\ \A g : Queue(cb2, g) = IF g = f THEN w ELSE Queue(cb, g)
      /\ DOMAIN cb2 = DOMAIN cb \cup {f}
  <2> HIDE DEF w
  <2> QED BY DEF With, Queue
<1>8. \A u \in DOMAIN ts : u # Completion
  BY <1>4 DEF Completion
<1> HIDE DEF q, w, cb2, al2
<1>9. Shaped(ts, sv, cb2, st, pd \ {t}, al2)
  <2>1. \A g \in DOMAIN cb2 : cb2[g] \in Seq(Nat)
    <3> SUFFICES ASSUME NEW g \in DOMAIN cb2 PROVE cb2[g] \in Seq(Nat)
      OBVIOUS
    <3>1. cb2[g] = Queue(cb2, g)
      BY DEF Queue
    <3>2. Queue(cb, g) \in Seq(Nat)
      BY QueueType DEF Core
    <3> QED BY <1>1, <1>7, <3>1, <3>2
  <2> QED BY <1>4, <1>7, <2>1 DEF Core, Shaped, al2
<1>10. Called(ts, sv, cb2, st, pd \ {t})
  <2> SUFFICES ASSUME NEW g \in Futures(ts, sv)
               PROVE  /\ \A u \in DOMAIN ts : /\ Once(Queue(cb2, g), u)
                                              /\ On(Queue(cb2, g), u) <=> ts[u].wait = g
                      /\ \A x : On(Queue(cb2, g), x) => x \in DOMAIN ts \cup {Completion}
                      /\ Queue(cb2, g) # << >> /\ Done(ts, sv, g) => On(st, CbF(g))
                      /\ Once(Queue(cb2, g), Completion)
                      /\ On(Queue(cb2, g), Completion) <=> \E u \in pd \ {t} : g = Task(u)
    BY DEF Called
  <2>1. /\ \A u \in DOMAIN ts : /\ Once(Queue(cb, g), u)
                                /\ On(Queue(cb, g), u) <=> ts[u].wait = g
        /\ \A x : On(Queue(cb, g), x) => x \in DOMAIN ts \cup {Completion}
        /\ Queue(cb, g) # << >> /\ Done(ts, sv, g) => On(st, CbF(g))
        /\ Once(Queue(cb, g), Completion)
        /\ On(Queue(cb, g), Completion) <=> \E u \in pd : g = Task(u)
    BY DEF Core, Called
  <2>2. CASE g = f
    <3>1. Queue(cb2, g) = w /\ Queue(cb, g) = q
      BY <1>7, <2>2 DEF q
    <3>2. \A u \in DOMAIN ts : Once(w, u) /\ (On(w, u) <=> ts[u].wait = g)
      BY <1>1, <1>8, <2>1, <3>1
    <3>3. \A u \in pd \ {t} : g # Task(u)
      BY <1>3, <2>2, FuturesAre
    <3> QED BY <1>1, <1>2, <1>5, <2>1, <2>2, <3>1, <3>2, <3>3
  <2>3. CASE g # f
    <3>1. Queue(cb2, g) = Queue(cb, g)
      BY <1>7, <2>3
    <3>2. (\E u \in pd \ {t} : g = Task(u)) <=> (\E u \in pd : g = Task(u))
      BY <1>3, <2>3
    <3> QED BY <2>1, <3>1, <3>2
  <2> QED BY <2>2, <2>3
<1>11. Watched(ts, st, pd \ {t}, al2)
  <2> SUFFICES ASSUME NEW u \in DOMAIN ts
               PROVE  /\ Once(st, RegF(u))
                      /\ On(st, RegF(u)) => u \notin pd \ {t}
                      /\ u \in pd \ {t} \/ On(st, RegF(u)) => IsPlugin(ts, u)
                      /\ u \in al2 <=> /\ IsPlugin(ts, u) /\ u \notin pd \ {t}
                                       /\ ~ On(st, RegF(u)) /\ ts[u].out.val \in Errors
                      /\ IsPlugin(ts, u) /\ u \notin pd \ {t} /\ ~ On(st, RegF(u))
                            => ts[u].out.val # Pending
    BY DEF Watched
  <2>1. /\ Once(st, RegF(u))
        /\ On(st, RegF(u)) => u \notin pd
        /\ u \in pd \/ On(st, RegF(u)) => IsPlugin(ts, u)
        /\ u \in al <=> /\ IsPlugin(ts, u) /\ u \notin pd /\ ~ On(st, RegF(u))
                        /\ ts[u].out.val \in Errors
        /\ IsPlugin(ts, u) /\ u \notin pd /\ ~ On(st, RegF(u)) => ts[u].out.val # Pending
    BY DEF Core, Watched
  <2>2. CASE u = t
    <3>1. u \in al2 <=> ts[u].out.val \in Errors
      BY <2>1, <2>2 DEF al2
    <3> QED BY <1>6, <2>1, <2>2, <3>1
  <2>3. CASE u # t
    <3>1. u \in al2 <=> u \in al
      BY <2>3 DEF al2
    <3> QED BY <2>1, <2>3, <3>1
  <2> QED BY <2>2, <2>3
<1>12. Core(ts, sv, cb2, st, pd \ {t}, al2)
  BY <1>9, <1>10, <1>11 DEF Core
<1> QED BY <1>3, <1>12 DEF al2, cb2, w, q

\* A future has no callbacks left.
LEMMA Returns ==
    ASSUME NEW ts, NEW sv, NEW cb, NEW st, NEW pd, NEW al, Core(ts, sv, cb, st, pd, al),
           NEW f, Queue(cb, f) = << >>, st # << >>, Head(st) = CbF(f)
    PROVE  Core(ts, sv, cb, Tail(st), pd, al)
<1> DEFINE r == Tail(st)
<1>1. st \in Seq(FrameType)
  BY DEF Core, Shaped
<1>2. /\ r \in Seq(FrameType)
      /\ \A x : On(st, x) <=> CbF(f) = x \/ On(r, x)
      /\ \A x : Once(st, x) <=> Once(r, x) /\ (CbF(f) = x => ~ On(r, x))
  BY <1>1, OnPopped
<1> HIDE DEF r
<1>3. \A u : /\ On(r, RunF(u)) <=> On(st, RunF(u))
             /\ On(r, RegF(u)) <=> On(st, RegF(u))
             /\ Once(st, RunF(u)) => Once(r, RunF(u))
             /\ Once(st, RegF(u)) => Once(r, RegF(u))
  BY <1>2, FramesDiffer
<1>4. Shaped(ts, sv, cb, r, pd, al)
  BY <1>2 DEF Core, Shaped
<1>5. Scheduled(ts, sv, r)
  BY <1>3 DEF Core, Scheduled
<1>6. Framed(ts, sv, r)
  BY <1>2 DEF Core, Framed
<1>7. Called(ts, sv, cb, r, pd)
  <2>1. ASSUME NEW g, Queue(cb, g) # << >>, On(st, CbF(g)) PROVE On(r, CbF(g))
    <3>1. CbF(f) # CbF(g)
      BY <2>1, FramesDiffer
    <3> QED BY <1>2, <2>1, <3>1
  <2> QED BY <2>1 DEF Core, Called
<1>8. Watched(ts, r, pd, al)
  BY <1>3 DEF Core, Watched
<1> QED BY <1>4, <1>5, <1>6, <1>7, <1>8 DEF Core, r

\* The engine completes a call.
LEMMA Answers ==
    ASSUME NEW ts, NEW sv, NEW cb, NEW pd, NEW al, Core(ts, sv, cb, << >>, pd, al),
           NEW i \in DOMAIN sv, NEW sv2, DOMAIN sv2 = DOMAIN sv,
           \A j \in DOMAIN sv : j # i => sv2[j] = sv[j],
           sv2[i].ans.val # Pending
    PROVE  Core(ts, sv2, cb, << CbF(Call(i)) >>, pd, al)
<1> DEFINE f  == Call(i)
           c  == CbF(f)
           st == << c >>
<1>1. /\ Futures(ts, sv2) = Futures(ts, sv) /\ f \in Futures(ts, sv) /\ f \in Future
      /\ c \in FrameType /\ c.op = "callbacks" /\ c.arg = f
  BY FuturesAre, Frames DEF Core, Shaped, Futures
<1>2. Done(ts, sv2, f)
  BY FuturesAre DEF Done
<1>3. \A g \in Futures(ts, sv) : g # f => (Done(ts, sv2, g) <=> Done(ts, sv, g))
  <2>1. ASSUME NEW u \in DOMAIN ts PROVE Done(ts, sv2, Task(u)) <=> Done(ts, sv, Task(u))
    BY FuturesAre DEF Done
  <2>2. ASSUME NEW j \in DOMAIN sv, Call(j) # f PROVE Done(ts, sv2, Call(j)) <=> Done(ts, sv, Call(j))
    <3>1. j # i
      BY <2>2
    <3> QED BY <3>1, FuturesAre DEF Done
  <2> QED BY <2>1, <2>2 DEF Futures
<1>4. \A u : c # RunF(u) /\ c # RegF(u)
  BY FramesDiffer
<1>5. /\ st \in Seq(FrameType)
      /\ \A x : On(st, x) <=> c = x
      /\ \A x : x # c => Once(st, x)
  <2> HIDE DEF c
  <2>1. Len(st) = 1 /\ st[1] = c /\ st \in Seq(FrameType)
    BY <1>1
  <2> QED BY <2>1 DEF On, Once
<1> HIDE DEF f, c, st
<1>6. Shaped(ts, sv2, cb, st, pd, al)
  BY <1>1, <1>5 DEF Core, Shaped
<1>7. Scheduled(ts, sv2, st)
  BY <1>1, <1>4, <1>5, EmptyOn DEF Core, Scheduled
<1>8. Framed(ts, sv2, st)
  BY <1>1, <1>2, <1>5 DEF Framed
<1>9. Called(ts, sv2, cb, st, pd)
  <2> SUFFICES ASSUME NEW g \in Futures(ts, sv)
               PROVE  Queue(cb, g) # << >> /\ Done(ts, sv2, g) => On(st, CbF(g))
    BY <1>1 DEF Core, Called
  <2>1. CASE g = f
    BY <1>5, <2>1 DEF c
  <2>2. CASE g # f
    <3>1. Queue(cb, g) # << >> /\ Done(ts, sv, g) => On(<< >>, CbF(g))
      BY DEF Core, Called
    <3> QED BY <1>3, <2>2, <3>1, EmptyOn
  <2> QED BY <2>1, <2>2
<1>10. Watched(ts, st, pd, al)
  BY <1>4, <1>5, EmptyOn DEF Core, Watched
<1> QED BY <1>6, <1>7, <1>8, <1>9, <1>10 DEF Core, st, c, f

-----------------------------------------------------------------------------
(* What the tasks hold: types, and what each program knows at each label.    *)

Vals     == Value \cup Errors \cup {Nothing, Pending}
Labels   == {"start", "got", "row", "walking", "asking", "detail", "reported",
             "family", "started", "answered", "finished"}
TaskType == [prog : {"walk", "table", "detect", "family"}, base : Oid, from : Oid,
             at : Labels, walk : Nat, asked : Seq(Future), wait : Future \cup {<< >>},
             got : [oid : Oid, val : Vals, walk : Nat],
             out : [oid : Oid, val : Vals, walk : Nat]]
CallType == [kind : {"get", "next"}, oid : Oid, ans : [oid : Oid, val : Vals]]
RowType  == [plugin : Nat, oid : Oid]

Typed(ts, sv, ms) ==
    ts \in Seq(TaskType) /\ sv \in Seq(CallType) /\ ms \in Seq(RowType)

Answered(sv) ==
    \A i \in DOMAIN sv :
        sv[i].ans.val # Pending => sv[i].ans \in Engine!Answers(sv[i].kind, sv[i].oid)

IsCall(sv, f)           == \E i \in DOMAIN sv : f = Call(i)
AsksFor(sv, f, kind, o) == \E i \in DOMAIN sv : /\ f = Call(i)
                                                /\ sv[i].kind = kind /\ sv[i].oid = o
IsA(ts, prog, w)        == w \in DOMAIN ts /\ ts[w].prog = prog
WalkFrom(ts, w, b, o)   == IsA(ts, "walk", w) /\ ts[w].base = b /\ ts[w].from = o
Ended(x)                == x.out.val \in Errors \cup {Nothing, Pending}

\* What a walk's query was answered.
Row(x) == \/ x.got.val = BackendError
          \/ x.got.oid = AgentNext(x.from).oid /\ x.got.val = AgentNext(x.from).val

WalkOK(ts, sv, x) ==
    /\ x.at \in {"start", "got", "row", "finished"}
    /\ StartsWith(x.from, x.base)
    /\ x.wait # << >> => x.at = "got" /\ AsksFor(sv, x.wait, "next", x.from)
    /\ x.at = "got" /\ x.wait = << >> => Row(x)
    /\ x.at = "row" => /\ Row(x) /\ x.got.val \in Value /\ StartsWith(x.got.oid, x.base)
                       /\ WalkFrom(ts, x.walk, x.base, x.got.oid)
    /\ x.out.val \in Value => /\ WalkFrom(ts, x.out.walk, x.base, x.out.oid)
                              /\ StartsWith(x.out.oid, x.base) /\ IsNext(x.from, x.out.oid)
    /\ x.out.val = Nothing => \A k \in After(x.from) : ~ StartsWith(k, x.base)

RowsOf(ms, t)   == {i \in DOMAIN ms : ms[i].plugin = t}
Told(ms, t)     == {ms[i].oid : i \in RowsOf(ms, t)}
UpTo(base, o)   == {k \in TableOf(base) : k \preceq o}
Before(base, o) == {k \in TableOf(base) : k \prec o}

TableOK(ts, sv, x) ==
    /\ x.at \in {"start", "walking", "row", "asking", "detail", "reported", "finished"}
    /\ x.at \notin {"start", "finished"} =>
          WalkFrom(ts, x.walk, x.base, ts[x.walk].from)
    /\ x.wait # << >> => \/ x.at = "row" /\ x.wait = Task(x.walk)
                         \/ x.at = "detail" /\ IsCall(sv, x.wait)
    /\ x.at = "row" /\ x.wait = << >> => x.got = ts[x.walk].out /\ x.got.val # Pending
    /\ \A k \in DOMAIN x.asked : IsCall(sv, x.asked[k])
    /\ x.at \in {"asking", "detail"} => /\ ts[x.walk].from = x.from /\ x.from \in TableOf(x.base)
                                        /\ x.base \in DOMAIN Detail
    /\ Ended(x)

\* The rows a table plugin has reported.
Tells(ts, ms, t, x) ==
    /\ \A i, j \in RowsOf(ms, t) : i < j => ms[i].oid \prec ms[j].oid
    /\ x.at = "start" => Told(ms, t) = {}
    /\ x.at \in {"walking", "row", "reported"} => Told(ms, t) = UpTo(x.base, ts[x.walk].from)
    /\ x.at \in {"asking", "detail"} => Told(ms, t) = Before(x.base, x.from)
    /\ Told(ms, t) \subseteq TableOf(x.base)
    /\ \A k \in TableOf(x.base), o \in Told(ms, t) : k \prec o => k \in Told(ms, t)
    /\ x.out.val = Nothing /\ x.base \notin Early => Told(ms, t) = TableOf(x.base)

DetectOK(ts, sv, x) ==
    /\ x.at \in {"start", "got", "family", "started", "finished"}
    /\ x.wait # << >> => \/ x.at = "got" /\ AsksFor(sv, x.wait, "get", sysObjectID)
                         \/ x.at = "started" /\ x.wait = Task(x.walk)
    /\ x.at = "got" /\ x.wait = << >> => x.got.val \in Errors \cup {Device}
    /\ x.at \in {"family", "started"} => IsA(ts, "family", x.walk)
    /\ x.at = "started" /\ x.wait = << >> => x.got = ts[x.walk].out /\ x.got.val # Pending
    /\ Ended(x)
    /\ x.out.val = Nothing /\ Device \in DOMAIN Families =>
          \E u \in DOMAIN ts : ts[u].prog = "family" /\ ts[u].out.val = Nothing

Started == Families[Device]

FamilyOK(sv, x) ==
    /\ Device \in DOMAIN Families
    /\ x.at \in {"start", "answered", "finished"}
    /\ x.walk \in 0 .. Len(Started)
    /\ x.at = "start" => x.got.val = Device
    /\ x.at = "answered" /\ x.wait = << >> => x.got.val \in Errors \cup {Device}
    /\ x.wait # << >> => x.at = "answered" /\ AsksFor(sv, x.wait, "get", sysObjectID)
    /\ Ended(x)
    /\ x.out.val = Nothing => x.walk = Len(Started)

TaskOK(ts, sv, ms, t) ==
    LET x == ts[t] IN
    /\ x.prog = "walk"   => WalkOK(ts, sv, x)
    /\ x.prog = "table"  => TableOK(ts, sv, x) /\ Tells(ts, ms, t, x)
    /\ x.prog = "detect" => DetectOK(ts, sv, x)
    /\ x.prog = "family" => FamilyOK(sv, x)
    /\ x.prog # "family" => x.walk <= Len(ts)
    /\ x.at = "finished" <=> x.out.val # Pending

Locals(ts, sv, ms) == \A t \in DOMAIN ts : TaskOK(ts, sv, ms, t)

\* Who started whom.
TablesOf(ts) == {t \in DOMAIN ts : ts[t].prog = "table"}
StartedSoFar(n) == {Started[m] : m \in 1 .. n} \ {sysObjectID}

Globals(ts) ==
    /\ \A t \in DOMAIN ts : ts[t].prog = "detect" <=> t = 1
    /\ \A t \in DOMAIN ts : ts[t].prog = "detect" /\ ts[t].at \in {"start", "got"} => Len(ts) = 1
    /\ \A t, u \in DOMAIN ts : ts[t].prog = "family" /\ ts[u].prog = "family" => t = u
    /\ TablesOf(ts) # {} => \E t \in DOMAIN ts : ts[t].prog = "family"
    /\ \A t \in DOMAIN ts : ts[t].prog = "family" =>
          {ts[u].base : u \in TablesOf(ts)} = StartedSoFar(ts[t].walk)
    /\ \A t, u \in TablesOf(ts) : ts[t].base = ts[u].base => t = u

\* Every row is a table plugin's.
Owned(ts, ms) == \A i \in DOMAIN ms : ms[i].plugin \in TablesOf(ts)

Story(ts, sv, ms) ==
    Typed(ts, sv, ms) /\ Answered(sv) /\ Locals(ts, sv, ms) /\ Globals(ts) /\ Owned(ts, ms)

Looped(ts, sv, st, pd, ct) ==
    /\ ct \in {"start", "loop", "answered", "stopped"}
    /\ ct = "start" => ts = << >> /\ sv = << >> /\ st = << >>
    /\ ct # "start" => ts # << >>
    /\ ct = "stopped" =>
          st = << >> /\ (pd = {} \/ \A i \in DOMAIN sv : sv[i].ans.val # Pending)

IInv ==
    /\ Core(tasks, service, callbacks, stack, pending, alerts)
    /\ Story(tasks, service, metrics)
    /\ Looped(tasks, service, stack, pending, control)

-----------------------------------------------------------------------------
(* Values and answers.                                                       *)

LEMMA ValuesApart ==
    /\ Value \cap Errors = {} /\ Nothing \notin Value \cup Errors
    /\ Pending \notin Value \cup Errors /\ Nothing # Pending
BY ControllerAssumption, SentinelAssumption DEF Errors

LEMMA SysObject == sysObjectID \in Oid
BY ControllerAssumption

LEMMA EngineSees ==
    ASSUME NEW o
    PROVE  Engine!AgentGet(o) = AgentGet(o) /\ Engine!AgentNext(o) = AgentNext(o)
<1>1. \A a, b : Engine!\prec(a, b) <=> a \prec b
  BY DEF \prec, Engine!\prec
<1>2. \A a, b : Engine!\preceq(a, b) <=> a \preceq b
  BY <1>1 DEF \preceq, Engine!\preceq
<1>3. Engine!After(o) = After(o)
  BY <1>1 DEF After, Engine!After
<1>4. \A k : Engine!IsNext(o, k) <=> IsNext(o, k)
  BY <1>2, <1>3 DEF IsNext, Engine!IsNext
<1>5. (CHOOSE k \in After(o) : Engine!IsNext(o, k)) = CHOOSE k \in After(o) : IsNext(o, k)
  BY <1>4, Zenon
<1>6. Engine!AgentNext(o) = AgentNext(o)
  BY <1>3, <1>5, Zenon DEF AgentNext, Engine!AgentNext
<1>7. Engine!AgentGet(o) = AgentGet(o)
  BY DEF AgentGet, Engine!AgentGet
<1> QED BY <1>6, <1>7

LEMMA AnswersAre ==
    ASSUME NEW kind \in {"get", "next"}, NEW o \in Oid, NEW a \in Engine!Answers(kind, o)
    PROVE  /\ a \in [oid : Oid, val : Vals] /\ a.val # Pending /\ a.val # Nothing
           /\ kind = "next" => \/ a.val = BackendError
                               \/ a.oid = AgentNext(o).oid /\ a.val = AgentNext(o).val
           /\ kind = "get" /\ o = sysObjectID => a.val \in Errors \cup {Device}
<1> DEFINE G == [oid |-> o, val |-> IF o \in DOMAIN MIB THEN MIB[o] ELSE NoSuchObject]
           F == [oid |-> o, val |-> BackendError]
           E == [oid |-> o, val |-> EndOfMibView]
<1>1. AgentGet(o) = G /\ \A v : Engine!Answer(o, v) = [oid |-> o, val |-> v]
  BY DEF AgentGet, Engine!Answer
<1>2. G \in [oid : Oid, val : Value \cup Errors]
  <2>1. o \in DOMAIN MIB => MIB[o] \in Value
    BY MIBAssumption
  <2> QED BY <2>1 DEF Errors
<1>3. F \in [oid : Oid, val : Value \cup Errors] /\ E \in [oid : Oid, val : Value \cup Errors]
  BY DEF Errors
<1>4. AgentNext(o) \in [oid : Oid, val : Value \cup Errors]
  <2>1. Follows(o, AgentNext(o))
    BY AgentNextFollows
  <2>2. /\ AgentNext(o).oid \in Oid /\ AgentNext(o).val \in Value \cup {EndOfMibView}
        /\ AgentNext(o) = [oid |-> AgentNext(o).oid, val |-> AgentNext(o).val]
    BY <2>1, FollowsMeans
  <2> QED BY <2>2 DEF Errors
<1>5. CASE kind = "next"
  <2>1. a = AgentNext(o) \/ a = F
    BY <1>1, <1>5, EngineSees DEF Engine!Answers, Engine!NextAnswers
  <2> QED BY <1>3, <1>4, <1>5, <2>1, ValuesApart DEF Vals
<1>6. CASE kind = "get"
  <2>1. a = G \/ a = F \/ (a = E /\ o \notin DOMAIN MIB)
    BY <1>1, <1>6, EngineSees DEF Engine!Answers, Engine!GetAnswers
  <2>2. a \in [oid : Oid, val : Value \cup Errors]
    BY <1>2, <1>3, <2>1
  <2>3. o = sysObjectID => a.val \in Errors \cup {Device}
    <3>1. o = sysObjectID => G.val = Device
      BY <1>1 DEF Device
    <3>2. F.val = BackendError /\ E.val = EndOfMibView
      OBVIOUS
    <3> HIDE DEF G, F, E
    <3> QED BY <2>1, <3>1, <3>2 DEF Errors
  <2> HIDE DEF G, F, E
  <2> QED BY <1>6, <2>2, <2>3, ValuesApart DEF Vals
<1> QED BY <1>5, <1>6

-----------------------------------------------------------------------------
(* Changing a task.                                                          *)

Put(ts, t, x) == [ts EXCEPT ![t] = x]

LEMMA PutIs ==
    ASSUME NEW ts \in Seq(TaskType), NEW t \in DOMAIN ts, NEW x \in TaskType
    PROVE  /\ Put(ts, t, x) \in Seq(TaskType) /\ DOMAIN Put(ts, t, x) = DOMAIN ts
           /\ Len(Put(ts, t, x)) = Len(ts)
           /\ Put(ts, t, x)[t] = x
           /\ \A u \in DOMAIN ts : u # t => Put(ts, t, x)[u] = ts[u]
           /\ ts[t] \in TaskType /\ t \in Nat /\ t # 0 /\ t <= Len(ts)
           /\ DOMAIN ts \subseteq Nat \ {0}
BY DEF Put

LEMMA Appended ==
    ASSUME NEW S, NEW s \in Seq(S), NEW x \in S
    PROVE  /\ Append(s, x) \in Seq(S) /\ Len(Append(s, x)) = Len(s) + 1
           /\ DOMAIN Append(s, x) = DOMAIN s \cup {Len(s) + 1}
           /\ Append(s, x)[Len(s) + 1] = x
           /\ \A i \in DOMAIN s : Append(s, x)[i] = s[i]
           /\ Len(s) + 1 \notin DOMAIN s /\ Len(s) + 1 \in Nat \ {0}
           /\ DOMAIN s \subseteq Nat \ {0} /\ DOMAIN s = 1 .. Len(s) /\ Len(s) \in Nat
OBVIOUS

LEMMA NewTaskIs ==
    ASSUME NEW prog \in {"walk", "table", "detect", "family"}, NEW b \in Oid, NEW o \in Oid
    PROVE  /\ NewTask(prog, b, o) \in TaskType
           /\ LET x == NewTask(prog, b, o) IN
              /\ x.prog = prog /\ x.base = b /\ x.from = o /\ x.at = "start"
              /\ x.wait = << >> /\ x.asked = << >> /\ x.out.val = Pending /\ x.walk = 0
BY DEF NewTask, TaskType, Answer, Vals, Labels

-----------------------------------------------------------------------------
(* What a task knows stays true while others move.                           *)

\* Tasks are never dropped, keep their program and base, and their outcome
\* once they have one; a walk keeps its place.
Keeps(ts, ts2) ==
    /\ DOMAIN ts \subseteq DOMAIN ts2 /\ Len(ts) \in Nat /\ Len(ts2) \in Nat
    /\ Len(ts) <= Len(ts2)
    /\ \A u \in DOMAIN ts :
          /\ ts2[u].prog = ts[u].prog /\ ts2[u].base = ts[u].base
          /\ ts[u].prog = "walk" => ts2[u].from = ts[u].from
          /\ ts[u].out.val # Pending => ts2[u].out = ts[u].out

Holds(sv, sv2) ==
    \A i \in DOMAIN sv : /\ i \in DOMAIN sv2
                         /\ sv2[i].kind = sv[i].kind /\ sv2[i].oid = sv[i].oid

SameRows(ms, ms2, t) == /\ RowsOf(ms2, t) = RowsOf(ms, t)
                        /\ \A i \in RowsOf(ms, t) : ms2[i] = ms[i]

LEMMA StillThere ==
    ASSUME NEW ts, NEW ts2, NEW sv, NEW sv2, Keeps(ts, ts2), Holds(sv, sv2)
    PROVE  /\ \A f : IsCall(sv, f) => IsCall(sv2, f)
           /\ \A f, k, o : AsksFor(sv, f, k, o) => AsksFor(sv2, f, k, o)
           /\ \A p, w : IsA(ts, p, w) => IsA(ts2, p, w)
           /\ \A w, b, o : WalkFrom(ts, w, b, o) => WalkFrom(ts2, w, b, o)
<1>1. \A f : IsCall(sv, f) => IsCall(sv2, f)
  BY DEF IsCall, Holds
<1>2. \A f, k, o : AsksFor(sv, f, k, o) => AsksFor(sv2, f, k, o)
  BY DEF AsksFor, Holds
<1>3. \A p, w : IsA(ts, p, w) => IsA(ts2, p, w)
  BY DEF IsA, Keeps
<1>4. \A w, b, o : WalkFrom(ts, w, b, o) => WalkFrom(ts2, w, b, o)
  BY <1>3 DEF WalkFrom, IsA, Keeps
<1> QED BY <1>1, <1>2, <1>3, <1>4

LEMMA Stays ==
    ASSUME NEW ts, NEW ts2, NEW sv, NEW sv2, NEW ms, NEW ms2, Keeps(ts, ts2), Holds(sv, sv2),
           NEW t \in DOMAIN ts, ts2[t] = ts[t], SameRows(ms, ms2, t), TaskOK(ts, sv, ms, t),
           ts[t] \in TaskType
    PROVE  TaskOK(ts2, sv2, ms2, t)
<1> DEFINE x == ts[t]
<1>0. /\ \A f : IsCall(sv, f) => IsCall(sv2, f)
      /\ \A f, k, o : AsksFor(sv, f, k, o) => AsksFor(sv2, f, k, o)
      /\ \A p, w : IsA(ts, p, w) => IsA(ts2, p, w)
      /\ \A w, b, o : WalkFrom(ts, w, b, o) => WalkFrom(ts2, w, b, o)
  BY StillThere
<1>1. ASSUME x.prog = "walk" PROVE WalkOK(ts2, sv2, x)
  <2>1. WalkOK(ts, sv, x)
    BY <1>1 DEF TaskOK
  <2> HIDE DEF x
  <2> QED BY <1>0, <2>1 DEF WalkOK
<1>2. ASSUME x.prog = "table" PROVE TableOK(ts2, sv2, x) /\ Tells(ts2, ms2, t, x)
  <2>1. TableOK(ts, sv, x) /\ Tells(ts, ms, t, x)
    BY <1>2 DEF TaskOK
  <2> HIDE DEF x
  <2>2. ASSUME x.at \notin {"start", "finished"}
        PROVE  ts2[x.walk].from = ts[x.walk].from /\ WalkFrom(ts, x.walk, x.base, ts[x.walk].from)
    BY <2>1, <2>2 DEF TableOK, WalkFrom, IsA, Keeps
  <2>3. ASSUME x.at \notin {"start", "finished"}, x.got = ts[x.walk].out, x.got.val # Pending
        PROVE  ts2[x.walk].out = ts[x.walk].out
    BY <2>2, <2>3 DEF WalkFrom, IsA, Keeps
  <2>4. TableOK(ts2, sv2, x)
    BY <1>0, <2>1, <2>2, <2>3 DEF TableOK
  <2>5. /\ Told(ms2, t) = Told(ms, t) /\ RowsOf(ms2, t) = RowsOf(ms, t)
        /\ \A i \in RowsOf(ms, t) : ms2[i].oid = ms[i].oid
    BY DEF SameRows, Told
  <2>6. Tells(ts2, ms2, t, x)
    BY <2>1, <2>2, <2>5 DEF Tells
  <2> QED BY <2>4, <2>6
<1>3. ASSUME x.prog = "detect" PROVE DetectOK(ts2, sv2, x)
  <2>1. DetectOK(ts, sv, x)
    BY <1>3 DEF TaskOK
  <2> HIDE DEF x
  <2>2. ASSUME NEW u \in DOMAIN ts, ts[u].out.val # Pending
        PROVE  u \in DOMAIN ts2 /\ ts2[u].prog = ts[u].prog /\ ts2[u].out = ts[u].out
    BY <2>2 DEF Keeps
  <2>3. Nothing # Pending
    BY ValuesApart
  <2>4. (\E u \in DOMAIN ts : ts[u].prog = "family" /\ ts[u].out.val = Nothing)
           => \E u \in DOMAIN ts2 : ts2[u].prog = "family" /\ ts2[u].out.val = Nothing
    BY <2>2, <2>3
  <2>5. ASSUME x.at = "started", x.got = ts[x.walk].out, x.got.val # Pending
        PROVE  ts2[x.walk].out = ts[x.walk].out
    BY <2>1, <2>2, <2>5 DEF DetectOK, IsA
  <2> QED BY <1>0, <2>1, <2>4, <2>5 DEF DetectOK
<1>4. ASSUME x.prog = "family" PROVE FamilyOK(sv2, x)
  <2>1. FamilyOK(sv, x)
    BY <1>4 DEF TaskOK
  <2> HIDE DEF x
  <2> QED BY <1>0, <2>1 DEF FamilyOK
<1>5. x.prog # "family" => x.walk <= Len(ts2)
  <2>1. x.prog # "family" => x.walk <= Len(ts)
    BY DEF TaskOK
  <2>2. x.walk \in Nat
    BY DEF TaskType
  <2> QED BY <2>1, <2>2 DEF Keeps
<1>6. x.at = "finished" <=> x.out.val # Pending
  BY DEF TaskOK
<1> QED BY <1>1, <1>2, <1>3, <1>4, <1>5, <1>6 DEF TaskOK

\* Task t has become x.
Becomes(ts, t, x) ==
    /\ x \in TaskType /\ x.prog = ts[t].prog /\ x.base = ts[t].base
    /\ x.prog = "walk" => x.from = ts[t].from

LEMMA PutKeeps ==
    ASSUME NEW ts \in Seq(TaskType), NEW t \in DOMAIN ts, NEW x, Becomes(ts, t, x),
           ts[t].out.val = Pending
    PROVE  Keeps(ts, Put(ts, t, x)) /\ Put(ts, t, x) \in Seq(TaskType)
<1>1. /\ Put(ts, t, x) \in Seq(TaskType) /\ DOMAIN Put(ts, t, x) = DOMAIN ts
      /\ Len(Put(ts, t, x)) = Len(ts)
      /\ Put(ts, t, x)[t] = x
      /\ \A u \in DOMAIN ts : u # t => Put(ts, t, x)[u] = ts[u]
  BY PutIs DEF Becomes
<1>2. Len(ts) \in Nat
  OBVIOUS
<1> QED BY <1>1, <1>2 DEF Keeps, Becomes

LEMMA StoryMoves ==
    ASSUME NEW ts, NEW sv, NEW ms, Story(ts, sv, ms),
           NEW t \in DOMAIN ts, NEW x, Becomes(ts, t, x), ts[t].out.val = Pending,
           NEW sv2 \in Seq(CallType), Answered(sv2), Holds(sv, sv2),
           NEW ms2 \in Seq(RowType), Owned(ts, ms2),
           \A u \in DOMAIN ts : u # t => SameRows(ms, ms2, u),
           x.prog = "detect" /\ x.at \in {"start", "got"} => ts[t].at \in {"start", "got"},
           x.prog = "family" => StartedSoFar(x.walk) = StartedSoFar(ts[t].walk),
           TaskOK(Put(ts, t, x), sv2, ms2, t)
    PROVE  Story(Put(ts, t, x), sv2, ms2)
<1> DEFINE ts2 == Put(ts, t, x)
<1>1. /\ ts \in Seq(TaskType) /\ x \in TaskType
  BY DEF Story, Typed, Becomes
<1>2. /\ ts2 \in Seq(TaskType) /\ DOMAIN ts2 = DOMAIN ts
      /\ Len(ts2) = Len(ts) /\ ts2[t] = x
      /\ \A u \in DOMAIN ts : u # t => ts2[u] = ts[u]
      /\ \A u \in DOMAIN ts : ts[u] \in TaskType
  <2>1. \A u \in DOMAIN ts : ts[u] \in TaskType
    BY <1>1
  <2> QED BY <1>1, <2>1, PutIs
<1>3. Keeps(ts, ts2)
  BY <1>1, PutKeeps
<1> HIDE DEF ts2
<1>4. Locals(ts2, sv2, ms2)
  <2> SUFFICES ASSUME NEW u \in DOMAIN ts, u # t PROVE TaskOK(ts2, sv2, ms2, u)
    BY <1>2 DEF Locals, ts2
  <2>1. TaskOK(ts, sv, ms, u) /\ ts2[u] = ts[u] /\ SameRows(ms, ms2, u) /\ ts[u] \in TaskType
    BY <1>2 DEF Story, Locals
  <2> QED BY <1>3, <2>1, Stays
<1>5. \A u \in DOMAIN ts : ts2[u].prog = ts[u].prog /\ ts2[u].base = ts[u].base
  BY <1>2 DEF Becomes
<1>6. TablesOf(ts2) = TablesOf(ts)
  BY <1>2, <1>5 DEF TablesOf
<1>7. {ts2[u].base : u \in TablesOf(ts)} = {ts[u].base : u \in TablesOf(ts)}
  BY <1>5 DEF TablesOf
<1>8. ASSUME NEW u \in DOMAIN ts, ts[u].prog = "family"
      PROVE  StartedSoFar(ts2[u].walk) = StartedSoFar(ts[u].walk)
  BY <1>2, <1>8 DEF Becomes
<1>9. ASSUME NEW u \in DOMAIN ts, ts2[u].prog = "detect", ts2[u].at \in {"start", "got"}
      PROVE  ts[u].prog = "detect" /\ ts[u].at \in {"start", "got"}
  BY <1>2, <1>5, <1>9
<1>a. /\ \A u \in DOMAIN ts : ts[u].prog = "detect" <=> u = 1
      /\ \A u \in DOMAIN ts : ts[u].prog = "detect" /\ ts[u].at \in {"start", "got"} => Len(ts) = 1
      /\ \A w, u \in DOMAIN ts : ts[w].prog = "family" /\ ts[u].prog = "family" => w = u
      /\ TablesOf(ts) # {} => \E u \in DOMAIN ts : ts[u].prog = "family"
      /\ \A w, u \in TablesOf(ts) : ts[w].base = ts[u].base => w = u
      /\ TablesOf(ts) \subseteq DOMAIN ts
  BY DEF Story, Globals, TablesOf
<1>b. ASSUME NEW u \in DOMAIN ts, ts2[u].prog = "family"
      PROVE  {ts2[w].base : w \in TablesOf(ts2)} = StartedSoFar(ts2[u].walk)
  <2>1. ts[u].prog = "family"
    BY <1>5, <1>b
  <2>2. {ts[w].base : w \in TablesOf(ts)} = StartedSoFar(ts[u].walk)
    BY <2>1 DEF Story, Globals
  <2> QED BY <1>6, <1>7, <1>8, <2>1, <2>2
<1>c. Globals(ts2)
  BY <1>2, <1>5, <1>6, <1>9, <1>a, <1>b, ZenonT(30) DEF Globals
<1>d. Owned(ts2, ms2)
  BY <1>6 DEF Owned
<1> QED BY <1>2, <1>4, <1>c, <1>d DEF Story, Typed, ts2

\* Task t has become x and made y.
LEMMA StoryMakes ==
    ASSUME NEW ts, NEW sv, NEW ms, Story(ts, sv, ms),
           NEW t \in DOMAIN ts, NEW x, Becomes(ts, t, x), ts[t].out.val = Pending,
           NEW y \in TaskType, NEW n, n = Len(ts) + 1, NEW ts2, ts2 = Append(Put(ts, t, x), y),
           Globals(ts2), TaskOK(ts2, sv, ms, t), TaskOK(ts2, sv, ms, n)
    PROVE  Story(ts2, sv, ms)
<1> DEFINE ts1 == Put(ts, t, x)
<1>1. /\ ts \in Seq(TaskType) /\ x \in TaskType
  BY DEF Story, Typed, Becomes
<1>2. /\ ts1 \in Seq(TaskType) /\ DOMAIN ts1 = DOMAIN ts
      /\ Len(ts1) = Len(ts) /\ ts1[t] = x
      /\ \A u \in DOMAIN ts : u # t => ts1[u] = ts[u]
      /\ \A u \in DOMAIN ts : ts[u] \in TaskType
  <2>1. \A u \in DOMAIN ts : ts[u] \in TaskType
    BY <1>1
  <2> QED BY <1>1, <2>1, PutIs
<1>3. Keeps(ts, ts1)
  BY <1>1, PutKeeps
<1> HIDE DEF ts1
<1>4. /\ ts2 \in Seq(TaskType) /\ Len(ts2) = Len(ts) + 1 /\ Len(ts) \in Nat
      /\ DOMAIN ts2 = DOMAIN ts \cup {n}
      /\ \A u \in DOMAIN ts : ts2[u] = ts1[u]
  BY <1>1, <1>2, Appended DEF ts1
<1>5. Keeps(ts, ts2)
  BY <1>2, <1>3, <1>4 DEF Keeps
<1>6. Locals(ts2, sv, ms)
  <2> SUFFICES ASSUME NEW u \in DOMAIN ts, u # t PROVE TaskOK(ts2, sv, ms, u)
    BY <1>4 DEF Locals
  <2>1. TaskOK(ts, sv, ms, u) /\ ts2[u] = ts[u] /\ ts[u] \in TaskType
    BY <1>2, <1>4 DEF Story, Locals
  <2>2. SameRows(ms, ms, u) /\ Holds(sv, sv)
    BY DEF SameRows, Holds
  <2> QED BY <1>5, <2>1, <2>2, Stays
<1>7. Owned(ts2, ms)
  BY <1>4, <1>5 DEF Story, Owned, TablesOf, Keeps
<1> QED BY <1>4, <1>6, <1>7 DEF Story, Typed

\* Starting a walk concerns nobody but the walker.
LEMMA WalksAreLocal ==
    ASSUME NEW ts, NEW sv, NEW ms, Story(ts, sv, ms),
           NEW t \in DOMAIN ts, NEW x, Becomes(ts, t, x), x.prog \in {"walk", "table"},
           NEW y \in TaskType, y.prog = "walk", NEW ts2, ts2 = Append(Put(ts, t, x), y)
    PROVE  Globals(ts2)
<1> DEFINE ts1 == Put(ts, t, x)
           n   == Len(ts) + 1
<1>1. /\ ts \in Seq(TaskType) /\ x \in TaskType
  BY DEF Story, Typed, Becomes
<1>2. /\ ts1 \in Seq(TaskType) /\ DOMAIN ts1 = DOMAIN ts
      /\ Len(ts1) = Len(ts) /\ ts1[t] = x
      /\ \A u \in DOMAIN ts : u # t => ts1[u] = ts[u]
  BY <1>1, PutIs
<1>3. /\ Len(ts) \in Nat /\ t \in 1 .. Len(ts) /\ DOMAIN ts = 1 .. Len(ts)
  BY <1>1
<1> HIDE DEF ts1
<1>4. /\ ts2 \in Seq(TaskType) /\ Len(ts2) = Len(ts) + 1
      /\ DOMAIN ts2 = DOMAIN ts \cup {n} /\ ts2[n] = y /\ n \notin DOMAIN ts
      /\ \A u \in DOMAIN ts : ts2[u] = ts1[u]
  BY <1>2, <1>3, Appended DEF ts1
<1>5. /\ \A u \in DOMAIN ts : ts2[u].prog = ts[u].prog /\ ts2[u].base = ts[u].base
      /\ \A u \in DOMAIN ts : ts[u].prog \notin {"walk", "table"} => ts2[u] = ts[u]
  BY <1>2, <1>4 DEF Becomes
<1>6. TablesOf(ts2) = TablesOf(ts) /\ TablesOf(ts) \subseteq DOMAIN ts
  BY <1>4, <1>5 DEF TablesOf
<1>7. {ts2[u].base : u \in TablesOf(ts)} = {ts[u].base : u \in TablesOf(ts)}
  BY <1>5, <1>6, ZenonT(30)
<1>8. /\ \A u \in DOMAIN ts : ts[u].prog = "detect" <=> u = 1
      /\ \A u \in DOMAIN ts : ts[u].prog = "detect" /\ ts[u].at \in {"start", "got"} => Len(ts) = 1
      /\ \A w, u \in DOMAIN ts : ts[w].prog = "family" /\ ts[u].prog = "family" => w = u
      /\ TablesOf(ts) # {} => \E u \in DOMAIN ts : ts[u].prog = "family"
      /\ \A u \in DOMAIN ts : ts[u].prog = "family" =>
            {ts[w].base : w \in TablesOf(ts)} = StartedSoFar(ts[u].walk)
      /\ \A w, u \in TablesOf(ts) : ts[w].base = ts[u].base => w = u
  BY DEF Story, Globals
<1>9. n # 1 /\ 1 \in DOMAIN ts
  BY <1>3
<1>a. ~ (Len(ts) = 1)
  <2>1. ts[1].prog = "detect" /\ ts[t].prog # "detect"
    BY <1>8, <1>9 DEF Becomes
  <2>2. t # 1
    BY <2>1
  <2> QED BY <1>3, <2>2
<1>b. \A u \in DOMAIN ts2 : ts2[u].prog = "detect" <=> u = 1
  BY <1>4, <1>5, <1>8, <1>9
<1>c. \A u \in DOMAIN ts2 : ts2[u].prog = "detect" /\ ts2[u].at \in {"start", "got"} => Len(ts2) = 1
  <2> SUFFICES ASSUME NEW u \in DOMAIN ts2, ts2[u].prog = "detect", ts2[u].at \in {"start", "got"}
               PROVE  FALSE
    OBVIOUS
  <2>1. u \in DOMAIN ts
    BY <1>4
  <2>2. ts2[u] = ts[u]
    BY <1>5, <2>1
  <2> QED BY <1>8, <1>a, <2>1, <2>2
<1>d. \A w, u \in DOMAIN ts2 : ts2[w].prog = "family" /\ ts2[u].prog = "family" => w = u
  BY <1>4, <1>5, <1>8
<1>e. TablesOf(ts2) # {} => \E u \in DOMAIN ts2 : ts2[u].prog = "family"
  BY <1>4, <1>5, <1>6, <1>8
<1>f. \A u \in DOMAIN ts2 : ts2[u].prog = "family" =>
          {ts2[w].base : w \in TablesOf(ts2)} = StartedSoFar(ts2[u].walk)
  <2> SUFFICES ASSUME NEW u \in DOMAIN ts2, ts2[u].prog = "family"
               PROVE  {ts2[w].base : w \in TablesOf(ts2)} = StartedSoFar(ts2[u].walk)
    OBVIOUS
  <2>1. u \in DOMAIN ts
    BY <1>4
  <2>2. ts2[u] = ts[u]
    BY <1>5, <2>1
  <2>3. {ts[w].base : w \in TablesOf(ts)} = StartedSoFar(ts[u].walk)
    BY <1>8, <2>1, <2>2
  <2> QED BY <1>6, <1>7, <2>2, <2>3
<1>g. \A w, u \in TablesOf(ts2) : ts2[w].base = ts2[u].base => w = u
  BY <1>5, <1>6, <1>8, ZenonT(30)
<1> QED BY <1>b, <1>c, <1>d, <1>e, <1>f, <1>g DEF Globals

-----------------------------------------------------------------------------
(* The moves on both: who runs and waits, and what is known.                 *)

Inner(ts, sv, cb, st, pd, al, ms) ==
    Core(ts, sv, cb, st, pd, al) /\ Story(ts, sv, ms)

LEMMA Runs ==
    ASSUME NEW ts, NEW sv, NEW cb, NEW st, NEW pd, NEW al, Core(ts, sv, cb, st, pd, al),
           NEW t, st # << >>, Head(st) = RunF(t)
    PROVE  t \in DOMAIN ts /\ ts[t].wait = << >> /\ ts[t].out.val = Pending
<1>1. st \in Seq(FrameType)
  BY DEF Core, Shaped
<1>2. On(st, RunF(t))
  BY <1>1, OnPopped
<1>3. t \in DOMAIN ts
  BY <1>2, Frames DEF Core, Framed
<1> QED BY <1>2, <1>3 DEF Core, Scheduled

LEMMA PutOthers ==
    ASSUME NEW ts \in Seq(TaskType), NEW t \in DOMAIN ts, NEW x, Becomes(ts, t, x)
    PROVE  /\ Others(ts, Put(ts, t, x), t) /\ Put(ts, t, x)[t] = x
           /\ DOMAIN Put(ts, t, x) = DOMAIN ts
           /\ \A u \in DOMAIN ts : u # t => Put(ts, t, x)[u] = ts[u]
<1>1. x \in TaskType
  BY DEF Becomes
<1>2. /\ Put(ts, t, x)[t] = x /\ DOMAIN Put(ts, t, x) = DOMAIN ts
      /\ \A u \in DOMAIN ts : u # t => Put(ts, t, x)[u] = ts[u]
  BY <1>1, PutIs
<1> QED BY <1>2 DEF Becomes, Others

\* Nothing is completed by changing a task but not its outcome.
LEMMA PutGrows ==
    ASSUME NEW ts \in Seq(TaskType), NEW t \in DOMAIN ts, NEW x, Becomes(ts, t, x),
           x.out = ts[t].out, NEW sv, NEW sv2, DOMAIN sv2 \subseteq Nat,
           DOMAIN sv \subseteq DOMAIN sv2, \A i \in DOMAIN sv : sv2[i] = sv[i]
    PROVE  Grows(ts, sv, Put(ts, t, x), sv2)
<1> DEFINE ts2 == Put(ts, t, x)
<1>1. DOMAIN ts2 = DOMAIN ts /\ \A u \in DOMAIN ts : ts2[u].out = ts[u].out
  <2>1. /\ ts2[t] = x /\ DOMAIN ts2 = DOMAIN ts
        /\ \A u \in DOMAIN ts : u # t => ts2[u] = ts[u]
    BY PutOthers
  <2> HIDE DEF ts2
  <2> QED BY <2>1
<1> HIDE DEF ts2
<1>2. Futures(ts, sv) \subseteq Futures(ts2, sv2)
  BY <1>1 DEF Futures
<1>3. ASSUME NEW u \in DOMAIN ts PROVE Done(ts2, sv2, Task(u)) <=> Done(ts, sv, Task(u))
  BY <1>1, FuturesAre DEF Done
<1>4. ASSUME NEW i \in DOMAIN sv PROVE Done(ts2, sv2, Call(i)) <=> Done(ts, sv, Call(i))
  BY FuturesAre DEF Done
<1> QED BY <1>2, <1>3, <1>4 DEF Grows, Futures, ts2

NextCall(sv) == Len(sv) + 1

\* What a call may be answered at once.
Replies(kind, o)  == Engine!Answers(kind, o) \cup {Engine!Answer(o, Pending)}
Asked(kind, o, a) == [kind |-> kind, oid |-> o, ans |-> a]
Ask(sv, kind, o, a) == Append(sv, Asked(kind, o, a))

\* sv2 has one more call, n.
Calls(sv, sv2, n) ==
    /\ sv2 \in Seq(CallType) /\ Answered(sv2) /\ Holds(sv, sv2)
    /\ n \in DOMAIN sv2 /\ DOMAIN sv2 \subseteq Nat /\ DOMAIN sv \subseteq DOMAIN sv2
    /\ \A i \in DOMAIN sv : sv2[i] = sv[i]

LEMMA AskedIs ==
    ASSUME NEW sv \in Seq(CallType), Answered(sv), NEW kind \in {"get", "next"}, NEW o \in Oid,
           NEW a \in Replies(kind, o),
           NEW n, n = NextCall(sv), NEW sv2, sv2 = Ask(sv, kind, o, a)
    PROVE  /\ Calls(sv, sv2, n) /\ sv2[n].ans = a
           /\ AsksFor(sv2, Call(n), kind, o) /\ IsCall(sv2, Call(n))
<1>1. a \in [oid : Oid, val : Vals]
  BY AnswersAre DEF Engine!Answer, Vals, Replies
<1>2. Asked(kind, o, a) \in CallType
  BY <1>1 DEF Asked, CallType
<1>3. /\ sv2 \in Seq(CallType) /\ DOMAIN sv2 = DOMAIN sv \cup {n}
      /\ sv2[n] = Asked(kind, o, a) /\ \A i \in DOMAIN sv : sv2[i] = sv[i]
      /\ n \in Nat \ {0} /\ DOMAIN sv \subseteq Nat \ {0} /\ DOMAIN sv2 \subseteq Nat
  <2> DEFINE c == Asked(kind, o, a)
  <2>1. c \in CallType
    BY <1>2
  <2> HIDE DEF c
  <2>2. /\ Append(sv, c) \in Seq(CallType) /\ DOMAIN Append(sv, c) = DOMAIN sv \cup {Len(sv) + 1}
        /\ Append(sv, c)[Len(sv) + 1] = c /\ \A i \in DOMAIN sv : Append(sv, c)[i] = sv[i]
        /\ Len(sv) + 1 \in Nat \ {0} /\ DOMAIN sv \subseteq Nat \ {0}
    BY <2>1, Appended
  <2>3. DOMAIN Append(sv, c) \subseteq Nat
    BY <2>2
  <2> QED BY <2>2, <2>3 DEF c, Ask, NextCall
<1>4. sv2[n].kind = kind /\ sv2[n].oid = o /\ sv2[n].ans = a
  BY <1>3 DEF Asked
<1>5. Answered(sv2)
  <2>1. a.val # Pending => a \in Engine!Answers(kind, o)
    BY DEF Engine!Answer, Replies
  <2> QED BY <1>3, <1>4, <2>1 DEF Answered
<1>6. Holds(sv, sv2)
  BY <1>3 DEF Holds
<1>7. AsksFor(sv2, Call(n), kind, o) /\ IsCall(sv2, Call(n))
  BY <1>3, <1>4 DEF AsksFor, IsCall
<1> QED BY <1>3, <1>4, <1>5, <1>6, <1>7 DEF Calls

\* What may change of the tasks that others count on.
Discreet(ts, t, x) ==
    /\ x.prog = "detect" /\ x.at \in {"start", "got"} => ts[t].at \in {"start", "got"}
    /\ x.prog = "family" => StartedSoFar(x.walk) = StartedSoFar(ts[t].walk)

\* A generator goes on, and may have reported a row.
LEMMA GoesOnMove ==
    ASSUME NEW ts, NEW sv, NEW cb, NEW st, NEW pd, NEW al, NEW ms,
           Inner(ts, sv, cb, st, pd, al, ms), NEW t, st # << >>, Head(st) = RunF(t),
           NEW x, Becomes(ts, t, x), x.out = ts[t].out, x.wait = ts[t].wait, Discreet(ts, t, x),
           NEW sv2 \in Seq(CallType), Answered(sv2), Holds(sv, sv2), DOMAIN sv2 \subseteq Nat,
           DOMAIN sv \subseteq DOMAIN sv2, \A i \in DOMAIN sv : sv2[i] = sv[i],
           NEW ms2 \in Seq(RowType), Owned(ts, ms2),
           \A u \in DOMAIN ts : u # t => SameRows(ms, ms2, u),
           TaskOK(Put(ts, t, x), sv2, ms2, t)
    PROVE  Inner(Put(ts, t, x), sv2, cb, st, pd, al, ms2)
<1>1. /\ Core(ts, sv, cb, st, pd, al) /\ Story(ts, sv, ms) /\ ts \in Seq(TaskType)
  BY DEF Inner, Story, Typed
<1>2. t \in DOMAIN ts /\ ts[t].out.val = Pending
  BY <1>1, Runs
<1>3. Story(Put(ts, t, x), sv2, ms2)
  BY <1>1, <1>2, StoryMoves DEF Discreet
<1>4. Others(ts, Put(ts, t, x), t) /\ Put(ts, t, x)[t] = x /\ Grows(ts, sv, Put(ts, t, x), sv2)
  BY <1>1, <1>2, PutOthers, PutGrows
<1>5. Core(Put(ts, t, x), sv2, cb, st, pd, al)
  BY <1>1, <1>2, <1>4, GoesOn
<1> QED BY <1>3, <1>5 DEF Inner

\* A generator yields the answer of a call it makes.
LEMMA AskMove ==
    ASSUME NEW ts, NEW sv, NEW cb, NEW st, NEW pd, NEW al, NEW ms,
           Inner(ts, sv, cb, st, pd, al, ms), NEW t, st # << >>, Head(st) = RunF(t),
           NEW n, NEW sv2, Calls(sv, sv2, n),
           NEW x, Becomes(ts, t, x), x.out = ts[t].out, x.wait = Call(n), Discreet(ts, t, x),
           TaskOK(Put(ts, t, x), sv2, ms, t),
           NEW st2, st2 = (IF sv2[n].ans.val # Pending THEN << CbF(Call(n)) >> ELSE << >>) \o Tail(st)
    PROVE  Inner(Put(ts, t, x), sv2, With(cb, Call(n), Append(Queue(cb, Call(n)), t)),
                 st2, pd, al, ms)
<1>1. /\ Core(ts, sv, cb, st, pd, al) /\ Story(ts, sv, ms) /\ ts \in Seq(TaskType)
      /\ sv \in Seq(CallType) /\ Answered(sv) /\ ms \in Seq(RowType) /\ Owned(ts, ms)
  BY DEF Inner, Story, Typed
<1>2. t \in DOMAIN ts /\ ts[t].out.val = Pending
  BY <1>1, Runs
<1>3. /\ sv2 \in Seq(CallType) /\ Answered(sv2) /\ Holds(sv, sv2)
      /\ n \in DOMAIN sv2
      /\ DOMAIN sv2 \subseteq Nat /\ DOMAIN sv \subseteq DOMAIN sv2
      /\ \A i \in DOMAIN sv : sv2[i] = sv[i]
  BY DEF Calls
<1>4. \A u \in DOMAIN ts : u # t => SameRows(ms, ms, u)
  BY DEF SameRows
<1>5. Story(Put(ts, t, x), sv2, ms)
  BY <1>1, <1>2, <1>3, <1>4, StoryMoves DEF Discreet
<1>6. Others(ts, Put(ts, t, x), t) /\ Put(ts, t, x)[t] = x /\ Grows(ts, sv, Put(ts, t, x), sv2)
  <2>1. Others(ts, Put(ts, t, x), t) /\ Put(ts, t, x)[t] = x
    BY <1>1, <1>2, PutOthers
  <2>2. Grows(ts, sv, Put(ts, t, x), sv2)
    BY <1>1, <1>2, <1>3, PutGrows
  <2> QED BY <2>1, <2>2
<1>7. Call(n) \in Futures(Put(ts, t, x), sv2) /\ (Done(Put(ts, t, x), sv2, Call(n)) <=> sv2[n].ans.val # Pending)
  BY <1>3, FuturesAre DEF Futures, Done
<1>8. Core(Put(ts, t, x), sv2, With(cb, Call(n), Append(Queue(cb, Call(n)), t)), st2, pd, al)
  BY <1>1, <1>2, <1>6, <1>7, Yields
<1> QED BY <1>5, <1>8 DEF Inner

\* A generator yields a future there is.
LEMMA AwaitMove ==
    ASSUME NEW ts, NEW sv, NEW cb, NEW st, NEW pd, NEW al, NEW ms,
           Inner(ts, sv, cb, st, pd, al, ms), NEW t, st # << >>, Head(st) = RunF(t),
           NEW f \in Futures(ts, sv),
           NEW x, Becomes(ts, t, x), x.out = ts[t].out, x.wait = f, Discreet(ts, t, x),
           TaskOK(Put(ts, t, x), sv, ms, t),
           NEW st2, st2 = (IF Done(ts, sv, f) THEN << CbF(f) >> ELSE << >>) \o Tail(st)
    PROVE  Inner(Put(ts, t, x), sv, With(cb, f, Append(Queue(cb, f), t)), st2, pd, al, ms)
<1>1. /\ Core(ts, sv, cb, st, pd, al) /\ Story(ts, sv, ms) /\ ts \in Seq(TaskType)
      /\ sv \in Seq(CallType) /\ Answered(sv) /\ ms \in Seq(RowType) /\ Owned(ts, ms)
      /\ DOMAIN sv \subseteq Nat
  BY DEF Inner, Story, Typed, Core, Shaped
<1>2. t \in DOMAIN ts /\ ts[t].out.val = Pending
  BY <1>1, Runs
<1>3. (\A u \in DOMAIN ts : u # t => SameRows(ms, ms, u)) /\ Holds(sv, sv)
  BY DEF SameRows, Holds
<1>4. Story(Put(ts, t, x), sv, ms)
  BY <1>1, <1>2, <1>3, StoryMoves DEF Discreet
<1>5. Others(ts, Put(ts, t, x), t) /\ Put(ts, t, x)[t] = x /\ Grows(ts, sv, Put(ts, t, x), sv)
  BY <1>1, <1>2, PutOthers, PutGrows
<1>6. f \in Futures(Put(ts, t, x), sv) /\ (Done(Put(ts, t, x), sv, f) <=> Done(ts, sv, f))
  BY <1>5 DEF Grows
<1>7. Core(Put(ts, t, x), sv, With(cb, f, Append(Queue(cb, f), t)), st2, pd, al)
  BY <1>1, <1>2, <1>5, <1>6, Yields
<1> QED BY <1>4, <1>7 DEF Inner

\* A generator ends.
LEMMA FinishMove ==
    ASSUME NEW ts, NEW sv, NEW cb, NEW st, NEW pd, NEW al, NEW ms,
           Inner(ts, sv, cb, st, pd, al, ms), NEW t, st # << >>, Head(st) = RunF(t),
           NEW x, Becomes(ts, t, x), x.out.val # Pending, x.wait = ts[t].wait, Discreet(ts, t, x),
           TaskOK(Put(ts, t, x), sv, ms, t)
    PROVE  Inner(Put(ts, t, x), sv, cb, << CbF(Task(t)) >> \o Tail(st), pd, al, ms)
<1>1. /\ Core(ts, sv, cb, st, pd, al) /\ Story(ts, sv, ms) /\ ts \in Seq(TaskType)
      /\ sv \in Seq(CallType) /\ Answered(sv) /\ ms \in Seq(RowType) /\ Owned(ts, ms)
  BY DEF Inner, Story, Typed
<1>2. t \in DOMAIN ts /\ ts[t].out.val = Pending
  BY <1>1, Runs
<1>3. (\A u \in DOMAIN ts : u # t => SameRows(ms, ms, u)) /\ Holds(sv, sv)
  BY DEF SameRows, Holds
<1>4. Story(Put(ts, t, x), sv, ms)
  BY <1>1, <1>2, <1>3, StoryMoves DEF Discreet
<1>5. Others(ts, Put(ts, t, x), t) /\ Put(ts, t, x)[t] = x
  BY <1>1, <1>2, PutOthers
<1>6. Core(Put(ts, t, x), sv, cb, << CbF(Task(t)) >> \o Tail(st), pd, al)
  BY <1>1, <1>2, <1>5, EndsMove
<1> QED BY <1>4, <1>6 DEF Inner

\* A generator calls a coroutine or starts a plugin.
LEMMA InvokeMove ==
    ASSUME NEW ts, NEW sv, NEW cb, NEW st, NEW pd, NEW al, NEW ms,
           Inner(ts, sv, cb, st, pd, al, ms), NEW t, st # << >>, Head(st) = RunF(t),
           NEW x, Becomes(ts, t, x), x.out = ts[t].out, x.wait = ts[t].wait,
           NEW y \in TaskType, y.wait = << >>, y.out.val = Pending,
           NEW n, n = Len(ts) + 1, NEW ts2, ts2 = Append(Put(ts, t, x), y),
           Globals(ts2), TaskOK(ts2, sv, ms, t), TaskOK(ts2, sv, ms, n),
           NEW st2, st2 = << RunF(n) >> \o ((IF y.prog \in {"detect", "table"} THEN << RegF(n) >>
                                                                              ELSE << >>) \o st)
    PROVE  Inner(ts2, sv, cb, st2, pd, al, ms)
<1>1. /\ Core(ts, sv, cb, st, pd, al) /\ Story(ts, sv, ms) /\ ts \in Seq(TaskType)
      /\ DOMAIN sv \subseteq Nat
  BY DEF Inner, Story, Typed, Core, Shaped
<1>2. t \in DOMAIN ts /\ ts[t].out.val = Pending
  BY <1>1, Runs
<1>3. Story(ts2, sv, ms)
  BY <1>1, <1>2, StoryMakes
<1>4. Others(ts, Put(ts, t, x), t) /\ Put(ts, t, x)[t] = x /\ Grows(ts, sv, Put(ts, t, x), sv)
  BY <1>1, <1>2, PutOthers, PutGrows
<1>5. Core(Put(ts, t, x), sv, cb, st, pd, al)
  BY <1>1, <1>2, <1>4, GoesOn
<1>6. Put(ts, t, x) \in Seq(TaskType) /\ Len(Put(ts, t, x)) = Len(ts)
  BY <1>1, <1>2, PutIs DEF Becomes
<1> DEFINE ts1 == Put(ts, t, x)
<1> HIDE DEF ts1
<1>7. /\ DOMAIN ts2 = DOMAIN ts1 \cup {n} /\ ts2[n] = y /\ n \notin DOMAIN ts1
      /\ n \in Nat \ {0} /\ \A u \in DOMAIN ts1 : ts2[u] = ts1[u]
  BY <1>6, Appended DEF ts1
<1>8. Core(ts1, sv, cb, st, pd, al) /\ (IsPlugin(ts2, n) <=> y.prog \in {"detect", "table"})
  BY <1>5, <1>7 DEF ts1, IsPlugin
<1>9. Core(ts2, sv, cb, st2, pd, al)
  BY <1>7, <1>8, Creates
<1> QED BY <1>3, <1>9 DEF Inner

\* Somebody is given the outcome of what it waits for.
Result(ts, sv, f) == IF f[1] = "task" THEN ts[f[2]].out
                     ELSE Answer(sv[f[2]].ans.oid, sv[f[2]].ans.val, 0)

LEMMA StoryAnswers ==
    ASSUME NEW ts, NEW sv, NEW ms, Story(ts, sv, ms),
           NEW sv2 \in Seq(CallType), Answered(sv2), Holds(sv, sv2)
    PROVE  Story(ts, sv2, ms)
<1>1. ts \in Seq(TaskType) /\ \A u \in DOMAIN ts : ts[u] \in TaskType
  <2>1. ts \in Seq(TaskType)
    BY DEF Story, Typed
  <2> QED BY <2>1
<1>2. Keeps(ts, ts)
  BY <1>1 DEF Keeps
<1>3. Locals(ts, sv2, ms)
  <2> SUFFICES ASSUME NEW u \in DOMAIN ts PROVE TaskOK(ts, sv2, ms, u)
    BY DEF Locals
  <2>1. TaskOK(ts, sv, ms, u) /\ SameRows(ms, ms, u)
    BY DEF Story, Locals, SameRows
  <2> QED BY <1>1, <1>2, <2>1, Stays
<1> QED BY <1>3 DEF Story, Typed

LEMMA ResultOfCall ==
    ASSUME NEW ts, NEW sv \in Seq(CallType), Answered(sv), NEW f, Done(ts, sv, f)
    PROVE  /\ \A o \in Oid : AsksFor(sv, f, "next", o) =>
                 \/ Result(ts, sv, f).val = BackendError
                 \/ /\ Result(ts, sv, f).oid = AgentNext(o).oid
                    /\ Result(ts, sv, f).val = AgentNext(o).val
           /\ AsksFor(sv, f, "get", sysObjectID) =>
                 Result(ts, sv, f).val \in Errors \cup {Device}
<1>1. ASSUME NEW i \in DOMAIN sv, f = Call(i)
      PROVE  /\ Result(ts, sv, f).oid = sv[i].ans.oid /\ Result(ts, sv, f).val = sv[i].ans.val
             /\ sv[i].ans \in Engine!Answers(sv[i].kind, sv[i].oid)
  <2>1. sv[i].ans.val # Pending
    BY <1>1, FuturesAre DEF Done
  <2> QED BY <1>1, <2>1, FuturesAre DEF Result, Answer, Answered
<1>2. ASSUME NEW o \in Oid, AsksFor(sv, f, "next", o)
      PROVE  \/ Result(ts, sv, f).val = BackendError
             \/ /\ Result(ts, sv, f).oid = AgentNext(o).oid
                /\ Result(ts, sv, f).val = AgentNext(o).val
  <2>1. PICK i \in DOMAIN sv : f = Call(i) /\ sv[i].kind = "next" /\ sv[i].oid = o
    BY <1>2 DEF AsksFor
  <2> DEFINE a == sv[i].ans
  <2>2. a \in Engine!Answers("next", o)
    BY <1>1, <2>1
  <2> HIDE DEF a
  <2>3. a.val = BackendError \/ (a.oid = AgentNext(o).oid /\ a.val = AgentNext(o).val)
    BY <2>2, AnswersAre
  <2> QED BY <1>1, <2>1, <2>3 DEF a
<1>3. ASSUME AsksFor(sv, f, "get", sysObjectID)
      PROVE  Result(ts, sv, f).val \in Errors \cup {Device}
  <2>1. PICK i \in DOMAIN sv : f = Call(i) /\ sv[i].kind = "get" /\ sv[i].oid = sysObjectID
    BY <1>3 DEF AsksFor
  <2> DEFINE a == sv[i].ans
  <2>2. a \in Engine!Answers("get", sysObjectID)
    BY <1>1, <2>1
  <2> HIDE DEF a
  <2>3. a.val \in Errors \cup {Device}
    BY <2>2, SysObject, AnswersAre
  <2> QED BY <1>1, <2>1, <2>3 DEF a
<1> QED BY <1>2, <1>3

LEMMA ResultIs ==
    ASSUME NEW ts, NEW sv, NEW ms, Typed(ts, sv, ms), Answered(sv),
           NEW f \in Futures(ts, sv), Done(ts, sv, f)
    PROVE  /\ Result(ts, sv, f) \in [oid : Oid, val : Vals, walk : Nat]
           /\ Result(ts, sv, f).val # Pending
           /\ \A w : f = Task(w) => w \in DOMAIN ts /\ Result(ts, sv, f) = ts[w].out
<1>1. ASSUME NEW w \in DOMAIN ts, f = Task(w)
      PROVE  Result(ts, sv, f) = ts[w].out /\ ts[w] \in TaskType /\ ts[w].out.val # Pending
  <2>1. ts[w] \in TaskType
    BY DEF Typed
  <2> QED BY <1>1, <2>1, FuturesAre DEF Result, Done
<1>2. ASSUME NEW i \in DOMAIN sv, f = Call(i)
      PROVE  /\ Result(ts, sv, f) = [oid |-> sv[i].ans.oid, val |-> sv[i].ans.val, walk |-> 0]
             /\ sv[i] \in CallType /\ sv[i].ans.val # Pending
  <2>1. sv[i] \in CallType
    BY DEF Typed
  <2> QED BY <1>2, <2>1, FuturesAre DEF Result, Done, Answer
<1>3. CASE \E w \in DOMAIN ts : f = Task(w)
  <2>1. PICK w \in DOMAIN ts : f = Task(w)
    BY <1>3
  <2>2. \A v : f = Task(v) => v = w
    BY <2>1, FuturesAre
  <2>3. Result(ts, sv, f) = ts[w].out /\ ts[w] \in TaskType /\ ts[w].out.val # Pending
    BY <1>1, <2>1
  <2>4. ts[w].out \in [oid : Oid, val : Vals, walk : Nat]
    BY <2>3 DEF TaskType
  <2> QED BY <2>2, <2>3, <2>4
<1>4. CASE \E i \in DOMAIN sv : f = Call(i)
  <2>1. PICK i \in DOMAIN sv : f = Call(i)
    BY <1>4
  <2>2. /\ Result(ts, sv, f) = [oid |-> sv[i].ans.oid, val |-> sv[i].ans.val, walk |-> 0]
        /\ sv[i] \in CallType /\ sv[i].ans.val # Pending
    BY <1>2, <2>1
  <2>3. \A v : f # Task(v)
    BY <2>1, FuturesAre
  <2> QED BY <2>2, <2>3 DEF CallType
<1> QED BY <1>3, <1>4 DEF Futures

LEMMA ResumeMove ==
    ASSUME NEW ts, NEW sv, NEW cb, NEW st, NEW pd, NEW al, NEW ms,
           Inner(ts, sv, cb, st, pd, al, ms),
           NEW f \in Futures(ts, sv), Queue(cb, f) # << >>, st # << >>, Head(st) = CbF(f),
           NEW t \in DOMAIN ts, Head(Queue(cb, f)) = t,
           NEW x, x = [ts[t] EXCEPT !.got = Result(ts, sv, f), !.wait = << >>]
    PROVE  Inner(Put(ts, t, x), sv, With(cb, f, Tail(Queue(cb, f))), << RunF(t) >> \o st, pd, al, ms)
<1> DEFINE ts2 == Put(ts, t, x)
           y   == ts[t]
           r   == Result(ts, sv, f)
<1>1. /\ Core(ts, sv, cb, st, pd, al) /\ Story(ts, sv, ms) /\ ts \in Seq(TaskType)
      /\ sv \in Seq(CallType) /\ Answered(sv) /\ ms \in Seq(RowType) /\ Owned(ts, ms)
      /\ Typed(ts, sv, ms)
  BY DEF Inner, Story, Typed
<1>2. Done(ts, sv, f)
  <2>1. st \in Seq(FrameType)
    BY <1>1 DEF Core, Shaped
  <2>2. On(st, CbF(f))
    BY <2>1, OnPopped
  <2> QED BY <1>1, <2>2, Frames DEF Core, Framed
<1>3. r \in [oid : Oid, val : Vals, walk : Nat] /\ r.val # Pending
  BY <1>1, <1>2, ResultIs
<1>4. y \in TaskType
  BY <1>1
<1>5. /\ x \in TaskType /\ x.prog = y.prog /\ x.base = y.base /\ x.from = y.from /\ x.at = y.at
      /\ x.walk = y.walk /\ x.asked = y.asked /\ x.wait = << >> /\ x.got = r /\ x.out = y.out
  <2> HIDE DEF y, r
  <2>1. x = [y EXCEPT !.got = r, !.wait = << >>]
    BY DEF y, r
  <2> QED BY <1>3, <1>4, <2>1 DEF TaskType
<1>6. Becomes(ts, t, x)
  BY <1>5 DEF Becomes
<1>7. Others(ts, ts2, t) /\ ts2[t] = x
  BY <1>1, <1>6, PutOthers
<1>8. y.wait = f /\ Core(ts2, sv, With(cb, f, Tail(Queue(cb, f))), << RunF(t) >> \o st, pd, al)
  <2>1. ts2[t].out = ts[t].out /\ ts2[t].wait = << >>
    BY <1>5, <1>7
  <2> HIDE DEF ts2, r
  <2>2. Core(ts, sv, cb, st, pd, al) /\ Others(ts, ts2, t)
    BY <1>1, <1>7
  <2> QED BY <2>1, <2>2, Resumes, SMTT(60)
<1>9. y.out.val = Pending /\ f # << >>
  <2>1. f # << >>
    BY FuturesAre DEF Futures
  <2> QED BY <1>1, <1>8, <2>1 DEF Core, Scheduled
<1>10. Keeps(ts, ts2) /\ Holds(sv, sv) /\ SameRows(ms, ms, t)
  BY <1>1, <1>6, <1>9, PutKeeps DEF Holds, SameRows
<1>11. TaskOK(ts, sv, ms, t)
  BY <1>1 DEF Story, Locals
<1>12. /\ \A i : IsCall(sv, i) => IsCall(sv, i)
       /\ \A p, w : IsA(ts, p, w) => IsA(ts2, p, w)
       /\ \A w, b, o : WalkFrom(ts, w, b, o) => WalkFrom(ts2, w, b, o)
  BY <1>10, StillThere
<1>13. \A w : f = Task(w) => w \in DOMAIN ts /\ r = ts[w].out
  BY <1>1, <1>2, ResultIs
<1>14. \A w : f = Task(w) => ts2[w].out = ts[w].out /\ ts2[w].from = ts[w].from
  BY <1>1, <1>5, <1>6, <1>7, <1>13 DEF Others
<1>15. \A w \in DOMAIN ts : ts2[w].from = ts[w].from
  BY <1>5, <1>7 DEF Others
<1>16. /\ \A o \in Oid : AsksFor(sv, f, "next", o) =>
                r.val = BackendError \/ (r.oid = AgentNext(o).oid /\ r.val = AgentNext(o).val)
       /\ AsksFor(sv, f, "get", sysObjectID) => r.val \in Errors \cup {Device}
  BY <1>1, <1>2, ResultOfCall
<1> HIDE DEF ts2, y, r
<1>17. /\ y.prog = "walk" => WalkOK(ts, sv, y)
       /\ y.prog = "table" => TableOK(ts, sv, y) /\ Tells(ts, ms, t, y)
       /\ y.prog = "detect" => DetectOK(ts, sv, y)
       /\ y.prog = "family" => FamilyOK(sv, y)
       /\ y.prog # "family" => y.walk <= Len(ts)
       /\ y.at = "finished" <=> y.out.val # Pending
  BY <1>11 DEF TaskOK, y
<1>18. ASSUME x.prog = "walk" PROVE WalkOK(ts2, sv, x)
  <2>1. WalkOK(ts, sv, y)
    BY <1>5, <1>17, <1>18
  <2>2. y.at = "got" /\ AsksFor(sv, f, "next", y.from) /\ y.from \in Oid
    BY <1>4, <1>8, <1>9, <2>1 DEF WalkOK, TaskType
  <2>3. Row(x)
    BY <1>5, <1>16, <2>2 DEF Row
  <2>4. y.out.val \notin Value /\ y.out.val # Nothing
    BY <1>9, ValuesApart
  <2> QED BY <1>5, <2>1, <2>2, <2>3, <2>4 DEF WalkOK
<1>19. ASSUME x.prog = "table" PROVE TableOK(ts2, sv, x) /\ Tells(ts2, ms, t, x)
  <2>1. TableOK(ts, sv, y) /\ Tells(ts, ms, t, y)
    BY <1>5, <1>17, <1>19
  <2>2. y.at = "row" => r = ts[y.walk].out /\ ts2[y.walk].out = ts[y.walk].out
    BY <1>8, <1>9, <1>13, <1>14, <2>1 DEF TableOK
  <2>3. y.at \notin {"start", "finished"} =>
           WalkFrom(ts2, y.walk, y.base, ts2[y.walk].from) /\ ts2[y.walk].from = ts[y.walk].from
    BY <1>12, <1>15, <2>1 DEF TableOK, WalkFrom, IsA
  <2>4. TableOK(ts2, sv, x)
    BY <1>3, <1>5, <2>1, <2>2, <2>3 DEF TableOK, Ended
  <2>5. Tells(ts2, ms, t, x)
    BY <1>5, <2>1, <2>3 DEF Tells
  <2> QED BY <2>4, <2>5
<1>20. ASSUME x.prog = "detect" PROVE DetectOK(ts2, sv, x)
  <2>1. DetectOK(ts, sv, y)
    BY <1>5, <1>17, <1>20
  <2>2. y.at = "started" => r = ts[y.walk].out /\ ts2[y.walk].out = ts[y.walk].out
    BY <1>8, <1>9, <1>13, <1>14, <2>1 DEF DetectOK
  <2>3. y.at = "got" => r.val \in Errors \cup {Device}
    BY <1>8, <1>9, <1>16, <2>1, SysObject DEF DetectOK
  <2>4. y.out.val # Nothing
    BY <1>9, ValuesApart
  <2> QED BY <1>3, <1>5, <1>12, <2>1, <2>2, <2>3, <2>4 DEF DetectOK, Ended
<1>21. ASSUME x.prog = "family" PROVE FamilyOK(sv, x)
  <2>1. FamilyOK(sv, y)
    BY <1>5, <1>17, <1>21
  <2>2. y.at = "answered" /\ r.val \in Errors \cup {Device}
    BY <1>8, <1>9, <1>16, <2>1, SysObject DEF FamilyOK
  <2> QED BY <1>5, <2>1, <2>2 DEF FamilyOK, Ended
<1>22. x.prog # "family" => x.walk <= Len(ts2)
  BY <1>4, <1>5, <1>10, <1>17 DEF Keeps, TaskType
<1>23. TaskOK(ts2, sv, ms, t)
  BY <1>5, <1>7, <1>17, <1>18, <1>19, <1>20, <1>21, <1>22 DEF TaskOK
<1>24. /\ x.prog = "detect" /\ x.at \in {"start", "got"} => ts[t].at \in {"start", "got"}
       /\ x.prog = "family" => StartedSoFar(x.walk) = StartedSoFar(ts[t].walk)
       /\ \A u \in DOMAIN ts : u # t => SameRows(ms, ms, u)
       /\ ts[t].out.val = Pending
  BY <1>5, <1>9 DEF y, SameRows
<1>25. Story(ts2, sv, ms)
  BY <1>1, <1>6, <1>10, <1>23, <1>24, StoryMoves DEF ts2
<1> QED BY <1>8, <1>25 DEF Inner, ts2

-----------------------------------------------------------------------------
(* The generators' actions.                                                  *)

Good == Inner(tasks, service, callbacks, stack, pending, alerts, metrics)

LEMMA GoodIs ==
    Good => /\ Core(tasks, service, callbacks, stack, pending, alerts)
            /\ tasks \in Seq(TaskType) /\ service \in Seq(CallType) /\ metrics \in Seq(RowType)
            /\ Answered(service) /\ Owned(tasks, metrics) /\ Globals(tasks)
            /\ Locals(tasks, service, metrics) /\ Story(tasks, service, metrics)
            /\ stack \in Seq(FrameType)
<1> SUFFICES ASSUME Good
             PROVE  /\ Core(tasks, service, callbacks, stack, pending, alerts)
                    /\ tasks \in Seq(TaskType) /\ service \in Seq(CallType)
                    /\ metrics \in Seq(RowType)
                    /\ Answered(service) /\ Owned(tasks, metrics) /\ Globals(tasks)
                    /\ Locals(tasks, service, metrics) /\ Story(tasks, service, metrics)
                    /\ stack \in Seq(FrameType)
  OBVIOUS
<1>1. /\ Core(tasks, service, callbacks, stack, pending, alerts)
      /\ Story(tasks, service, metrics)
  BY DEF Good, Inner
<1>2. stack \in Seq(FrameType)
  BY <1>1 DEF Core, Shaped
<1>3. /\ tasks \in Seq(TaskType) /\ service \in Seq(CallType) /\ metrics \in Seq(RowType)
      /\ Answered(service) /\ Owned(tasks, metrics) /\ Globals(tasks)
      /\ Locals(tasks, service, metrics)
  BY <1>1 DEF Story, Typed
<1> QED BY <1>1, <1>2, <1>3

LEMMA Runner ==
    ASSUME Good, NEW t, NEW prog, NEW label, At(t, prog, label)
    PROVE  /\ stack # << >> /\ Head(stack) = RunF(t)
           /\ t \in DOMAIN tasks /\ tasks[t] \in TaskType
           /\ tasks[t].prog = prog /\ tasks[t].at = label
           /\ tasks[t].wait = << >> /\ tasks[t].out.val = Pending
           /\ TaskOK(tasks, service, metrics, t)
<1>1. stack # << >> /\ Head(stack) = RunF(t) /\ tasks[t].prog = prog /\ tasks[t].at = label
  BY DEF At, Top, RunF
<1>2. t \in DOMAIN tasks /\ tasks[t].wait = << >> /\ tasks[t].out.val = Pending
  BY <1>1, GoodIs, Runs
<1>3. tasks[t] \in TaskType
  BY <1>2, GoodIs
<1>4. TaskOK(tasks, service, metrics, t)
  BY <1>2, GoodIs DEF Locals
<1> QED BY <1>1, <1>2, <1>3, <1>4

\* The state's operators are the proofs'.
LEMMA SameQueue ==
    ASSUME NEW f, NEW s
    PROVE  CallbacksOf(f) = Queue(callbacks, f) /\ WithCallbacks(f, s) = With(callbacks, f, s)
BY DEF CallbacksOf, Queue, WithCallbacks, With

LEMMA SameOutcome ==
    ASSUME NEW f \in Futures(tasks, service)
    PROVE  /\ Outcome(f) = Result(tasks, service, f)
           /\ IsDone(f) <=> Done(tasks, service, f)
<1>1. Outcome(f) = Result(tasks, service, f)
  BY DEF Outcome, Result
<1>2. IsDone(f) <=> Done(tasks, service, f)
  <2>1. CASE f[1] = "task"
    BY <2>1 DEF IsDone, Outcome, Done
  <2>2. CASE f[1] # "task"
    BY <2>2 DEF IsDone, Outcome, Done, Answer
  <2> QED BY <2>1, <2>2
<1> QED BY <1>1, <1>2

LEMMA Awaits ==
    ASSUME NEW f, NEW done, NEW t, Await(f, done, t)
    PROVE  /\ callbacks' = With(callbacks, f, Append(Queue(callbacks, f), t))
           /\ stack' = (IF done THEN << CbF(f) >> ELSE << >>) \o Tail(stack)
BY SameQueue DEF Await, CbF

LEMMA AskStep ==
    ASSUME Good, NEW t, stack # << >>, Head(stack) = RunF(t),
           NEW kind \in {"get", "next"}, NEW o \in Oid, NEW label, NEW ts0,
           AskAndAwait(ts0, t, kind, o, label), UNCHANGED Collected,
           NEW n, n = NextCall(service),
           NEW x, tasks' = Put(tasks, t, x),
           Becomes(tasks, t, x), x.out = tasks[t].out, x.wait = Call(n), Discreet(tasks, t, x),
           \A sv2 : AsksFor(sv2, Call(n), kind, o) /\ Holds(service, sv2)
                       => TaskOK(Put(tasks, t, x), sv2, metrics, t)
    PROVE  Good'
<1>1. PICK a \in Engine!Answers(kind, o) \cup {Engine!Answer(o, Pending)} :
          /\ service' = Append(service, [kind |-> kind, oid |-> o, ans |-> a])
          /\ Await(Call(n), a.val # Pending, t)
  BY DEF AskAndAwait, NextCall
<1>2. a \in Replies(kind, o) /\ service' = Ask(service, kind, o, a)
  BY <1>1 DEF Replies, Ask, Asked
<1>3. tasks' = Put(tasks, t, x) /\ pending' = pending /\ alerts' = alerts /\ metrics' = metrics
  BY DEF Collected
<1>4. /\ callbacks' = With(callbacks, Call(n), Append(Queue(callbacks, Call(n)), t))
      /\ stack' = (IF a.val # Pending THEN << CbF(Call(n)) >> ELSE << >>) \o Tail(stack)
  BY <1>1, Awaits
<1>5. /\ Calls(service, service', n) /\ service'[n].ans = a
      /\ AsksFor(service', Call(n), kind, o)
  BY <1>2, GoodIs, AskedIs
<1>6. TaskOK(Put(tasks, t, x), service', metrics, t)
  BY <1>5 DEF Calls
<1>7. stack' = (IF service'[n].ans.val # Pending THEN << CbF(Call(n)) >> ELSE << >>) \o Tail(stack)
  BY <1>4, <1>5
<1>8. Inner(tasks, service, callbacks, stack, pending, alerts, metrics)
  BY DEF Good
<1>9. Inner(Put(tasks, t, x), service', With(callbacks, Call(n), Append(Queue(callbacks, Call(n)), t)),
            stack', pending, alerts, metrics)
  BY <1>5, <1>6, <1>7, <1>8, AskMove
<1> QED BY <1>3, <1>4, <1>9 DEF Good

LEMMA AwaitStep ==
    ASSUME Good, NEW t, stack # << >>, Head(stack) = RunF(t),
           NEW f \in Futures(tasks, service), Await(f, IsDone(f), t),
           NEW x, tasks' = Put(tasks, t, x), UNCHANGED <<service, Collected>>,
           Becomes(tasks, t, x), x.out = tasks[t].out, x.wait = f, Discreet(tasks, t, x),
           TaskOK(Put(tasks, t, x), service, metrics, t)
    PROVE  Good'
<1>1. /\ callbacks' = With(callbacks, f, Append(Queue(callbacks, f), t))
      /\ stack' = (IF IsDone(f) THEN << CbF(f) >> ELSE << >>) \o Tail(stack)
  BY Awaits
<1>2. stack' = (IF Done(tasks, service, f) THEN << CbF(f) >> ELSE << >>) \o Tail(stack)
  BY <1>1, SameOutcome
<1>3. Inner(Put(tasks, t, x), service, With(callbacks, f, Append(Queue(callbacks, f), t)),
            stack', pending, alerts, metrics)
  BY <1>2, AwaitMove DEF Good
<1>4. service' = service /\ pending' = pending /\ alerts' = alerts /\ metrics' = metrics
  BY DEF Collected
<1> QED BY <1>1, <1>3, <1>4 DEF Good

\* A generator that ends keeps what it has told.
LEMMA FinishStep ==
    ASSUME Good, NEW t, NEW prog, NEW label, At(t, prog, label),
           NEW out \in [oid : Oid, val : Vals, walk : Nat], out.val # Pending,
           Finish(t, out), UNCHANGED Collected,
           prog = "walk" =>
              /\ out.val \in Value => /\ WalkFrom(tasks, out.walk, tasks[t].base, out.oid)
                                      /\ StartsWith(out.oid, tasks[t].base)
                                      /\ IsNext(tasks[t].from, out.oid)
              /\ out.val = Nothing => \A k \in After(tasks[t].from) : ~ StartsWith(k, tasks[t].base),
           prog # "walk" => out.val \in Errors \cup {Nothing},
           prog = "table" /\ out.val = Nothing /\ tasks[t].base \notin Early =>
              Told(metrics, t) = TableOf(tasks[t].base),
           prog = "detect" /\ out.val = Nothing /\ Device \in DOMAIN Families =>
              \E u \in DOMAIN tasks : tasks[u].prog = "family" /\ tasks[u].out.val = Nothing,
           prog = "family" /\ out.val = Nothing => tasks[t].walk = Len(Started)
    PROVE  Good'
<1> DEFINE y   == tasks[t]
           x   == [y EXCEPT !.out = out, !.at = "finished"]
           ts2 == Put(tasks, t, x)
<1>1. /\ stack # << >> /\ Head(stack) = RunF(t)
      /\ t \in DOMAIN tasks /\ y \in TaskType /\ y.prog = prog
      /\ y.wait = << >> /\ y.out.val = Pending
      /\ TaskOK(tasks, service, metrics, t)
  BY Runner
<1>2. /\ x \in TaskType /\ x.prog = prog /\ x.base = y.base /\ x.from = y.from
      /\ x.at = "finished" /\ x.walk = y.walk /\ x.asked = y.asked /\ x.wait = << >>
      /\ x.out = out
  <2> HIDE DEF y
  <2> QED BY <1>1 DEF TaskType, Labels
<1>3. tasks' = ts2
  BY DEF Finish, Put
<1>4. stack' = << CbF(Task(t)) >> \o Tail(stack) /\ service' = service /\ callbacks' = callbacks
      /\ pending' = pending /\ alerts' = alerts /\ metrics' = metrics
  BY DEF Finish, Collected, CbF
<1> HIDE DEF x
<1>5. Becomes(tasks, t, x)
  BY <1>1, <1>2 DEF Becomes
<1>6. Keeps(tasks, ts2) /\ Holds(service, service)
  BY <1>1, <1>5, GoodIs, PutKeeps DEF Holds
<1>7. ts2[t] = x /\ DOMAIN ts2 = DOMAIN tasks /\ \A u \in DOMAIN tasks : u # t => ts2[u] = tasks[u]
  BY <1>1, <1>5, GoodIs, PutOthers
<1> HIDE DEF y, ts2
<1>8. /\ \A p, w : IsA(tasks, p, w) => IsA(ts2, p, w)
      /\ \A w, b, o : WalkFrom(tasks, w, b, o) => WalkFrom(ts2, w, b, o)
  BY <1>6, StillThere
<1>9. prog = "walk" => WalkOK(ts2, service, x)
  <2> SUFFICES ASSUME prog = "walk" PROVE WalkOK(ts2, service, x)
    OBVIOUS
  <2>1. WalkOK(tasks, service, y)
    BY <1>1 DEF TaskOK, y
  <2> QED BY <1>2, <1>8, <2>1 DEF WalkOK, y
<1>10. prog = "table" => TableOK(ts2, service, x) /\ Tells(ts2, metrics, t, x)
  <2> SUFFICES ASSUME prog = "table" PROVE TableOK(ts2, service, x) /\ Tells(ts2, metrics, t, x)
    OBVIOUS
  <2>1. TableOK(tasks, service, y) /\ Tells(tasks, metrics, t, y)
    BY <1>1 DEF TaskOK, y
  <2>2. TableOK(ts2, service, x)
    BY <1>2, <2>1 DEF TableOK, Ended
  <2>3. Tells(ts2, metrics, t, x)
    BY <1>2, <2>1 DEF Tells, y
  <2> QED BY <2>2, <2>3
<1>11. prog = "detect" => DetectOK(ts2, service, x)
  <2> SUFFICES ASSUME prog = "detect" PROVE DetectOK(ts2, service, x)
    OBVIOUS
  <2>1. (\E u \in DOMAIN tasks : tasks[u].prog = "family" /\ tasks[u].out.val = Nothing)
           => \E u \in DOMAIN ts2 : ts2[u].prog = "family" /\ ts2[u].out.val = Nothing
    BY <1>1, <1>7 DEF y
  <2> QED BY <1>2, <2>1 DEF DetectOK, Ended
<1>12. prog = "family" => FamilyOK(service, x)
  <2> SUFFICES ASSUME prog = "family" PROVE FamilyOK(service, x)
    OBVIOUS
  <2>1. FamilyOK(service, y)
    BY <1>1 DEF TaskOK, y
  <2> QED BY <1>2, <2>1 DEF FamilyOK, Ended, y
<1>13. prog # "family" => x.walk <= Len(ts2)
  <2>1. prog # "family" => y.walk <= Len(tasks)
    BY <1>1 DEF TaskOK, y
  <2> QED BY <1>1, <1>2, <1>6, <2>1 DEF Keeps, TaskType
<1>14. TaskOK(ts2, service, metrics, t)
  BY <1>2, <1>7, <1>9, <1>10, <1>11, <1>12, <1>13 DEF TaskOK
<1>15. Discreet(tasks, t, x)
  BY <1>2 DEF Discreet, y
<1>16. Inner(ts2, service, callbacks, << CbF(Task(t)) >> \o Tail(stack), pending, alerts, metrics)
  <2>1. x.out.val # Pending /\ x.wait = tasks[t].wait
    BY <1>1, <1>2 DEF y
  <2> QED BY <1>1, <1>5, <1>14, <1>15, <2>1, FinishMove DEF Good, ts2
<1> QED BY <1>3, <1>4, <1>16 DEF Good

\* A generator fetches a row ahead.
LEMMA WalkStep ==
    ASSUME Good, NEW t, NEW prog \in {"walk", "table"}, NEW label, At(t, prog, label),
           NEW o \in Oid, StartsWith(o, tasks[t].base), NEW label2,
           NEW n, n = Len(tasks) + 1,
           Invoke([tasks EXCEPT ![t].at = label2, ![t].walk = n],
                  NewTask("walk", tasks[t].base, o), << >>),
           UNCHANGED Collected,
           prog = "walk" => /\ label2 = "row" /\ o = tasks[t].got.oid
                            /\ Row(tasks[t]) /\ tasks[t].got.val \in Value,
           prog = "table" => label2 = "walking" /\ Told(metrics, t) = UpTo(tasks[t].base, o)
    PROVE  Good'
<1> DEFINE y   == tasks[t]
           x   == [y EXCEPT !.at = label2, !.walk = n]
           z   == NewTask("walk", y.base, o)
           ts1 == Put(tasks, t, x)
           ts2 == Append(ts1, z)
<1>1. /\ stack # << >> /\ Head(stack) = RunF(t)
      /\ t \in DOMAIN tasks /\ y \in TaskType /\ y.prog = prog
      /\ y.wait = << >> /\ y.out.val = Pending
      /\ TaskOK(tasks, service, metrics, t)
  BY Runner
<1>2. n \in Nat /\ tasks \in Seq(TaskType)
  BY GoodIs
<1>3. /\ x \in TaskType /\ x.prog = prog /\ x.base = y.base /\ x.from = y.from
      /\ x.at = label2 /\ x.walk = n /\ x.asked = y.asked /\ x.wait = << >>
      /\ x.out = y.out /\ x.got = y.got
  <2> HIDE DEF y
  <2> QED BY <1>1, <1>2 DEF TaskType, Labels
<1>4. /\ z \in TaskType /\ z.prog = "walk" /\ z.base = y.base /\ z.from = o /\ z.at = "start"
      /\ z.wait = << >> /\ z.asked = << >> /\ z.out.val = Pending /\ z.walk = 0
  <2>1. y.base \in Oid
    BY <1>1 DEF TaskType
  <2> HIDE DEF y
  <2> QED BY <2>1, NewTaskIs
<1>5. tasks' = ts2
  BY DEF Invoke, Put
<1>6. Becomes(tasks, t, x)
  BY <1>1, <1>3 DEF Becomes
<1>7. /\ ts1 \in Seq(TaskType) /\ DOMAIN ts1 = DOMAIN tasks /\ Len(ts1) = Len(tasks)
      /\ ts1[t] = x /\ \A u \in DOMAIN tasks : u # t => ts1[u] = tasks[u]
  BY <1>1, <1>2, <1>3, PutIs
<1>8. /\ stack' = << RunF(n) >> \o (<< >> \o stack) /\ service' = service /\ callbacks' = callbacks
      /\ pending' = pending /\ alerts' = alerts /\ metrics' = metrics
  <2>1. /\ stack' = (<< RunF(Len([tasks EXCEPT ![t].at = label2, ![t].walk = n]) + 1) >> \o << >>) \o stack
        /\ service' = service /\ callbacks' = callbacks
        /\ pending' = pending /\ alerts' = alerts /\ metrics' = metrics
    BY DEF Invoke, Collected, RunF
  <2>2. [tasks EXCEPT ![t].at = label2, ![t].walk = n] = ts1
    BY DEF Put
  <2>3. << RunF(n) >> \o << >> = << RunF(n) >> /\ << >> \o stack = stack
    BY GoodIs
  <2> HIDE DEF ts1
  <2> QED BY <1>7, <2>1, <2>2, <2>3
<1> HIDE DEF x, y, z, ts1
<1>9. /\ Len(ts2) = n /\ DOMAIN ts2 = DOMAIN tasks \cup {n} /\ ts2[n] = z /\ ts2[t] = x
      /\ \A u \in DOMAIN tasks : u # t => ts2[u] = tasks[u]
  BY <1>1, <1>4, <1>7, Appended
<1>10. Globals(ts2)
  <2>1. x.prog \in {"walk", "table"}
    BY <1>3
  <2> QED BY <1>1, <1>4, <1>6, <2>1, GoodIs, WalksAreLocal DEF ts1
<1> HIDE DEF ts2
<1>11. WalkFrom(ts2, n, x.base, o)
  BY <1>3, <1>4, <1>9 DEF WalkFrom, IsA
<1>12. y.out.val \notin Value /\ y.out.val # Nothing
  BY <1>1, ValuesApart
<1>13. TaskOK(ts2, service, metrics, n)
  <2>1. WalkOK(ts2, service, z)
    <3>1. z.out.val \notin Value /\ z.out.val # Nothing
      BY <1>4, ValuesApart
    <3> QED BY <1>4, <3>1 DEF WalkOK, y
  <2>2. 0 <= Len(ts2)
    BY <1>2, <1>9
  <2> QED BY <1>4, <1>9, <2>1, <2>2 DEF TaskOK
<1>14. TaskOK(ts2, service, metrics, t)
  <2>1. CASE prog = "walk"
    <3>1. WalkOK(tasks, service, y)
      BY <1>1, <2>1 DEF TaskOK, y
    <3>2. x.at = "row" /\ Row(x) /\ x.got.val \in Value /\ x.got.oid = o
      BY <1>3, <2>1 DEF y, Row
    <3>3. WalkOK(ts2, service, x)
      BY <1>3, <1>11, <1>12, <3>1, <3>2 DEF WalkOK, y
    <3> QED BY <1>1, <1>2, <1>3, <1>9, <2>1, <3>2, <3>3 DEF TaskOK
  <2>2. CASE prog = "table"
    <3>1. TableOK(tasks, service, y) /\ Tells(tasks, metrics, t, y)
      BY <1>1, <2>2 DEF TaskOK, y
    <3>2. x.at = "walking" /\ Told(metrics, t) = UpTo(x.base, o) /\ ts2[x.walk].from = o
      BY <1>3, <1>4, <1>9, <2>2 DEF y
    <3>3. TableOK(ts2, service, x)
      BY <1>3, <1>11, <3>1, <3>2 DEF TableOK, Ended
    <3>4. Tells(ts2, metrics, t, x)
      BY <1>3, <1>12, <3>1, <3>2 DEF Tells
    <3> QED BY <1>1, <1>2, <1>3, <1>9, <2>2, <3>2, <3>3, <3>4 DEF TaskOK
  <2> QED BY <2>1, <2>2
<1>15. Inner(ts2, service, callbacks, stack', pending, alerts, metrics)
  <2>1. x.out = tasks[t].out /\ x.wait = tasks[t].wait
    BY <1>1, <1>3 DEF y
  <2>2. stack' = << RunF(n) >> \o ((IF z.prog \in {"detect", "table"} THEN << RegF(n) >>
                                                                      ELSE << >>) \o stack)
    BY <1>4, <1>8
  <2> QED BY <1>1, <1>4, <1>6, <1>10, <1>13, <1>14, <2>1, <2>2, InvokeMove DEF Good, ts2, ts1
<1> QED BY <1>5, <1>8, <1>15 DEF Good

-----------------------------------------------------------------------------
(* The walk.                                                                 *)

LEMMA RowMeans ==
    ASSUME NEW y \in TaskType, Row(y)
    PROVE  /\ y.got.val \in Value \cup {EndOfMibView, BackendError}
           /\ y.got.val = EndOfMibView => After(y.from) = {}
           /\ y.got.val \in Value => /\ IsNext(y.from, y.got.oid) /\ y.from \prec y.got.oid
                                     /\ y.got.oid \in DOMAIN MIB
<1>1. CASE y.got.val = BackendError
  BY <1>1, ControllerAssumption
<1>2. CASE y.got.val # BackendError
  <2> DEFINE a == AgentNext(y.from)
  <2>1. y.from \in Oid
    BY DEF TaskType
  <2>2. Follows(y.from, a)
    BY <2>1, AgentNextFollows
  <2>3. y.got.oid = a.oid /\ y.got.val = a.val
    BY <1>2 DEF Row
  <2> HIDE DEF a
  <2>4. /\ a.val \in Value \cup {EndOfMibView}
        /\ a.val = EndOfMibView => After(y.from) = {}
        /\ a.val \in Value => /\ IsNext(y.from, a.oid) /\ y.from \prec a.oid
                              /\ a.oid \in DOMAIN MIB
    BY <2>1, <2>2, FollowsMeans
  <2> QED BY <2>3, <2>4
<1> QED BY <1>1, <1>2

LEMMA PrefixFirst ==
    ASSUME NEW o \in Oid, NEW b \in Oid, StartsWith(o, b)
    PROVE  b \preceq o
<1>1. Len(o) \in Nat /\ Len(b) \in Nat /\ Len(b) <= Len(o)
      /\ \A i \in 1 .. Len(b) : o[i] = b[i]
  BY DEF Oid, StartsWith
<1>2. CASE Len(b) = Len(o)
  <2>1. o = b
    BY <1>1, <1>2 DEF Oid
  <2> QED BY <2>1 DEF \preceq
<1>3. CASE Len(b) < Len(o)
  <2> DEFINE n == Len(b) + 1
  <2>1. n \in 1 .. Len(o) /\ n <= Len(b) + 1 /\ ~ (n <= Len(b))
    BY <1>1, <1>3
  <2>2. \A i \in 1 .. n - 1 : b[i] = o[i]
    BY <1>1
  <2> QED BY <2>1, <2>2 DEF \prec, \preceq
<1> QED BY <1>1, <1>2, <1>3

\* What lies between two oids of a table is in the table.
LEMMA TableIsConvex ==
    ASSUME NEW b \in Oid, NEW l \in Oid, NEW m \in Oid, NEW h \in Oid,
           StartsWith(l, b), StartsWith(h, b), l \preceq m, m \preceq h
    PROVE  StartsWith(m, b)
<1>1. /\ Len(b) \in Nat /\ Len(l) \in Nat /\ Len(m) \in Nat /\ Len(h) \in Nat
      /\ Len(b) <= Len(l) /\ Len(b) <= Len(h)
      /\ \A i \in 1 .. Len(b) : l[i] = b[i] /\ h[i] = b[i] /\ b[i] \in Nat
  BY SMTT(30) DEF Oid, StartsWith
<1>2. CASE l = m \/ m = h
  BY <1>2
<1>3. CASE l \prec m /\ m \prec h
  <2>1. PICK n \in 1 .. Len(m) : /\ n <= Len(l) + 1
                                 /\ \A i \in 1 .. n - 1 : l[i] = m[i]
                                 /\ n <= Len(l) => l[n] < m[n]
    BY <1>3 DEF \prec
  <2>2. PICK p \in 1 .. Len(h) : /\ p <= Len(m) + 1
                                 /\ \A i \in 1 .. p - 1 : m[i] = h[i]
                                 /\ p <= Len(m) => m[p] < h[p]
    BY <1>3 DEF \prec
  <2>3. CASE n > Len(b)
    BY <1>1, <2>1, <2>3 DEF StartsWith
  <2>4. CASE n <= Len(b)
    <3>1. m[n] > b[n] /\ m[n] \in Nat
      <4>1. n \in 1 .. Len(b) /\ n <= Len(l) /\ m[n] \in Nat
        <5>1. n \in 1 .. Len(b) /\ n <= Len(l)
          BY <1>1, <2>1, <2>4
        <5>2. m[n] \in Nat
          BY <2>1 DEF Oid
        <5> QED BY <5>1, <5>2
      <4>2. l[n] = b[n] /\ l[n] < m[n] /\ b[n] \in Nat
        BY <1>1, <2>1, <4>1
      <4> QED BY <4>1, <4>2
    <3>2. CASE p < n
      <4>1. m[p] = b[p] /\ h[p] = b[p] /\ p <= Len(m)
        BY <1>1, <2>1, <2>2, <2>4, <3>2
      <4>2. b[p] \in Nat
        BY <1>1, <2>2, <2>4, <3>2
      <4> QED BY <2>2, <4>1, <4>2
    <3>3. CASE p = n
      <4>1. m[n] < b[n]
        BY <1>1, <2>1, <2>2, <2>4, <3>3
      <4> QED BY <1>1, <2>4, <3>1, <4>1
    <3>4. CASE p > n
      <4>1. m[n] = b[n]
        BY <1>1, <2>1, <2>2, <2>4, <3>4
      <4> QED BY <1>1, <3>1, <4>1
    <3> QED BY <1>1, <2>1, <2>2, <3>2, <3>3, <3>4
  <2> QED BY <1>1, <2>1, <2>3, <2>4
<1> QED BY <1>2, <1>3 DEF \preceq

LEMMA WalkAsksStep == ASSUME Good, NEW t, WalkAsks(t) PROVE Good'
<1> DEFINE y == tasks[t]
           n == NextCall(service)
           x == [y EXCEPT !.at = "got", !.wait = Call(n)]
<1>0. At(t, "walk", "start")
  BY DEF WalkAsks
<1>1. /\ stack # << >> /\ Head(stack) = RunF(t)
      /\ t \in DOMAIN tasks /\ y \in TaskType /\ y.prog = "walk" /\ y.at = "start"
      /\ y.wait = << >> /\ y.out.val = Pending
      /\ TaskOK(tasks, service, metrics, t)
  BY <1>0, Runner
<1>2. n \in Nat /\ Call(n) \in Future /\ Call(n) # << >> /\ y.from \in Oid
  <2>1. n \in Nat
    BY GoodIs DEF NextCall
  <2> QED BY <1>1, <2>1, FuturesAre DEF TaskType
<1>3. /\ x \in TaskType /\ x.prog = y.prog /\ x.base = y.base /\ x.from = y.from
      /\ x.at = "got" /\ x.walk = y.walk /\ x.asked = y.asked /\ x.wait = Call(n)
      /\ x.out = y.out /\ x.got = y.got
  <2> HIDE DEF y, n
  <2> QED BY <1>1, <1>2 DEF TaskType, Labels
<1>4. tasks' = Put(tasks, t, x)
  BY DEF WalkAsks, AskAndAwait, NextCall, Put
<1> HIDE DEF x, n
<1>5. Becomes(tasks, t, x) /\ Discreet(tasks, t, x) /\ x.out = tasks[t].out
  BY <1>1, <1>3 DEF Becomes, Discreet
<1>6. ASSUME NEW sv2, AsksFor(sv2, Call(n), "next", y.from), Holds(service, sv2)
      PROVE  TaskOK(Put(tasks, t, x), sv2, metrics, t)
  <2>1. Put(tasks, t, x)[t] = x /\ Len(Put(tasks, t, x)) = Len(tasks)
    BY <1>1, <1>3, GoodIs, PutIs
  <2>2. WalkOK(tasks, service, y) /\ y.walk <= Len(tasks)
    BY <1>1 DEF TaskOK
  <2>3. y.out.val \notin Value /\ y.out.val # Nothing
    BY <1>1, ValuesApart
  <2> HIDE DEF y
  <2>4. WalkOK(Put(tasks, t, x), sv2, x)
    BY <1>2, <1>3, <1>6, <2>2, <2>3 DEF WalkOK
  <2> QED BY <1>1, <1>3, <2>1, <2>2, <2>4 DEF TaskOK
<1>7. AskAndAwait(tasks, t, "next", y.from, "got") /\ UNCHANGED Collected
  BY DEF WalkAsks
<1>8. \A sv2 : AsksFor(sv2, Call(n), "next", y.from) /\ Holds(service, sv2)
                   => TaskOK(Put(tasks, t, x), sv2, metrics, t)
  BY <1>6
<1>9. "next" \in {"get", "next"} /\ n = NextCall(service)
  BY DEF n
<1> HIDE DEF y
<1> QED BY <1>1, <1>2, <1>3, <1>4, <1>5, <1>7, <1>8, <1>9, AskStep

LEMMA WalkEndsStep == ASSUME Good, NEW t, WalkEnds(t) PROVE Good'
<1> DEFINE y == tasks[t]
<1>0. At(t, "walk", "got") /\ ~ InTable(t) /\ UNCHANGED Collected
  BY DEF WalkEnds
<1>1. /\ t \in DOMAIN tasks /\ y \in TaskType /\ y.prog = "walk" /\ y.at = "got"
      /\ y.wait = << >> /\ TaskOK(tasks, service, metrics, t)
  BY <1>0, Runner
<1>2. Row(y)
  BY <1>1 DEF TaskOK, WalkOK
<1>3. CASE y.got.val \in Errors \ {EndOfMibView}
  <2>1. Finish(t, y.got)
    BY <1>3 DEF WalkEnds, Got
  <2>2. y.got \in [oid : Oid, val : Vals, walk : Nat] /\ y.got.val # Pending
        /\ y.got.val \notin Value /\ y.got.val # Nothing
    BY <1>1, <1>3, ValuesApart DEF TaskType
  <2> QED BY <1>0, <2>1, <2>2, FinishStep
<1>4. CASE y.got.val \notin Errors \ {EndOfMibView}
  <2> DEFINE out == [oid |-> y.from, val |-> Nothing, walk |-> 0]
  <2>1. Finish(t, out)
    BY <1>4 DEF WalkEnds, Got, None, Answer
  <2>2. out \in [oid : Oid, val : Vals, walk : Nat] /\ out.val # Pending /\ out.val = Nothing
    BY <1>1, ValuesApart DEF TaskType, Vals
  <2>3. \A k \in After(y.from) : ~ StartsWith(k, y.base)
    <3>1. CASE y.got.val = EndOfMibView
      BY <1>1, <1>2, <3>1, RowMeans
    <3>2. CASE y.got.val \in Value
      <4>1. ~ StartsWith(y.got.oid, y.base)
        BY <1>0, <3>2 DEF InTable, Got
      <4>2. SUFFICES ASSUME NEW k \in After(y.from), StartsWith(k, y.base) PROVE FALSE
        OBVIOUS
      <4>3. IsNext(y.from, y.got.oid) /\ y.from \prec y.got.oid
        BY <1>1, <1>2, <3>2, RowMeans
      <4>4. y.got.oid \preceq k /\ y.from \preceq y.got.oid
        BY <4>2, <4>3 DEF IsNext, \preceq
      <4>5. StartsWith(y.from, y.base)
        BY <1>1 DEF TaskOK, WalkOK
      <4>6. y.from \in Oid /\ y.base \in Oid /\ y.got.oid \in Oid /\ k \in Oid
        BY <1>1, <4>2, AfterIsFinite DEF TaskType
      <4> QED BY <4>1, <4>2, <4>4, <4>5, <4>6, TableIsConvex
    <3>3. y.got.val \in Value \cup {EndOfMibView}
      BY <1>1, <1>2, <1>4, RowMeans, ControllerAssumption DEF Errors
    <3> QED BY <3>1, <3>2, <3>3
  <2> HIDE DEF out
  <2>4. out.val \notin Value
    BY <2>2, ValuesApart
  <2> QED BY <1>0, <2>1, <2>2, <2>3, <2>4, FinishStep
<1> QED BY <1>3, <1>4

LEMMA WalkPrefetchesStep == ASSUME Good, NEW t, WalkPrefetches(t) PROVE Good'
<1> DEFINE y == tasks[t]
           n == Len(tasks) + 1
<1>0. At(t, "walk", "got") /\ InTable(t) /\ UNCHANGED Collected
  BY DEF WalkPrefetches
<1>1. /\ t \in DOMAIN tasks /\ y \in TaskType /\ y.prog = "walk" /\ y.at = "got"
      /\ y.wait = << >> /\ TaskOK(tasks, service, metrics, t)
  BY <1>0, Runner
<1>2. Row(y) /\ y.got.val \in Value /\ StartsWith(y.got.oid, y.base) /\ y.got.oid \in Oid
  BY <1>0, <1>1 DEF TaskOK, WalkOK, InTable, Got, TaskType
<1>3. Invoke([tasks EXCEPT ![t].at = "row", ![t].walk = n], NewTask("walk", y.base, y.got.oid), << >>)
  BY DEF WalkPrefetches, Got
<1> QED BY <1>0, <1>2, <1>3, WalkStep

LEMMA WalkReturnsStep == ASSUME Good, NEW t, WalkReturns(t) PROVE Good'
<1> DEFINE y   == tasks[t]
           out == [oid |-> y.got.oid, val |-> y.got.val, walk |-> y.walk]
<1>0. At(t, "walk", "row") /\ UNCHANGED Collected
  BY DEF WalkReturns
<1>1. /\ t \in DOMAIN tasks /\ y \in TaskType /\ y.prog = "walk" /\ y.at = "row"
      /\ TaskOK(tasks, service, metrics, t)
  BY <1>0, Runner
<1>2. /\ Row(y) /\ y.got.val \in Value /\ StartsWith(y.got.oid, y.base)
      /\ WalkFrom(tasks, y.walk, y.base, y.got.oid)
  BY <1>1 DEF TaskOK, WalkOK
<1>3. IsNext(y.from, y.got.oid)
  BY <1>1, <1>2, RowMeans
<1>4. Finish(t, out)
  BY DEF WalkReturns, Got, Answer
<1>5. /\ out \in [oid : Oid, val : Vals, walk : Nat] /\ out.val # Pending /\ out.val # Nothing
      /\ out.val \in Value /\ out.oid = y.got.oid /\ out.walk = y.walk
  BY <1>1, <1>2, ValuesApart DEF TaskType
<1> HIDE DEF out
<1> QED BY <1>0, <1>2, <1>3, <1>4, <1>5, FinishStep

-----------------------------------------------------------------------------
(* The table plugins.                                                        *)

WithRow(ms, t, o) == Append(ms, [plugin |-> t, oid |-> o])

Adds(ms, ms2, t, o) ==
    /\ ms2 \in Seq(RowType)
    /\ Told(ms2, t) = Told(ms, t) \cup {o}
    /\ \A u : u # t => SameRows(ms, ms2, u)
    /\ \A ts : Owned(ts, ms) /\ t \in TablesOf(ts) => Owned(ts, ms2)
    /\ /\ \A i, j \in RowsOf(ms, t) : i < j => ms[i].oid \prec ms[j].oid
       /\ \A p \in Told(ms, t) : p \prec o
       => \A i, j \in RowsOf(ms2, t) : i < j => ms2[i].oid \prec ms2[j].oid

LEMMA Reports ==
    ASSUME NEW ms \in Seq(RowType), NEW t \in Nat, NEW o \in Oid,
           NEW ms2, ms2 = WithRow(ms, t, o)
    PROVE  Adds(ms, ms2, t, o)
<1> DEFINE r == [plugin |-> t, oid |-> o]
           n == Len(ms) + 1
<1>1. r \in RowType /\ r.plugin = t /\ r.oid = o
  BY DEF RowType
<1> HIDE DEF r
<1>2. /\ ms2 \in Seq(RowType) /\ DOMAIN ms2 = DOMAIN ms \cup {n} /\ ms2[n] = r
      /\ n \notin DOMAIN ms
      /\ \A i \in DOMAIN ms : ms2[i] = ms[i]
  <2>1. ms2 = Append(ms, r)
    BY DEF r, WithRow
  <2> QED BY <1>1, <2>1, Appended
<1>3. ~ (n < n) /\ \A i \in DOMAIN ms : ~ (n < i)
  OBVIOUS
<1> HIDE DEF n
<1>4. \A u : u # t => RowsOf(ms2, u) = RowsOf(ms, u)
  BY <1>1, <1>2 DEF RowsOf
<1>5. RowsOf(ms2, t) = RowsOf(ms, t) \cup {n}
  BY <1>1, <1>2 DEF RowsOf
<1>6. \A u : \A i \in RowsOf(ms, u) : ms2[i] = ms[i] /\ i \in DOMAIN ms
  BY <1>2 DEF RowsOf
<1>7. \A u : u # t => SameRows(ms, ms2, u)
  BY <1>4, <1>6 DEF SameRows
<1>8. Told(ms2, t) = Told(ms, t) \cup {o}
  BY <1>1, <1>2, <1>5, <1>6 DEF Told
<1>9. \A ts : Owned(ts, ms) /\ t \in TablesOf(ts) => Owned(ts, ms2)
  BY <1>1, <1>2 DEF Owned
<1>10. ASSUME \A i, j \in RowsOf(ms, t) : i < j => ms[i].oid \prec ms[j].oid,
              \A p \in Told(ms, t) : p \prec o,
              NEW i \in RowsOf(ms2, t), NEW j \in RowsOf(ms2, t), i < j
       PROVE  ms2[i].oid \prec ms2[j].oid
  <2>1. CASE i \in RowsOf(ms, t) /\ j \in RowsOf(ms, t)
    BY <1>6, <1>10, <2>1
  <2>2. CASE i \in RowsOf(ms, t) /\ j = n
    <3>1. ms2[j].oid = o /\ ms2[i].oid \in Told(ms, t)
      BY <1>1, <1>2, <1>6, <2>2 DEF Told
    <3> QED BY <1>10, <3>1
  <2>3. i # n
    BY <1>3, <1>5, <1>6, <1>10
  <2> QED BY <1>5, <2>1, <2>2, <2>3
<1>11. Told(ms2, t) = Told(ms, t) \cup {o}
  BY <1>8
<1> QED BY <1>2, <1>7, <1>9, <1>10, <1>11 DEF Adds

\* The table up to the next row.
LEMMA NextRow ==
    ASSUME NEW b \in Oid, NEW w \in Oid, NEW o \in Oid, StartsWith(w, b), StartsWith(o, b),
           IsNext(w, o)
    PROVE  /\ o \in TableOf(b) /\ UpTo(b, o) = UpTo(b, w) \cup {o} /\ Before(b, o) = UpTo(b, w)
           /\ \A k \in UpTo(b, w) : k \prec o
<1>1. o \in DOMAIN MIB /\ w \prec o /\ \A j \in After(w) : o \preceq j
  BY DEF IsNext, After
<1>2. b \prec o
  BY <1>1, PrefixFirst, PrecTransitive DEF \preceq
<1>3. o \in TableOf(b) /\ \A k \in TableOf(b) : k \in Oid /\ k \in DOMAIN MIB
  BY <1>1, <1>2, AfterIsFinite DEF TableOf, After
<1>4. ASSUME NEW k \in TableOf(b), k \prec o PROVE k \preceq w
  <2>1. SUFFICES ASSUME w \prec k PROVE FALSE
    BY <1>3, PrecTotal DEF \preceq
  <2>2. o \preceq k
    BY <1>1, <1>3, <2>1 DEF After
  <2> QED BY <1>3, <1>4, <2>2, PrecTransitive, PrecIrreflexive DEF \preceq
<1>5. ASSUME NEW k \in TableOf(b), k \preceq w PROVE k \prec o
  BY <1>1, <1>3, <1>5, PrecTransitive DEF \preceq
<1>6. Before(b, o) = UpTo(b, w)
  BY <1>4, <1>5 DEF Before, UpTo
<1>7. UpTo(b, o) = Before(b, o) \cup {o}
  BY <1>3 DEF Before, UpTo, \preceq
<1> QED BY <1>3, <1>5, <1>6, <1>7 DEF UpTo

\* What is reported so far is a beginning of the table.
LEMMA Beginnings ==
    ASSUME NEW b \in Oid, NEW o \in Oid
    PROVE  /\ UpTo(b, o) \subseteq TableOf(b) /\ Before(b, o) \subseteq TableOf(b)
           /\ \A k \in TableOf(b), p \in UpTo(b, o) : k \prec p => k \in UpTo(b, o)
           /\ \A k \in TableOf(b), p \in Before(b, o) : k \prec p => k \in Before(b, o)
           /\ o \in TableOf(b) => UpTo(b, o) = Before(b, o) \cup {o}
           /\ StartsWith(b, b) /\ UpTo(b, b) = {}
           /\ (\A k \in After(o) : ~ StartsWith(k, b)) => UpTo(b, o) = TableOf(b)
<1>1. \A k \in TableOf(b) : k \in Oid /\ k \in DOMAIN MIB /\ b \prec k /\ StartsWith(k, b)
  BY AfterIsFinite DEF TableOf, After
<1>2. ASSUME NEW k \in TableOf(b), NEW p \in Oid, p \preceq o, k \prec p PROVE k \prec o
  BY <1>1, <1>2, PrecTransitive DEF \preceq
<1>3. ASSUME NEW k \in TableOf(b), NEW p \in UpTo(b, o), k \prec p PROVE k \in UpTo(b, o)
  BY <1>1, <1>2, <1>3 DEF UpTo, \preceq
<1>4. ASSUME NEW k \in TableOf(b), NEW p \in Before(b, o), k \prec p PROVE k \in Before(b, o)
  BY <1>1, <1>2, <1>4 DEF Before, \preceq
<1>5. o \in TableOf(b) => UpTo(b, o) = Before(b, o) \cup {o}
  BY DEF Before, UpTo, \preceq
<1>6. StartsWith(b, b)
  BY DEF StartsWith, Oid
<1>7. UpTo(b, b) = {}
  <2> SUFFICES ASSUME NEW k \in UpTo(b, b) PROVE FALSE
    OBVIOUS
  <2>1. k \in TableOf(b) /\ k \preceq b
    BY DEF UpTo
  <2> QED BY <1>1, <2>1, PrecTransitive, PrecIrreflexive DEF \preceq
<1>8. ASSUME \A k \in After(o) : ~ StartsWith(k, b) PROVE UpTo(b, o) = TableOf(b)
  <2> SUFFICES ASSUME NEW k \in TableOf(b) PROVE k \preceq o
    BY DEF UpTo
  <2>1. ~ (o \prec k)
    BY <1>1, <1>8 DEF After
  <2> QED BY <1>1, <2>1, PrecTotal DEF \preceq
<1> QED BY <1>3, <1>4, <1>5, <1>6, <1>7, <1>8 DEF UpTo, Before

LEMMA EndsStep ==
    ASSUME Good, NEW t, NEW prog, NEW label, At(t, prog, label), prog # "walk",
           Ends(t), UNCHANGED Collected,
           prog = "table" /\ Got(t).val \notin Errors /\ tasks[t].base \notin Early =>
              Told(metrics, t) = TableOf(tasks[t].base),
           prog = "detect" /\ Got(t).val \notin Errors /\ Device \in DOMAIN Families =>
              \E u \in DOMAIN tasks : tasks[u].prog = "family" /\ tasks[u].out.val = Nothing,
           prog = "family" => Got(t).val \in Errors
    PROVE  Good'
<1> DEFINE y   == tasks[t]
           out == IF y.got.val \in Errors THEN y.got ELSE [oid |-> y.from, val |-> Nothing, walk |-> 0]
<1>1. Finish(t, out)
  BY DEF Ends, Got, None, Answer
<1>2. y \in TaskType
  BY Runner
<1>3. out \in [oid : Oid, val : Vals, walk : Nat]
  <2>1. y.got \in [oid : Oid, val : Vals, walk : Nat] /\ y.from \in Oid /\ Nothing \in Vals
    BY <1>2 DEF TaskType, Vals
  <2> QED BY <2>1
<1>4. /\ out.val \in Errors \cup {Nothing}
      /\ out.val = Nothing => Got(t).val \notin Errors
  BY ValuesApart DEF Got
<1>5. out.val # Pending
  BY <1>4, ValuesApart
<1> HIDE DEF out
<1> QED BY <1>1, <1>3, <1>4, <1>5, FinishStep

\* A table plugin goes on without waiting.
LEMMA GoesOnStep ==
    ASSUME Good, NEW t, stack # << >>, Head(stack) = RunF(t), t \in DOMAIN tasks,
           NEW x, tasks' = Put(tasks, t, x), UNCHANGED <<callbacks, stack, pending, alerts>>,
           Becomes(tasks, t, x), x.out = tasks[t].out, x.wait = tasks[t].wait, Discreet(tasks, t, x),
           service' = service \/ \E n : Calls(service, service', n),
           metrics' \in Seq(RowType), Owned(tasks, metrics'),
           \A u \in DOMAIN tasks : u # t => SameRows(metrics, metrics', u),
           TaskOK(Put(tasks, t, x), service', metrics', t)
    PROVE  Good'
<1>1. /\ service' \in Seq(CallType) /\ Answered(service') /\ Holds(service, service')
      /\ DOMAIN service' \subseteq Nat /\ DOMAIN service \subseteq DOMAIN service'
      /\ \A i \in DOMAIN service : service'[i] = service[i]
  <2>1. CASE service' = service
    <3>1. DOMAIN service \subseteq Nat
      BY GoodIs
    <3> QED BY <2>1, <3>1, GoodIs DEF Holds
  <2>2. CASE \E n : Calls(service, service', n)
    BY <2>2 DEF Calls
  <2> QED BY <2>1, <2>2
<1>2. Inner(Put(tasks, t, x), service', callbacks, stack, pending, alerts, metrics')
  BY <1>1, GoesOnMove DEF Good
<1> QED BY <1>2 DEF Good

LEMMA TableStartsStep == ASSUME Good, NEW t, TableStarts(t) PROVE Good'
<1> DEFINE y == tasks[t]
           n == Len(tasks) + 1
<1>0. At(t, "table", "start") /\ UNCHANGED Collected
  BY DEF TableStarts
<1>1. /\ t \in DOMAIN tasks /\ y \in TaskType /\ y.prog = "table" /\ y.at = "start"
      /\ TaskOK(tasks, service, metrics, t)
  BY <1>0, Runner
<1>2. y.base \in Oid
  BY <1>1 DEF TaskType
<1>3. Told(metrics, t) = {}
  BY <1>1 DEF TaskOK, Tells
<1>4. StartsWith(y.base, y.base) /\ Told(metrics, t) = UpTo(y.base, y.base)
  BY <1>2, <1>3, Beginnings
<1>5. Invoke([tasks EXCEPT ![t].at = "walking", ![t].walk = n], NewTask("walk", y.base, y.base), << >>)
  BY DEF TableStarts
<1> HIDE DEF n
<1> QED BY <1>0, <1>2, <1>4, <1>5, WalkStep DEF n

LEMMA TableAwaitsRowStep == ASSUME Good, NEW t, TableAwaitsRow(t) PROVE Good'
<1> DEFINE y   == tasks[t]
           f   == Task(y.walk)
           x   == [y EXCEPT !.at = "row", !.wait = f]
           ts2 == Put(tasks, t, x)
<1>0. At(t, "table", "walking") /\ UNCHANGED Collected
  BY DEF TableAwaitsRow
<1>1. /\ stack # << >> /\ Head(stack) = RunF(t)
      /\ t \in DOMAIN tasks /\ y \in TaskType /\ y.prog = "table" /\ y.at = "walking"
      /\ y.wait = << >> /\ y.out.val = Pending
      /\ TaskOK(tasks, service, metrics, t)
  BY <1>0, Runner
<1>2. WalkFrom(tasks, y.walk, y.base, tasks[y.walk].from)
  BY <1>1 DEF TaskOK, TableOK
<1>3. f \in Futures(tasks, service) /\ f \in Future /\ f # << >>
  <2>1. y.walk \in DOMAIN tasks /\ y.walk \in Nat
    BY <1>1, <1>2 DEF WalkFrom, IsA, TaskType
  <2> QED BY <2>1, FuturesAre DEF Futures
<1>4. /\ x \in TaskType /\ x.prog = y.prog /\ x.base = y.base /\ x.from = y.from
      /\ x.at = "row" /\ x.walk = y.walk /\ x.asked = y.asked /\ x.wait = f
      /\ x.out = y.out /\ x.got = y.got
  <2> HIDE DEF y, f
  <2> QED BY <1>1, <1>3 DEF TaskType, Labels
<1>5. tasks' = ts2 /\ Await(f, IsDone(f), t) /\ service' = service
  BY DEF TableAwaitsRow, AwaitTask, Put
<1> HIDE DEF x
<1>6. Becomes(tasks, t, x) /\ Discreet(tasks, t, x) /\ x.out = tasks[t].out
  BY <1>1, <1>4 DEF Becomes, Discreet
<1>7. /\ ts2[t] = x /\ Len(ts2) = Len(tasks)
      /\ \A u \in DOMAIN tasks : u # t => ts2[u] = tasks[u]
  BY <1>1, <1>4, GoodIs, PutIs
<1>8. Keeps(tasks, ts2) /\ Holds(service, service)
  BY <1>1, <1>6, GoodIs, PutKeeps DEF Holds
<1> HIDE DEF ts2
<1>9. WalkFrom(ts2, y.walk, y.base, ts2[y.walk].from) /\ ts2[y.walk].from = tasks[y.walk].from
  BY <1>2, <1>8, StillThere DEF WalkFrom
<1>10. TaskOK(ts2, service, metrics, t)
  <2>1. TableOK(tasks, service, y) /\ Tells(tasks, metrics, t, y) /\ y.walk <= Len(tasks)
    BY <1>1 DEF TaskOK
  <2>2. y.out.val # Nothing
    BY <1>1, ValuesApart
  <2> HIDE DEF y
  <2>3. TableOK(ts2, service, x)
    BY <1>1, <1>3, <1>4, <1>9, <2>1 DEF TableOK, Ended, f
  <2>4. Tells(ts2, metrics, t, x)
    BY <1>1, <1>4, <1>9, <2>1, <2>2 DEF Tells
  <2> QED BY <1>1, <1>4, <1>7, <2>1, <2>3, <2>4 DEF TaskOK
<1> HIDE DEF y, f
<1> QED BY <1>0, <1>1, <1>3, <1>4, <1>5, <1>6, <1>10, AwaitStep DEF ts2

\* What a table plugin got from its walk.
LEMMA GotRow ==
    ASSUME Good, NEW t, At(t, "table", "row")
    PROVE  LET y == tasks[t]
               w == tasks[y.walk].from
           IN  /\ w \in Oid /\ Told(metrics, t) = UpTo(y.base, w)
               /\ y.got.val \in Value \cup Errors \cup {Nothing}
               /\ y.got.val = Nothing => Told(metrics, t) = TableOf(y.base)
               /\ y.got.val \in Value =>
                     /\ WalkFrom(tasks, y.got.walk, y.base, y.got.oid)
                     /\ StartsWith(y.got.oid, y.base) /\ StartsWith(w, y.base)
                     /\ IsNext(w, y.got.oid)
<1> DEFINE y == tasks[t]
           z == tasks[y.walk]
<1>1. /\ t \in DOMAIN tasks /\ y \in TaskType /\ y.prog = "table" /\ y.at = "row"
      /\ y.wait = << >> /\ TaskOK(tasks, service, metrics, t)
  BY Runner
<1>2. TableOK(tasks, service, y) /\ Tells(tasks, metrics, t, y)
  BY <1>1 DEF TaskOK
<1>3. /\ y.walk \in DOMAIN tasks /\ z.prog = "walk" /\ z.base = y.base
      /\ y.got = z.out /\ y.got.val # Pending
  BY <1>1, <1>2 DEF TableOK, WalkFrom, IsA
<1>4. z \in TaskType /\ TaskOK(tasks, service, metrics, y.walk)
  <2>1. z \in TaskType
    BY <1>3, GoodIs
  <2>2. TaskOK(tasks, service, metrics, y.walk)
    BY <1>3, GoodIs DEF Locals
  <2> QED BY <2>1, <2>2
<1>5. WalkOK(tasks, service, z)
  BY <1>3, <1>4 DEF TaskOK
<1>6. Told(metrics, t) = UpTo(y.base, z.from)
  BY <1>1, <1>2 DEF Tells
<1>7. z.from \in Oid /\ y.base \in Oid /\ z.out.val \in Vals
  BY <1>1, <1>4 DEF TaskType
<1> HIDE DEF z
<1>8. y.got.val \in Value \cup Errors \cup {Nothing}
  BY <1>3, <1>7 DEF Vals
<1>9. y.got.val = Nothing => Told(metrics, t) = TableOf(y.base)
  BY <1>3, <1>5, <1>6, <1>7, Beginnings DEF WalkOK
<1>10. y.got.val \in Value => /\ WalkFrom(tasks, y.got.walk, y.base, y.got.oid)
                              /\ StartsWith(y.got.oid, y.base) /\ StartsWith(z.from, y.base)
                              /\ IsNext(z.from, y.got.oid)
  BY <1>3, <1>5 DEF WalkOK
<1> QED BY <1>6, <1>7, <1>8, <1>9, <1>10 DEF z

LEMMA TableEndsStep == ASSUME Good, NEW t, TableEnds(t) PROVE Good'
<1>1. At(t, "table", "row") /\ UNCHANGED Collected /\ Got(t).val \notin Value /\ Ends(t)
  BY DEF TableEnds
<1>2. Got(t).val \notin Errors => Told(metrics, t) = TableOf(tasks[t].base)
  BY <1>1, GotRow DEF Got
<1> QED BY <1>1, <1>2, EndsStep

LEMMA TableLeavesStep == ASSUME Good, NEW t, TableLeaves(t) PROVE Good'
<1> DEFINE out == [oid |-> tasks[t].from, val |-> Nothing, walk |-> 0]
<1>1. /\ At(t, "table", "reported") /\ UNCHANGED Collected /\ tasks[t].base \in Early
      /\ Finish(t, out)
  BY DEF TableLeaves, None, Answer
<1>2. tasks[t] \in TaskType
  BY <1>1, Runner
<1>3. /\ out \in [oid : Oid, val : Vals, walk : Nat] /\ out.val # Pending
      /\ out.val \in Errors \cup {Nothing}
  BY <1>2, ValuesApart DEF TaskType, Vals
<1> HIDE DEF out
<1> QED BY <1>1, <1>3, FinishStep

LEMMA TableReportsRowStep == ASSUME Good, NEW t, TableReportsRow(t) PROVE Good'
<1> DEFINE y   == tasks[t]
           w   == tasks[y.walk].from
           x   == [y EXCEPT !.at = "reported", !.walk = y.got.walk]
           ts2 == Put(tasks, t, x)
<1>0. At(t, "table", "row") /\ y.got.val \in Value
  BY DEF TableReportsRow, Got
<1>1. /\ stack # << >> /\ Head(stack) = RunF(t)
      /\ t \in DOMAIN tasks /\ y \in TaskType /\ y.prog = "table" /\ y.at = "row"
      /\ y.wait = << >> /\ y.out.val = Pending
      /\ TaskOK(tasks, service, metrics, t)
  BY <1>0, Runner
<1>2. /\ w \in Oid /\ Told(metrics, t) = UpTo(y.base, w)
      /\ WalkFrom(tasks, y.got.walk, y.base, y.got.oid)
      /\ StartsWith(y.got.oid, y.base) /\ StartsWith(w, y.base) /\ IsNext(w, y.got.oid)
  BY <1>0, GotRow
<1>3. y.got.walk \in Nat /\ y.got.oid \in Oid /\ y.base \in Oid /\ t \in Nat
  <2>1. t \in Nat
    BY <1>1, GoodIs
  <2> QED BY <1>1, <2>1 DEF TaskType
<1>4. /\ x \in TaskType /\ x.prog = y.prog /\ x.base = y.base /\ x.from = y.from
      /\ x.at = "reported" /\ x.walk = y.got.walk /\ x.asked = y.asked /\ x.wait = << >>
      /\ x.out = y.out /\ x.got = y.got
  <2> HIDE DEF y
  <2> QED BY <1>1, <1>3 DEF TaskType, Labels
<1>5. /\ tasks' = ts2 /\ service' = service
      /\ UNCHANGED <<callbacks, stack, pending, alerts>>
      /\ metrics' = WithRow(metrics, t, y.got.oid)
  BY DEF TableReportsRow, Report, Got, Put, WithRow
<1> HIDE DEF x
<1>6. Becomes(tasks, t, x) /\ Discreet(tasks, t, x) /\ x.out = tasks[t].out /\ x.wait = tasks[t].wait
  BY <1>1, <1>4 DEF Becomes, Discreet
<1>7. /\ ts2[t] = x /\ Len(ts2) = Len(tasks)
      /\ \A u \in DOMAIN tasks : u # t => ts2[u] = tasks[u]
  BY <1>1, <1>4, GoodIs, PutIs
<1>8. Keeps(tasks, ts2) /\ Holds(service, service)
  BY <1>1, <1>6, GoodIs, PutKeeps DEF Holds
<1> HIDE DEF ts2
<1>9. WalkFrom(ts2, x.walk, x.base, ts2[x.walk].from) /\ ts2[x.walk].from = y.got.oid
  BY <1>2, <1>4, <1>8, StillThere DEF WalkFrom
<1>10. /\ y.got.oid \in TableOf(y.base)
       /\ UpTo(y.base, y.got.oid) = UpTo(y.base, w) \cup {y.got.oid}
       /\ \A k \in UpTo(y.base, w) : k \prec y.got.oid
  BY <1>2, <1>3, NextRow
<1>11. TableOK(tasks, service, y) /\ Tells(tasks, metrics, t, y)
  BY <1>1 DEF TaskOK
<1>12. Adds(metrics, metrics', t, y.got.oid)
  BY <1>3, <1>5, GoodIs, Reports
<1>13. Owned(tasks, metrics')
  BY <1>1, <1>12, GoodIs DEF TablesOf, Adds
<1>14. /\ Told(metrics', t) = UpTo(y.base, y.got.oid)
       /\ \A i, j \in RowsOf(metrics', t) : i < j => metrics'[i].oid \prec metrics'[j].oid
  BY <1>2, <1>10, <1>11, <1>12 DEF Tells, Adds
<1>15. TaskOK(ts2, service', metrics', t)
  <2>1. /\ UpTo(y.base, y.got.oid) \subseteq TableOf(y.base)
        /\ \A k \in TableOf(y.base), p \in UpTo(y.base, y.got.oid) :
              k \prec p => k \in UpTo(y.base, y.got.oid)
    BY <1>3, Beginnings
  <2>2. y.out.val # Nothing
    BY <1>1, ValuesApart
  <2>3. x.walk <= Len(tasks)
    BY <1>2, <1>4, GoodIs DEF WalkFrom, IsA
  <2> HIDE DEF y
  <2>4. TableOK(ts2, service', x)
    BY <1>1, <1>4, <1>5, <1>9, <1>11 DEF TableOK, Ended
  <2>5. Tells(ts2, metrics', t, x)
    BY <1>4, <1>9, <1>14, <2>1, <2>2 DEF Tells
  <2> QED BY <1>1, <1>4, <1>7, <2>3, <2>4, <2>5 DEF TaskOK
<1> HIDE DEF y
<1> QED BY <1>1, <1>5, <1>6, <1>12, <1>13, <1>15, GoesOnStep DEF ts2, Adds

LEMMA TableKeepsRowStep == ASSUME Good, NEW t, TableKeepsRow(t) PROVE Good'
<1> DEFINE y   == tasks[t]
           w   == tasks[y.walk].from
           x   == [y EXCEPT !.at = "asking", !.walk = y.got.walk, !.from = y.got.oid, !.asked = << >>]
           ts2 == Put(tasks, t, x)
<1>0. At(t, "table", "row") /\ y.got.val \in Value /\ y.base \in DOMAIN Detail
  BY DEF TableKeepsRow, Got
<1>1. /\ stack # << >> /\ Head(stack) = RunF(t)
      /\ t \in DOMAIN tasks /\ y \in TaskType /\ y.prog = "table" /\ y.at = "row"
      /\ y.wait = << >> /\ y.out.val = Pending
      /\ TaskOK(tasks, service, metrics, t)
  BY <1>0, Runner
<1>2. /\ w \in Oid /\ Told(metrics, t) = UpTo(y.base, w)
      /\ WalkFrom(tasks, y.got.walk, y.base, y.got.oid)
      /\ StartsWith(y.got.oid, y.base) /\ StartsWith(w, y.base) /\ IsNext(w, y.got.oid)
  BY <1>0, GotRow
<1>3. y.got.walk \in Nat /\ y.got.oid \in Oid /\ y.base \in Oid /\ << >> \in Seq(Future)
  BY <1>1 DEF TaskType
<1>4. /\ x \in TaskType /\ x.prog = y.prog /\ x.base = y.base /\ x.from = y.got.oid
      /\ x.at = "asking" /\ x.walk = y.got.walk /\ x.asked = << >> /\ x.wait = << >>
      /\ x.out = y.out /\ x.got = y.got
  <2> HIDE DEF y
  <2> QED BY <1>1, <1>3 DEF TaskType, Labels
<1>5. /\ tasks' = ts2 /\ service' = service /\ metrics' = metrics
      /\ UNCHANGED <<callbacks, stack, pending, alerts>>
  BY DEF TableKeepsRow, Got, Put, Collected
<1> HIDE DEF x
<1>6. Becomes(tasks, t, x) /\ Discreet(tasks, t, x) /\ x.out = tasks[t].out /\ x.wait = tasks[t].wait
  BY <1>1, <1>4 DEF Becomes, Discreet
<1>7. /\ ts2[t] = x /\ Len(ts2) = Len(tasks)
      /\ \A u \in DOMAIN tasks : u # t => ts2[u] = tasks[u]
  BY <1>1, <1>4, GoodIs, PutIs
<1>8. Keeps(tasks, ts2) /\ Holds(service, service)
  BY <1>1, <1>6, GoodIs, PutKeeps DEF Holds
<1> HIDE DEF ts2
<1>9. WalkFrom(ts2, x.walk, x.base, ts2[x.walk].from) /\ ts2[x.walk].from = y.got.oid
  BY <1>2, <1>4, <1>8, StillThere DEF WalkFrom
<1>10. y.got.oid \in TableOf(y.base) /\ Told(metrics, t) = Before(y.base, y.got.oid)
  BY <1>2, <1>3, NextRow
<1>11. TableOK(tasks, service, y) /\ Tells(tasks, metrics, t, y)
  BY <1>1 DEF TaskOK
<1>12. /\ metrics' \in Seq(RowType) /\ Owned(tasks, metrics')
       /\ \A u \in DOMAIN tasks : u # t => SameRows(metrics, metrics', u)
  BY <1>5, GoodIs DEF SameRows
<1>13. TaskOK(ts2, service', metrics', t)
  <2>1. y.out.val # Nothing
    BY <1>1, ValuesApart
  <2>2. x.walk <= Len(tasks)
    BY <1>2, <1>4, GoodIs DEF WalkFrom, IsA
  <2> HIDE DEF y
  <2>3. TableOK(ts2, service', x)
    BY <1>0, <1>1, <1>4, <1>5, <1>9, <1>10, <1>11 DEF TableOK, Ended, y
  <2>4. Tells(ts2, metrics', t, x)
    BY <1>4, <1>5, <1>9, <1>10, <1>11, <2>1 DEF Tells
  <2> QED BY <1>1, <1>4, <1>7, <2>2, <2>3, <2>4 DEF TaskOK
<1> HIDE DEF y
<1> QED BY <1>1, <1>5, <1>6, <1>12, <1>13, GoesOnStep DEF ts2

LEMMA TableGoesOnStep == ASSUME Good, NEW t, TableGoesOn(t) PROVE Good'
<1> DEFINE y   == tasks[t]
           x   == [y EXCEPT !.at = "walking"]
           ts2 == Put(tasks, t, x)
<1>0. At(t, "table", "reported")
  BY DEF TableGoesOn
<1>1. /\ stack # << >> /\ Head(stack) = RunF(t)
      /\ t \in DOMAIN tasks /\ y \in TaskType /\ y.prog = "table" /\ y.at = "reported"
      /\ y.wait = << >> /\ y.out.val = Pending
      /\ TaskOK(tasks, service, metrics, t)
  BY <1>0, Runner
<1>4. /\ x \in TaskType /\ x.prog = y.prog /\ x.base = y.base /\ x.from = y.from
      /\ x.at = "walking" /\ x.walk = y.walk /\ x.asked = y.asked /\ x.wait = << >>
      /\ x.out = y.out /\ x.got = y.got
  <2> HIDE DEF y
  <2> QED BY <1>1 DEF TaskType, Labels
<1>5. /\ tasks' = ts2 /\ service' = service /\ metrics' = metrics
      /\ UNCHANGED <<callbacks, stack, pending, alerts>>
  BY DEF TableGoesOn, Goto, Put, Collected
<1> HIDE DEF x
<1>6. Becomes(tasks, t, x) /\ Discreet(tasks, t, x) /\ x.out = tasks[t].out /\ x.wait = tasks[t].wait
  BY <1>1, <1>4 DEF Becomes, Discreet
<1>7. /\ ts2[t] = x /\ Len(ts2) = Len(tasks)
      /\ \A u \in DOMAIN tasks : u # t => ts2[u] = tasks[u]
  BY <1>1, <1>4, GoodIs, PutIs
<1>8. Keeps(tasks, ts2) /\ Holds(service, service)
  BY <1>1, <1>6, GoodIs, PutKeeps DEF Holds
<1> HIDE DEF ts2
<1>9. TableOK(tasks, service, y) /\ Tells(tasks, metrics, t, y)
  BY <1>1 DEF TaskOK
<1>10. /\ WalkFrom(ts2, x.walk, x.base, ts2[x.walk].from)
       /\ ts2[x.walk].from = tasks[y.walk].from
  BY <1>1, <1>4, <1>8, <1>9, StillThere DEF WalkFrom, TableOK
<1>12. /\ metrics' \in Seq(RowType) /\ Owned(tasks, metrics')
       /\ \A u \in DOMAIN tasks : u # t => SameRows(metrics, metrics', u)
  BY <1>5, GoodIs DEF SameRows
<1>13. TaskOK(ts2, service', metrics', t)
  <2>1. y.out.val # Nothing
    BY <1>1, ValuesApart
  <2>2. x.walk <= Len(tasks)
    BY <1>1, <1>4 DEF TaskOK
  <2> HIDE DEF y
  <2>3. TableOK(ts2, service', x)
    BY <1>1, <1>4, <1>5, <1>9, <1>10 DEF TableOK, Ended
  <2>4. Tells(ts2, metrics', t, x)
    BY <1>1, <1>4, <1>5, <1>9, <1>10, <2>1 DEF Tells
  <2> QED BY <1>1, <1>4, <1>7, <2>2, <2>3, <2>4 DEF TaskOK
<1> HIDE DEF y
<1> QED BY <1>1, <1>5, <1>6, <1>12, <1>13, GoesOnStep DEF ts2

\* A row's columns are asked for by its last index.
LEMMA ColumnIsOid ==
    ASSUME NEW b \in DOMAIN Detail, NEW k \in 1 .. Len(Detail[b]), NEW o, o \in TableOf(b)
    PROVE  Append(Detail[b][k], Last(o)) \in Oid
<1>1. Detail[b][k] \in Oid
  <2>1. Detail[b] \in Seq(Oid)
    BY ControllerAssumption
  <2> QED BY <2>1
<1>2. o \in Oid \ {<< >>}
  BY MIBAssumption DEF TableOf, After
<1>3. Last(o) \in Nat
  BY <1>2 DEF Last, Oid
<1> QED BY <1>1, <1>3 DEF Oid

LEMMA TableAsksColumnStep == ASSUME Good, NEW t, TableAsksColumn(t) PROVE Good'
<1> DEFINE y   == tasks[t]
           n   == NextCall(service)
           x   == [y EXCEPT !.asked = Append(y.asked, Call(n))]
           ts2 == Put(tasks, t, x)
           o   == Append(Detail[y.base][Len(y.asked) + 1], Last(y.from))
<1>0. At(t, "table", "asking") /\ Len(y.asked) < Len(Detail[y.base])
  BY DEF TableAsksColumn, Columns
<1>1. /\ stack # << >> /\ Head(stack) = RunF(t)
      /\ t \in DOMAIN tasks /\ y \in TaskType /\ y.prog = "table" /\ y.at = "asking"
      /\ y.wait = << >> /\ y.out.val = Pending
      /\ TaskOK(tasks, service, metrics, t)
  BY <1>0, Runner
<1>2. TableOK(tasks, service, y) /\ Tells(tasks, metrics, t, y)
  BY <1>1 DEF TaskOK
<1>3. o \in Oid
  <2>1. y.base \in DOMAIN Detail /\ y.from \in TableOf(y.base) /\ y.asked \in Seq(Future)
    BY <1>1, <1>2 DEF TableOK, TaskType
  <2>2. Len(Detail[y.base]) \in Nat
    BY <2>1, ControllerAssumption
  <2>3. Len(y.asked) + 1 \in 1 .. Len(Detail[y.base])
    BY <1>0, <2>1, <2>2
  <2> HIDE DEF y
  <2> QED BY <2>1, <2>3, ColumnIsOid
<1>4. n \in Nat /\ Call(n) \in Future
  <2>1. n \in Nat
    BY GoodIs DEF NextCall
  <2> QED BY <2>1, FuturesAre
<1>5. /\ x \in TaskType /\ x.prog = y.prog /\ x.base = y.base /\ x.from = y.from
      /\ x.at = "asking" /\ x.walk = y.walk /\ x.wait = << >>
      /\ x.asked = Append(y.asked, Call(n)) /\ x.out = y.out /\ x.got = y.got
  <2> HIDE DEF y, n
  <2> QED BY <1>1, <1>4, SMTT(30) DEF TaskType
<1>6. /\ tasks' = ts2 /\ metrics' = metrics
      /\ UNCHANGED <<callbacks, stack, pending, alerts>>
      /\ \E a \in Replies("get", o) : service' = Ask(service, "get", o, a)
  BY DEF TableAsksColumn, Columns, Put, Collected, Replies, Ask, Asked, NextCall
<1> HIDE DEF x, o
<1>7. /\ Calls(service, service', n) /\ Holds(service, service')
      /\ IsCall(service', Call(n))
  <2>1. PICK a \in Replies("get", o) : service' = Ask(service, "get", o, a)
    BY <1>6
  <2>2. "get" \in {"get", "next"} /\ n = NextCall(service)
    OBVIOUS
  <2> HIDE DEF n
  <2>3. Calls(service, service', n) /\ IsCall(service', Call(n))
    BY <1>3, <2>1, <2>2, GoodIs, AskedIs
  <2> QED BY <2>3 DEF Calls
<1> HIDE DEF n
<1>8. Becomes(tasks, t, x) /\ Discreet(tasks, t, x) /\ x.out = tasks[t].out /\ x.wait = tasks[t].wait
  BY <1>1, <1>5 DEF Becomes, Discreet
<1>9. /\ ts2[t] = x /\ Len(ts2) = Len(tasks)
      /\ \A u \in DOMAIN tasks : u # t => ts2[u] = tasks[u]
  BY <1>1, <1>5, GoodIs, PutIs
<1>10. Keeps(tasks, ts2)
  BY <1>1, <1>8, GoodIs, PutKeeps
<1> HIDE DEF ts2
<1>11. /\ WalkFrom(ts2, x.walk, x.base, ts2[x.walk].from)
       /\ ts2[x.walk].from = tasks[y.walk].from
  BY <1>1, <1>2, <1>5, <1>7, <1>10, StillThere DEF WalkFrom, TableOK
<1>12. \A k \in DOMAIN x.asked : IsCall(service', x.asked[k])
  <2>1. \A k \in DOMAIN y.asked : IsCall(service', y.asked[k])
    BY <1>2, <1>7, <1>10, StillThere DEF TableOK
  <2>2. y.asked \in Seq(Future)
    BY <1>1 DEF TaskType
  <2>3. /\ DOMAIN x.asked = DOMAIN y.asked \cup {Len(y.asked) + 1}
        /\ x.asked[Len(y.asked) + 1] = Call(n)
        /\ \A k \in DOMAIN y.asked : x.asked[k] = y.asked[k]
    BY <1>4, <1>5, <2>2, Appended
  <2> QED BY <1>7, <2>1, <2>3
<1>13. /\ metrics' \in Seq(RowType) /\ Owned(tasks, metrics')
       /\ \A u \in DOMAIN tasks : u # t => SameRows(metrics, metrics', u)
  BY <1>6, GoodIs DEF SameRows
<1>14. TaskOK(ts2, service', metrics', t)
  <2>1. y.out.val # Nothing
    BY <1>1, ValuesApart
  <2>2. x.walk <= Len(tasks)
    BY <1>1, <1>5 DEF TaskOK
  <2> HIDE DEF y
  <2>3. TableOK(ts2, service', x)
    BY <1>1, <1>2, <1>5, <1>11, <1>12 DEF TableOK, Ended
  <2>4. Tells(ts2, metrics', t, x)
    BY <1>1, <1>2, <1>5, <1>6, <1>11, <2>1 DEF Tells
  <2> QED BY <1>1, <1>5, <1>9, <2>2, <2>3, <2>4 DEF TaskOK
<1> HIDE DEF y
<1> QED BY <1>1, <1>6, <1>7, <1>8, <1>13, <1>14, GoesOnStep DEF ts2

LEMMA TableAwaitsColumnStep == ASSUME Good, NEW t, TableAwaitsColumn(t) PROVE Good'
<1> DEFINE y   == tasks[t]
           f   == Head(y.asked)
           x   == [y EXCEPT !.at = "detail", !.wait = f, !.asked = Tail(y.asked)]
           ts2 == Put(tasks, t, x)
<1>0. y.asked # << >> /\ UNCHANGED Collected
  BY DEF TableAwaitsColumn
<1>1. /\ stack # << >> /\ Head(stack) = RunF(t)
      /\ t \in DOMAIN tasks /\ y \in TaskType /\ y.prog = "table" /\ y.at \in {"asking", "detail"}
      /\ y.wait = << >> /\ y.out.val = Pending
      /\ TaskOK(tasks, service, metrics, t)
  <2>1. CASE At(t, "table", "asking")
    BY <2>1, Runner
  <2>2. CASE At(t, "table", "detail")
    BY <2>2, Runner
  <2> QED BY <2>1, <2>2 DEF TableAwaitsColumn
<1>2. TableOK(tasks, service, y) /\ Tells(tasks, metrics, t, y)
  BY <1>1 DEF TaskOK
<1>3. /\ IsCall(service, f) /\ Tail(y.asked) \in Seq(Future) /\ f \in Future
      /\ \A k \in DOMAIN Tail(y.asked) : IsCall(service, Tail(y.asked)[k])
  <2>1. y.asked \in Seq(Future) /\ \A k \in DOMAIN y.asked : IsCall(service, y.asked[k])
    BY <1>1, <1>2 DEF TableOK, TaskType
  <2> DEFINE s == y.asked
  <2>2. s \in Seq(Future) /\ s # << >> /\ \A k \in DOMAIN s : IsCall(service, s[k])
    BY <1>0, <2>1
  <2> HIDE DEF s
  <2>3. /\ Tail(s) \in Seq(Future) /\ Head(s) \in Future /\ Head(s) = s[1] /\ 1 \in DOMAIN s
        /\ \A k \in DOMAIN Tail(s) : k + 1 \in DOMAIN s /\ Tail(s)[k] = s[k + 1]
    BY <2>2
  <2> QED BY <2>2, <2>3 DEF s
<1>4. f \in Futures(tasks, service) /\ f # << >>
  BY <1>3, FuturesAre DEF Futures, IsCall
<1>5. /\ x \in TaskType /\ x.prog = y.prog /\ x.base = y.base /\ x.from = y.from
      /\ x.at = "detail" /\ x.walk = y.walk /\ x.wait = f /\ x.asked = Tail(y.asked)
      /\ x.out = y.out /\ x.got = y.got
  <2> DEFINE s == Tail(y.asked)
  <2>1. s \in Seq(Future)
    BY <1>3
  <2> HIDE DEF y, f, s
  <2>2. /\ [y EXCEPT !.at = "detail", !.wait = f, !.asked = s] \in TaskType
        /\ LET z == [y EXCEPT !.at = "detail", !.wait = f, !.asked = s]
           IN  /\ z.prog = y.prog /\ z.base = y.base /\ z.from = y.from /\ z.at = "detail"
               /\ z.walk = y.walk /\ z.wait = f /\ z.asked = s /\ z.out = y.out /\ z.got = y.got
    BY <1>1, <1>3, <2>1 DEF TaskType, Labels
  <2> QED BY <2>2 DEF s
<1>6. tasks' = ts2 /\ Await(f, IsDone(f), t) /\ service' = service
  BY DEF TableAwaitsColumn, Put
<1> HIDE DEF x
<1>7. Becomes(tasks, t, x) /\ Discreet(tasks, t, x) /\ x.out = tasks[t].out
  BY <1>1, <1>5 DEF Becomes, Discreet
<1>8. /\ ts2[t] = x /\ Len(ts2) = Len(tasks)
      /\ \A u \in DOMAIN tasks : u # t => ts2[u] = tasks[u]
  BY <1>1, <1>5, GoodIs, PutIs
<1>9. Keeps(tasks, ts2) /\ Holds(service, service)
  BY <1>1, <1>7, GoodIs, PutKeeps DEF Holds
<1> HIDE DEF ts2
<1>10. /\ WalkFrom(ts2, y.walk, y.base, ts2[y.walk].from)
       /\ ts2[y.walk].from = tasks[y.walk].from
  BY <1>1, <1>2, <1>9, StillThere DEF WalkFrom, TableOK
<1>11. TaskOK(ts2, service, metrics, t)
  <2>1. y.out.val # Nothing /\ y.walk <= Len(tasks)
    BY <1>1, ValuesApart DEF TaskOK
  <2> HIDE DEF y, f
  <2>2. TableOK(ts2, service, x)
    BY <1>1, <1>2, <1>3, <1>4, <1>5, <1>10 DEF TableOK, Ended
  <2>3. Tells(ts2, metrics, t, x)
    BY <1>1, <1>2, <1>5, <1>10, <2>1 DEF Tells
  <2> QED BY <1>1, <1>5, <1>8, <2>1, <2>2, <2>3 DEF TaskOK
<1> HIDE DEF y, f
<1> QED BY <1>0, <1>1, <1>4, <1>5, <1>6, <1>7, <1>11, AwaitStep DEF ts2

LEMMA TableReportsDetailStep == ASSUME Good, NEW t, TableReportsDetail(t) PROVE Good'
<1> DEFINE y   == tasks[t]
           x   == [y EXCEPT !.at = "reported"]
           ts2 == Put(tasks, t, x)
<1>0. At(t, "table", "detail")
  BY DEF TableReportsDetail
<1>1. /\ stack # << >> /\ Head(stack) = RunF(t)
      /\ t \in DOMAIN tasks /\ y \in TaskType /\ y.prog = "table" /\ y.at = "detail"
      /\ y.wait = << >> /\ y.out.val = Pending
      /\ TaskOK(tasks, service, metrics, t)
  BY <1>0, Runner
<1>2. CASE Got(t).val \in Errors /\ Ends(t) /\ UNCHANGED metrics
  <2>1. UNCHANGED Collected
    BY <1>2 DEF TableReportsDetail, Collected
  <2> QED BY <1>0, <1>2, <2>1, EndsStep
<1>3. CASE /\ tasks' = Goto(t, "reported") /\ Report(t, y.from)
           /\ UNCHANGED <<service, callbacks, stack>>
  <2>1. /\ x \in TaskType /\ x.prog = y.prog /\ x.base = y.base /\ x.from = y.from
        /\ x.at = "reported" /\ x.walk = y.walk /\ x.asked = y.asked /\ x.wait = << >>
        /\ x.out = y.out /\ x.got = y.got
    <3> HIDE DEF y
    <3> QED BY <1>1 DEF TaskType, Labels
  <2>2. /\ tasks' = ts2 /\ service' = service
        /\ UNCHANGED <<callbacks, stack, pending, alerts>>
        /\ metrics' = WithRow(metrics, t, y.from)
    BY <1>3 DEF TableReportsDetail, Report, Goto, Put, WithRow
  <2> HIDE DEF x
  <2>3. Becomes(tasks, t, x) /\ Discreet(tasks, t, x) /\ x.out = tasks[t].out /\ x.wait = tasks[t].wait
    BY <1>1, <2>1 DEF Becomes, Discreet
  <2>4. /\ ts2[t] = x /\ Len(ts2) = Len(tasks)
        /\ \A u \in DOMAIN tasks : u # t => ts2[u] = tasks[u]
    BY <1>1, <2>1, GoodIs, PutIs
  <2>5. Keeps(tasks, ts2) /\ Holds(service, service)
    BY <1>1, <2>3, GoodIs, PutKeeps DEF Holds
  <2> HIDE DEF ts2
  <2>6. TableOK(tasks, service, y) /\ Tells(tasks, metrics, t, y)
    BY <1>1 DEF TaskOK
  <2>7. /\ WalkFrom(ts2, x.walk, x.base, ts2[x.walk].from)
        /\ ts2[x.walk].from = y.from
    BY <1>1, <2>1, <2>5, <2>6, StillThere DEF WalkFrom, TableOK
  <2>8. /\ y.from \in TableOf(y.base) /\ y.from \in Oid /\ y.base \in Oid /\ t \in Nat
        /\ Told(metrics, t) = Before(y.base, y.from)
    <3>1. t \in Nat
      BY <1>1, GoodIs
    <3> QED BY <1>1, <2>6, <3>1 DEF TableOK, Tells, TaskType
  <2>9. Adds(metrics, metrics', t, y.from)
    BY <2>2, <2>8, GoodIs, Reports
  <2>10. Owned(tasks, metrics')
    BY <1>1, <2>9, GoodIs DEF TablesOf, Adds
  <2>11. /\ Told(metrics', t) = UpTo(y.base, y.from)
         /\ \A i, j \in RowsOf(metrics', t) : i < j => metrics'[i].oid \prec metrics'[j].oid
    <3>1. UpTo(y.base, y.from) = Before(y.base, y.from) \cup {y.from}
      BY <2>8, Beginnings
    <3>2. \A p \in Told(metrics, t) : p \prec y.from
      BY <2>8 DEF Before
    <3> QED BY <2>6, <2>8, <2>9, <3>1, <3>2 DEF Tells, Adds
  <2>12. TaskOK(ts2, service', metrics', t)
    <3>1. /\ UpTo(y.base, y.from) \subseteq TableOf(y.base)
          /\ \A k \in TableOf(y.base), p \in UpTo(y.base, y.from) :
                k \prec p => k \in UpTo(y.base, y.from)
      BY <2>8, Beginnings
    <3>2. y.out.val # Nothing
      BY <1>1, ValuesApart
    <3>3. x.walk <= Len(tasks)
      BY <1>1, <2>1 DEF TaskOK
    <3> HIDE DEF y
    <3>4. TableOK(ts2, service', x)
      BY <1>1, <2>1, <2>2, <2>6, <2>7 DEF TableOK, Ended
    <3>5. Tells(ts2, metrics', t, x)
      BY <2>1, <2>7, <2>11, <3>1, <3>2 DEF Tells
    <3> QED BY <1>1, <2>1, <2>4, <3>3, <3>4, <3>5 DEF TaskOK
  <2> HIDE DEF y
  <2> QED BY <1>1, <2>2, <2>3, <2>9, <2>10, <2>12, GoesOnStep DEF ts2, Adds
<1> QED BY <1>2, <1>3 DEF TableReportsDetail

-----------------------------------------------------------------------------
(* detect and the family's detection.                                        *)

LEMMA StartedIs ==
    ASSUME Device \in DOMAIN Families
    PROVE  /\ Len(Started) \in Nat
           /\ \A m \in 1 .. Len(Started) : Started[m] \in Oid
           /\ \A k, m \in 1 .. Len(Started) :
                 Started[k] = Started[m] => k = m \/ Started[k] = sysObjectID
           /\ StartedSoFar(0) = {}
           /\ \A m \in 1 .. Len(Started) :
                 StartedSoFar(m) = StartedSoFar(m - 1) \cup ({Started[m]} \ {sysObjectID})
<1> DEFINE s == Started
<1>1. s \in Seq(OIDS) /\ OIDS \subseteq Oid
      /\ \A k, m \in DOMAIN s : s[k] = s[m] => k = m \/ s[k] = sysObjectID
  BY ControllerAssumption DEF Started
<1> HIDE DEF s
<1>2. /\ Len(s) \in Nat /\ DOMAIN s = 1 .. Len(s)
      /\ \A m \in 1 .. Len(s) : s[m] \in Oid
  BY <1>1
<1>3. {s[m] : m \in 1 .. 0} = {}
  OBVIOUS
<1>4. ASSUME NEW m \in 1 .. Len(s)
      PROVE  {s[k] : k \in 1 .. m} = {s[k] : k \in 1 .. m - 1} \cup {s[m]}
  <2>1. 1 .. m = (1 .. m - 1) \cup {m}
    BY <1>2
  <2> QED BY <2>1
<1> QED BY <1>1, <1>2, <1>3, <1>4 DEF StartedSoFar, s

NextTask(ts)      == Len(ts) + 1
WithNew(ts, t, x, y) == Append(Put(ts, t, x), y)

\* Task t has become x and made y.
Makes(ts, ts2, t, x, y) ==
    LET n == NextTask(ts) IN
    /\ DOMAIN ts2 = DOMAIN ts \cup {n} /\ ts2[n] = y /\ n \notin DOMAIN ts
    /\ ts2[t] = x /\ \A u \in DOMAIN ts : u # t => ts2[u] = ts[u]
    /\ Len(ts2) = n

LEMMA MadeIs ==
    ASSUME NEW ts \in Seq(TaskType), NEW t \in DOMAIN ts, NEW x \in TaskType, NEW y \in TaskType
    PROVE  Makes(ts, WithNew(ts, t, x, y), t, x, y)
<1> DEFINE ts1 == Put(ts, t, x)
<1>1. /\ ts1 \in Seq(TaskType) /\ DOMAIN ts1 = DOMAIN ts
      /\ Len(ts1) = Len(ts) /\ ts1[t] = x
      /\ \A u \in DOMAIN ts : u # t => ts1[u] = ts[u]
  BY PutIs
<1> HIDE DEF ts1
<1>2. /\ DOMAIN Append(ts1, y) = DOMAIN ts \cup {Len(ts) + 1} /\ Append(ts1, y)[Len(ts) + 1] = y
      /\ Len(ts) + 1 \notin DOMAIN ts
      /\ \A u \in DOMAIN ts : Append(ts1, y)[u] = ts1[u]
      /\ Len(Append(ts1, y)) = Len(ts) + 1
  BY <1>1, Appended
<1> QED BY <1>1, <1>2 DEF ts1, Makes, WithNew, NextTask

LEMMA FamilyIsMade ==
    ASSUME NEW ts, NEW sv, NEW ms, Story(ts, sv, ms),
           NEW t \in DOMAIN ts, NEW x, Becomes(ts, t, x), x.prog = "detect",
           ts[t].at = "got", x.at = "family",
           NEW y \in TaskType, y.prog = "family", y.walk = 0,
           Device \in DOMAIN Families,
           NEW ts2, Makes(ts, ts2, t, x, y)
    PROVE  Globals(ts2)
<1> DEFINE n == NextTask(ts)
<1>1. ts \in Seq(TaskType) /\ n = Len(ts) + 1
  BY DEF Story, Typed, NextTask
<1>3. DOMAIN ts2 = DOMAIN ts \cup {n} /\ ts2[n] = y /\ ts2[t] = x
  BY DEF Makes
<1>4. ts[t].prog = "detect" /\ Len(ts) = 1 /\ t = 1
  BY DEF Story, Globals, Becomes
<1>5. n = 2 /\ DOMAIN ts2 = {1, 2}
  <2>1. DOMAIN ts = {1} /\ n = 2
    BY <1>1, <1>4
  <2> QED BY <1>3, <2>1
<1>6. ts2[1] = x /\ ts2[2] = y
  BY <1>3, <1>4, <1>5
<1>7. TablesOf(ts2) = {}
  BY <1>5, <1>6 DEF TablesOf
<1>8. StartedSoFar(0) = {}
  BY StartedIs
<1> HIDE DEF n
<1> QED BY <1>5, <1>6, <1>7, <1>8 DEF Globals

LEMMA TableIsMade ==
    ASSUME NEW ts, NEW sv, NEW ms, Story(ts, sv, ms),
           NEW t \in DOMAIN ts, NEW x, Becomes(ts, t, x), x.prog = "family",
           NEW y \in TaskType, y.prog = "table", y.base \notin StartedSoFar(ts[t].walk),
           StartedSoFar(x.walk) = StartedSoFar(ts[t].walk) \cup {y.base},
           NEW ts2, Makes(ts, ts2, t, x, y)
    PROVE  Globals(ts2)
<1> DEFINE n == NextTask(ts)
<1>1. /\ ts \in Seq(TaskType) /\ x \in TaskType
  BY DEF Story, Typed, Becomes
<1>3. /\ Len(ts) \in Nat /\ t \in 1 .. Len(ts) /\ DOMAIN ts = 1 .. Len(ts)
      /\ n = Len(ts) + 1
  BY <1>1 DEF NextTask
<1> HIDE DEF n
<1>4. /\ DOMAIN ts2 = DOMAIN ts \cup {n} /\ ts2[n] = y /\ n \notin DOMAIN ts
      /\ ts2[t] = x /\ \A u \in DOMAIN ts : u # t => ts2[u] = ts[u]
  BY DEF n, Makes
<1>5. /\ \A u \in DOMAIN ts : ts2[u].prog = ts[u].prog /\ ts2[u].base = ts[u].base
      /\ \A u \in DOMAIN ts : u # t => ts2[u] = ts[u]
      /\ ts2[t] = x /\ ts[t].prog = "family"
  BY <1>4 DEF Becomes
<1>6. TablesOf(ts2) = TablesOf(ts) \cup {n} /\ TablesOf(ts) \subseteq DOMAIN ts
  BY <1>4, <1>5 DEF TablesOf
<1>7. /\ \A u \in DOMAIN ts : ts[u].prog = "detect" <=> u = 1
      /\ \A u \in DOMAIN ts : ts[u].prog = "detect" /\ ts[u].at \in {"start", "got"} => Len(ts) = 1
      /\ \A w, u \in DOMAIN ts : ts[w].prog = "family" /\ ts[u].prog = "family" => w = u
      /\ {ts[w].base : w \in TablesOf(ts)} = StartedSoFar(ts[t].walk)
      /\ \A w, u \in TablesOf(ts) : ts[w].base = ts[u].base => w = u
  BY <1>5 DEF Story, Globals
<1>8. n # 1 /\ 1 \in DOMAIN ts
  BY <1>3
<1>9. ~ (Len(ts) = 1)
  <2>1. t # 1
    BY <1>5, <1>7
  <2> QED BY <1>3, <2>1
<1>10. \A u \in DOMAIN ts2 : ts2[u].prog = "detect" <=> u = 1
  BY <1>4, <1>5, <1>7, <1>8
<1>11. \A u \in DOMAIN ts2 : ts2[u].prog = "detect" /\ ts2[u].at \in {"start", "got"} => Len(ts2) = 1
  <2> SUFFICES ASSUME NEW u \in DOMAIN ts2, ts2[u].prog = "detect", ts2[u].at \in {"start", "got"}
               PROVE  FALSE
    OBVIOUS
  <2>1. u \in DOMAIN ts /\ u # t
    BY <1>4, <1>5
  <2>2. ts2[u] = ts[u]
    BY <1>5, <2>1
  <2> QED BY <1>7, <1>9, <2>1, <2>2
<1>12. \A w, u \in DOMAIN ts2 : ts2[w].prog = "family" /\ ts2[u].prog = "family" => w = u
  BY <1>4, <1>5, <1>7
<1>13. \E u \in DOMAIN ts2 : ts2[u].prog = "family"
  BY <1>4, <1>5
<1>14. {ts2[w].base : w \in TablesOf(ts2)} = StartedSoFar(x.walk)
  <2>1. {ts2[w].base : w \in TablesOf(ts)} = {ts[w].base : w \in TablesOf(ts)}
    <3>1. \A w \in TablesOf(ts) : ts2[w].base = ts[w].base
      BY <1>5, <1>6
    <3> QED BY <3>1, Zenon
  <2>2. {ts2[w].base : w \in TablesOf(ts2)} = {ts2[w].base : w \in TablesOf(ts)} \cup {y.base}
    BY <1>4, <1>6
  <2> QED BY <1>7, <2>1, <2>2
<1>15. \A u \in DOMAIN ts2 : ts2[u].prog = "family" => ts2[u].walk = x.walk
  BY <1>4, <1>5, <1>7
<1>16. \A w \in TablesOf(ts) : ts[w].base # y.base
  BY <1>7
<1>17. \A w, u \in TablesOf(ts2) : ts2[w].base = ts2[u].base => w = u
  BY <1>4, <1>5, <1>6, <1>7, <1>16
<1> QED BY <1>10, <1>11, <1>12, <1>13, <1>14, <1>15, <1>17 DEF Globals

\* A generator calls a coroutine or starts a plugin.
LEMMA MakeStep ==
    ASSUME Good, NEW t, NEW prog, NEW label, At(t, prog, label),
           NEW x, Becomes(tasks, t, x), x.out = tasks[t].out, x.wait = tasks[t].wait,
           NEW z \in TaskType, z.wait = << >>, z.out.val = Pending,
           NEW n, n = NextTask(tasks), NEW under,
           under = (IF z.prog \in {"detect", "table"} THEN << RegF(n) >> ELSE << >>),
           Invoke(Put(tasks, t, x), z, under), UNCHANGED Collected,
           NEW ts2, ts2 = WithNew(tasks, t, x, z),
           Globals(ts2), TaskOK(ts2, service, metrics, t), TaskOK(ts2, service, metrics, n)
    PROVE  Good'
<1>1. stack # << >> /\ Head(stack) = RunF(t) /\ t \in DOMAIN tasks
  BY Runner
<1>2. Len(Put(tasks, t, x)) = Len(tasks)
  BY <1>1, GoodIs, PutIs DEF Becomes
<1>3. /\ tasks' = ts2 /\ service' = service /\ callbacks' = callbacks
      /\ pending' = pending /\ alerts' = alerts /\ metrics' = metrics
      /\ stack' = (<< RunF(n) >> \o under) \o stack
  <2> DEFINE ts1 == Put(tasks, t, x)
  <2>1. Len(ts1) = Len(tasks) /\ Invoke(ts1, z, under) /\ ts2 = Append(ts1, z)
    BY <1>2 DEF WithNew
  <2> HIDE DEF ts1
  <2> QED BY <2>1 DEF Invoke, Collected, RunF, NextTask
<1>4. stack' = << RunF(n) >> \o (under \o stack)
  <2>1. stack \in Seq(FrameType)
    BY GoodIs
  <2> DEFINE r == RunF(n)
             g == RegF(n)
  <2> HIDE DEF r, g
  <2>2. /\ (<< r >> \o << >>) \o stack = << r >> \o (<< >> \o stack)
        /\ (<< r >> \o << g >>) \o stack = << r >> \o (<< g >> \o stack)
    BY <2>1
  <2>3. under = << g >> \/ under = << >>
    BY DEF g
  <2> QED BY <1>3, <2>2, <2>3 DEF r
<1>5. Inner(ts2, service, callbacks, stack', pending, alerts, metrics)
  BY <1>1, <1>4, InvokeMove DEF Good, WithNew, NextTask
<1> QED BY <1>3, <1>5 DEF Good

LEMMA DetectAsksStep == ASSUME Good, NEW t, DetectAsks(t) PROVE Good'
<1> DEFINE y == tasks[t]
           n == NextCall(service)
           x == [y EXCEPT !.at = "got", !.wait = Call(n)]
<1>0. At(t, "detect", "start")
  BY DEF DetectAsks
<1>1. /\ stack # << >> /\ Head(stack) = RunF(t)
      /\ t \in DOMAIN tasks /\ y \in TaskType /\ y.prog = "detect" /\ y.at = "start"
      /\ y.wait = << >> /\ y.out.val = Pending
      /\ TaskOK(tasks, service, metrics, t)
  BY <1>0, Runner
<1>2. n \in Nat /\ Call(n) \in Future /\ Call(n) # << >>
  <2>1. n \in Nat
    BY GoodIs DEF NextCall
  <2> QED BY <2>1, FuturesAre
<1>3. /\ x \in TaskType /\ x.prog = y.prog /\ x.base = y.base /\ x.from = y.from
      /\ x.at = "got" /\ x.walk = y.walk /\ x.asked = y.asked /\ x.wait = Call(n)
      /\ x.out = y.out /\ x.got = y.got
  <2> HIDE DEF y, n
  <2> QED BY <1>1, <1>2 DEF TaskType, Labels
<1>4. tasks' = Put(tasks, t, x)
  BY DEF DetectAsks, AskAndAwait, NextCall, Put
<1> HIDE DEF x, n
<1>5. Becomes(tasks, t, x) /\ Discreet(tasks, t, x) /\ x.out = tasks[t].out
  BY <1>1, <1>3 DEF Becomes, Discreet
<1>6. ASSUME NEW sv2, AsksFor(sv2, Call(n), "get", sysObjectID), Holds(service, sv2)
      PROVE  TaskOK(Put(tasks, t, x), sv2, metrics, t)
  <2>1. Put(tasks, t, x)[t] = x /\ Len(Put(tasks, t, x)) = Len(tasks)
    BY <1>1, <1>3, GoodIs, PutIs
  <2>2. y.walk <= Len(tasks)
    BY <1>1 DEF TaskOK
  <2>3. y.out.val # Nothing
    BY <1>1, ValuesApart
  <2> HIDE DEF y
  <2>4. DetectOK(Put(tasks, t, x), sv2, x)
    BY <1>1, <1>2, <1>3, <1>6, <2>3 DEF DetectOK, Ended
  <2> QED BY <1>1, <1>3, <2>1, <2>2, <2>4 DEF TaskOK
<1>7. AskAndAwait(tasks, t, "get", sysObjectID, "got") /\ UNCHANGED Collected
  BY DEF DetectAsks
<1>8. \A sv2 : AsksFor(sv2, Call(n), "get", sysObjectID) /\ Holds(service, sv2)
                   => TaskOK(Put(tasks, t, x), sv2, metrics, t)
  BY <1>6
<1>9. "get" \in {"get", "next"} /\ n = NextCall(service) /\ sysObjectID \in Oid
  BY SysObject DEF n
<1> HIDE DEF y
<1> QED BY <1>1, <1>2, <1>3, <1>4, <1>5, <1>7, <1>8, <1>9, AskStep

LEMMA DetectInvokesStep == ASSUME Good, NEW t, DetectInvokes(t) PROVE Good'
<1> DEFINE y   == tasks[t]
           n   == NextTask(tasks)
           x   == [y EXCEPT !.at = "family", !.walk = n]
           z   == [NewTask("family", sysObjectID, sysObjectID) EXCEPT !.got = y.got]
           ts2 == WithNew(tasks, t, x, z)
<1>0. At(t, "detect", "got") /\ y.got.val \in DOMAIN Families /\ UNCHANGED Collected
  BY DEF DetectInvokes, Got
<1>1. /\ t \in DOMAIN tasks /\ y \in TaskType /\ y.prog = "detect" /\ y.at = "got"
      /\ y.wait = << >> /\ y.out.val = Pending
      /\ TaskOK(tasks, service, metrics, t)
  BY <1>0, Runner
<1>2. y.got.val = Device /\ Device \in DOMAIN Families
  <2>1. y.got.val \in Errors \cup {Device}
    BY <1>1 DEF TaskOK, DetectOK
  <2>2. y.got.val \notin Errors
    BY <1>0, ControllerAssumption, ValuesApart
  <2> QED BY <1>0, <2>1, <2>2
<1>3. n \in Nat /\ n = Len(tasks) + 1
  BY GoodIs DEF NextTask
<1>4. Invoke(Put(tasks, t, x), z, << >>)
  BY <1>3 DEF DetectInvokes, Put, Got
<1>5. /\ x \in TaskType /\ x.prog = "detect" /\ x.base = y.base /\ x.from = y.from
      /\ x.at = "family" /\ x.walk = n /\ x.wait = << >> /\ x.out = y.out /\ x.got = y.got
  <2> HIDE DEF y, n
  <2> QED BY <1>1, <1>3 DEF TaskType, Labels
<1>6. /\ z \in TaskType /\ z.prog = "family" /\ z.at = "start" /\ z.wait = << >>
      /\ z.out.val = Pending /\ z.walk = 0 /\ z.got = y.got
  <2> DEFINE w == NewTask("family", sysObjectID, sysObjectID)
             g == y.got
  <2>1. /\ w \in TaskType /\ w.prog = "family" /\ w.at = "start" /\ w.wait = << >>
        /\ w.out.val = Pending /\ w.walk = 0
    BY SysObject, NewTaskIs
  <2>2. g \in [oid : Oid, val : Vals, walk : Nat]
    BY <1>1 DEF TaskType
  <2> HIDE DEF w, g
  <2>3. LET v == [w EXCEPT !.got = g]
        IN  /\ v \in TaskType /\ v.prog = "family" /\ v.at = "start" /\ v.wait = << >>
            /\ v.out.val = Pending /\ v.walk = 0 /\ v.got = g
    BY <2>1, <2>2 DEF TaskType
  <2> QED BY <2>3 DEF w, g
<1> HIDE DEF x, z, n
<1>7. Becomes(tasks, t, x) /\ x.out = tasks[t].out /\ x.wait = tasks[t].wait
  BY <1>1, <1>5 DEF Becomes
<1>8. Makes(tasks, ts2, t, x, z)
  BY <1>1, <1>5, <1>6, GoodIs, MadeIs
<1> HIDE DEF ts2
<1>9. Globals(ts2)
  BY <1>1, <1>2, <1>5, <1>6, <1>7, <1>8, GoodIs, FamilyIsMade
<1>10. ts2[t] = x /\ ts2[n] = z /\ n \in DOMAIN ts2 /\ Len(ts2) = n
  BY <1>8 DEF Makes, n
<1>11. y.out.val # Nothing /\ Pending # Nothing
  BY <1>1, ValuesApart
<1> HIDE DEF y
<1>12. TaskOK(ts2, service, metrics, t)
  <2>1. DetectOK(ts2, service, x)
    BY <1>1, <1>5, <1>6, <1>10, <1>11 DEF DetectOK, Ended, IsA
  <2> QED BY <1>1, <1>3, <1>5, <1>10, <2>1 DEF TaskOK
<1>13. TaskOK(ts2, service, metrics, n)
  <2>1. FamilyOK(service, z)
    <3>1. 0 \in 0 .. Len(Started)
      BY <1>2, StartedIs
    <3> QED BY <1>2, <1>6, <1>11, <3>1 DEF FamilyOK, Ended
  <2> QED BY <1>6, <1>10, <2>1 DEF TaskOK
<1>14. << >> = (IF z.prog \in {"detect", "table"} THEN << RegF(n) >> ELSE << >>)
  BY <1>6
<1> QED BY <1>0, <1>4, <1>6, <1>7, <1>9, <1>12, <1>13, <1>14, MakeStep DEF n, ts2

LEMMA DetectAwaitsStep == ASSUME Good, NEW t, DetectAwaits(t) PROVE Good'
<1> DEFINE y   == tasks[t]
           f   == Task(y.walk)
           x   == [y EXCEPT !.at = "started", !.wait = f]
           ts2 == Put(tasks, t, x)
<1>0. At(t, "detect", "family") /\ UNCHANGED Collected
  BY DEF DetectAwaits
<1>1. /\ stack # << >> /\ Head(stack) = RunF(t)
      /\ t \in DOMAIN tasks /\ y \in TaskType /\ y.prog = "detect" /\ y.at = "family"
      /\ y.wait = << >> /\ y.out.val = Pending
      /\ TaskOK(tasks, service, metrics, t)
  BY <1>0, Runner
<1>2. IsA(tasks, "family", y.walk)
  BY <1>1 DEF TaskOK, DetectOK
<1>3. f \in Futures(tasks, service) /\ f \in Future /\ f # << >>
  <2>1. y.walk \in DOMAIN tasks /\ y.walk \in Nat
    BY <1>1, <1>2 DEF IsA, TaskType
  <2> QED BY <2>1, FuturesAre DEF Futures
<1>4. /\ x \in TaskType /\ x.prog = y.prog /\ x.base = y.base /\ x.from = y.from
      /\ x.at = "started" /\ x.walk = y.walk /\ x.wait = f /\ x.out = y.out /\ x.got = y.got
  <2> HIDE DEF y, f
  <2> QED BY <1>1, <1>3 DEF TaskType, Labels
<1>5. tasks' = ts2 /\ Await(f, IsDone(f), t) /\ service' = service
  BY DEF DetectAwaits, AwaitTask, Put
<1> HIDE DEF x
<1>6. Becomes(tasks, t, x) /\ Discreet(tasks, t, x) /\ x.out = tasks[t].out
  BY <1>1, <1>4 DEF Becomes, Discreet
<1>7. /\ ts2[t] = x /\ Len(ts2) = Len(tasks)
      /\ \A u \in DOMAIN tasks : u # t => ts2[u] = tasks[u]
  BY <1>1, <1>4, GoodIs, PutIs
<1>8. Keeps(tasks, ts2) /\ Holds(service, service)
  BY <1>1, <1>6, GoodIs, PutKeeps DEF Holds
<1> HIDE DEF ts2
<1>9. IsA(ts2, "family", y.walk)
  BY <1>2, <1>8, StillThere
<1>10. TaskOK(ts2, service, metrics, t)
  <2>1. y.walk <= Len(tasks)
    BY <1>1 DEF TaskOK
  <2>2. y.out.val # Nothing
    BY <1>1, ValuesApart
  <2> HIDE DEF y
  <2>3. DetectOK(ts2, service, x)
    BY <1>1, <1>3, <1>4, <1>9, <2>2 DEF DetectOK, Ended, f
  <2> QED BY <1>1, <1>4, <1>7, <2>1, <2>3 DEF TaskOK
<1> HIDE DEF y, f
<1> QED BY <1>0, <1>1, <1>3, <1>4, <1>5, <1>6, <1>10, AwaitStep DEF ts2

LEMMA DetectEndsStep == ASSUME Good, NEW t, DetectEnds(t) PROVE Good'
<1>0. Ends(t) /\ UNCHANGED Collected
  BY DEF DetectEnds
<1>1. CASE At(t, "detect", "got") /\ Got(t).val \notin DOMAIN Families
  <2>1. tasks[t].wait = << >> /\ tasks[t].at = "got" /\ tasks[t].prog = "detect"
        /\ TaskOK(tasks, service, metrics, t)
    BY <1>1, Runner
  <2>2. Got(t).val \in Errors \cup {Device}
    BY <2>1 DEF TaskOK, DetectOK, Got
  <2>3. ~ (Got(t).val \notin Errors /\ Device \in DOMAIN Families)
    BY <1>1, <2>2 DEF Errors
  <2> QED BY <1>0, <1>1, <2>3, EndsStep
<1>2. CASE At(t, "detect", "started")
  <2> DEFINE w == tasks[t].walk
  <2>1. tasks[t].wait = << >> /\ tasks[t].at = "started" /\ tasks[t].prog = "detect"
        /\ TaskOK(tasks, service, metrics, t)
    BY <1>2, Runner
  <2>2. IsA(tasks, "family", w) /\ Got(t) = tasks[w].out /\ Got(t).val # Pending
    BY <2>1 DEF TaskOK, DetectOK, Got
  <2>3. TaskOK(tasks, service, metrics, w)
    BY <2>2, GoodIs DEF Locals, IsA
  <2>4. Ended(tasks[w])
    BY <2>2, <2>3 DEF TaskOK, FamilyOK, IsA
  <2>5. Got(t).val \notin Errors => tasks[w].out.val = Nothing
    BY <2>2, <2>4 DEF Ended
  <2>6. Got(t).val \notin Errors =>
          \E u \in DOMAIN tasks : tasks[u].prog = "family" /\ tasks[u].out.val = Nothing
    BY <2>2, <2>5 DEF IsA
  <2> HIDE DEF w
  <2> QED BY <1>0, <1>2, <2>6, EndsStep
<1> QED BY <1>1, <1>2 DEF DetectEnds

\* What a family's detection knows.
LEMMA FamilyKnows ==
    ASSUME Good, NEW t, NEW label, At(t, "family", label)
    PROVE  /\ stack # << >> /\ Head(stack) = RunF(t)
           /\ t \in DOMAIN tasks /\ tasks[t] \in TaskType
           /\ tasks[t].prog = "family" /\ tasks[t].at = label
           /\ tasks[t].wait = << >> /\ tasks[t].out.val = Pending
           /\ FamilyOK(service, tasks[t]) /\ Device \in DOMAIN Families
           /\ label = "start" => Tables(t) = Started
<1>1. /\ stack # << >> /\ Head(stack) = RunF(t)
      /\ t \in DOMAIN tasks /\ tasks[t] \in TaskType
      /\ tasks[t].prog = "family" /\ tasks[t].at = label
      /\ tasks[t].wait = << >> /\ tasks[t].out.val = Pending
      /\ TaskOK(tasks, service, metrics, t)
  BY Runner
<1>2. FamilyOK(service, tasks[t])
  BY <1>1 DEF TaskOK
<1>3. label = "start" => Tables(t) = Started
  BY <1>1, <1>2 DEF FamilyOK, Tables, Started, Got
<1> QED BY <1>1, <1>2, <1>3 DEF FamilyOK

LEMMA FamilyEndsStep == ASSUME Good, NEW t, FamilyEnds(t) PROVE Good'
<1> DEFINE out == [oid |-> tasks[t].from, val |-> Nothing, walk |-> 0]
<1>1. /\ At(t, "family", "start") /\ UNCHANGED Collected /\ tasks[t].walk = Len(Tables(t))
      /\ Finish(t, out)
  BY DEF FamilyEnds, None, Answer
<1>2. tasks[t] \in TaskType /\ tasks[t].walk = Len(Started)
  BY <1>1, FamilyKnows
<1>3. /\ out \in [oid : Oid, val : Vals, walk : Nat] /\ out.val # Pending
      /\ out.val \in Errors \cup {Nothing} /\ out.val \notin Value
  BY <1>2, ValuesApart DEF TaskType, Vals
<1> HIDE DEF out
<1> QED BY <1>1, <1>2, <1>3, FinishStep

LEMMA FamilyStartsStep == ASSUME Good, NEW t, FamilyStarts(t) PROVE Good'
<1> DEFINE y   == tasks[t]
           n   == NextTask(tasks)
           m   == y.walk + 1
           b   == Tables(t)[m]
           x   == [y EXCEPT !.walk = m]
           z   == NewTask("table", b, b)
           ts2 == WithNew(tasks, t, x, z)
<1>0. At(t, "family", "start") /\ UNCHANGED Collected /\ m <= Len(Tables(t)) /\ b # sysObjectID
  BY DEF FamilyStarts
<1>1. /\ t \in DOMAIN tasks /\ y \in TaskType /\ y.prog = "family" /\ y.at = "start"
      /\ y.wait = << >> /\ y.out.val = Pending /\ y.walk \in Nat
      /\ FamilyOK(service, y) /\ Device \in DOMAIN Families /\ Tables(t) = Started
  <2>1. /\ t \in DOMAIN tasks /\ y \in TaskType /\ y.prog = "family" /\ y.at = "start"
        /\ y.wait = << >> /\ y.out.val = Pending
        /\ FamilyOK(service, y) /\ Device \in DOMAIN Families /\ Tables(t) = Started
    BY <1>0, FamilyKnows
  <2> QED BY <2>1 DEF TaskType
<1>2. Len(tasks) \in Nat /\ n = Len(tasks) + 1
  BY GoodIs DEF NextTask
<1>3. /\ m \in 1 .. Len(Started) /\ m \in Nat /\ b = Started[m] /\ b \in Oid
      /\ StartedSoFar(m) = StartedSoFar(y.walk) \cup {b} /\ b \notin StartedSoFar(y.walk)
      /\ m \in 0 .. Len(Started)
  <2>1. Len(Started) \in Nat
    BY <1>1, StartedIs
  <2>2. m \in 1 .. Len(Started) /\ m \in Nat /\ m - 1 = y.walk /\ b = Started[m]
    BY <1>0, <1>1, <2>1
  <2> HIDE DEF y, m
  <2>3. StartedSoFar(m) = StartedSoFar(y.walk) \cup {b} /\ b \in Oid
    BY <1>0, <1>1, <2>2, StartedIs
  <2>4. b \notin StartedSoFar(y.walk)
    <3> SUFFICES ASSUME b \in StartedSoFar(y.walk) PROVE FALSE
      OBVIOUS
    <3>1. PICK k \in 1 .. y.walk : b = Started[k]
      BY DEF StartedSoFar
    <3>2. k \in 1 .. Len(Started) /\ k # m
      BY <1>1, <2>1, <2>2, <3>1
    <3>3. k = m \/ Started[k] = sysObjectID
      BY <1>1, <2>2, <3>1, <3>2, StartedIs
    <3> QED BY <1>0, <3>1, <3>2, <3>3
  <2>5. m \in 0 .. Len(Started)
    BY <2>1, <2>2
  <2> QED BY <2>2, <2>3, <2>4, <2>5
<1>4. Invoke(Put(tasks, t, x), z, << RegF(n) >>)
  <2>1. StartPlugin([tasks EXCEPT ![t].walk = m], z)
    BY DEF FamilyStarts
  <2>2. [tasks EXCEPT ![t].walk = m] = Put(tasks, t, x)
    BY DEF Put
  <2>3. Len(Put(tasks, t, x)) = Len(tasks)
    BY GoodIs DEF Put
  <2> HIDE DEF x, z
  <2> QED BY <1>2, <2>1, <2>2, <2>3 DEF StartPlugin, RegF
<1> HIDE DEF b, m
<1>5. /\ x \in TaskType /\ x.prog = "family" /\ x.base = y.base /\ x.from = y.from
      /\ x.at = "start" /\ x.walk = m /\ x.wait = << >> /\ x.out = y.out /\ x.got = y.got
  <2> HIDE DEF y
  <2> QED BY <1>1, <1>3 DEF TaskType
<1>6. /\ z \in TaskType /\ z.prog = "table" /\ z.base = b /\ z.at = "start" /\ z.wait = << >>
      /\ z.asked = << >> /\ z.out.val = Pending /\ z.walk = 0
  BY <1>3, NewTaskIs
<1> HIDE DEF x, z, n
<1>7. Becomes(tasks, t, x) /\ x.out = tasks[t].out /\ x.wait = tasks[t].wait
  BY <1>1, <1>5 DEF Becomes
<1>8. Makes(tasks, ts2, t, x, z)
  BY <1>1, <1>5, <1>6, GoodIs, MadeIs
<1> HIDE DEF ts2
<1>9. Globals(ts2)
  <2>1. z.base \notin StartedSoFar(y.walk) /\ StartedSoFar(x.walk) = StartedSoFar(y.walk) \cup {z.base}
    BY <1>3, <1>5, <1>6
  <2> QED BY <1>1, <1>5, <1>6, <1>7, <1>8, <2>1, GoodIs, TableIsMade
<1>10. /\ ts2[t] = x /\ ts2[n] = z /\ n \in DOMAIN ts2 /\ Len(ts2) = n /\ n \notin DOMAIN tasks
  BY <1>8 DEF Makes, n
<1>11. y.out.val # Nothing /\ Pending # Nothing
  BY <1>1, ValuesApart
<1> HIDE DEF y
<1>12. TaskOK(ts2, service, metrics, t)
  <2>1. FamilyOK(service, x)
    BY <1>1, <1>3, <1>5, <1>11 DEF FamilyOK, Ended
  <2> QED BY <1>1, <1>5, <1>10, <2>1 DEF TaskOK
<1>13. TaskOK(ts2, service, metrics, n)
  <2>1. TableOK(ts2, service, z)
    BY <1>6, <1>11 DEF TableOK, Ended
  <2>2. RowsOf(metrics, n) = {}
    BY <1>10, GoodIs DEF RowsOf, Owned, TablesOf
  <2>3. Told(metrics, n) = {}
    BY <2>2 DEF Told
  <2>4. Tells(ts2, metrics, n, z)
    BY <1>6, <1>11, <2>2, <2>3 DEF Tells
  <2>5. z.walk <= Len(ts2)
    BY <1>2, <1>6, <1>10
  <2> QED BY <1>6, <1>10, <2>1, <2>4, <2>5 DEF TaskOK
<1>14. << RegF(n) >> = (IF z.prog \in {"detect", "table"} THEN << RegF(n) >> ELSE << >>)
  BY <1>6
<1> QED BY <1>0, <1>4, <1>6, <1>7, <1>9, <1>12, <1>13, <1>14, MakeStep DEF n, ts2

LEMMA FamilyAsksStep == ASSUME Good, NEW t, FamilyAsks(t) PROVE Good'
<1> DEFINE y == tasks[t]
           n == NextCall(service)
           m == y.walk + 1
           x == [y EXCEPT !.walk = m, !.at = "answered", !.wait = Call(n)]
<1>0. /\ At(t, "family", "start") /\ m <= Len(Tables(t)) /\ Tables(t)[m] = sysObjectID
      /\ AskAndAwait([tasks EXCEPT ![t].walk = m], t, "get", sysObjectID, "answered")
      /\ UNCHANGED Collected
  BY DEF FamilyAsks
<1>1. /\ stack # << >> /\ Head(stack) = RunF(t)
      /\ t \in DOMAIN tasks /\ y \in TaskType /\ y.prog = "family" /\ y.at = "start"
      /\ y.wait = << >> /\ y.out.val = Pending /\ y.walk \in Nat
      /\ FamilyOK(service, y) /\ Device \in DOMAIN Families /\ Tables(t) = Started
  <2>1. /\ stack # << >> /\ Head(stack) = RunF(t)
        /\ t \in DOMAIN tasks /\ y \in TaskType /\ y.prog = "family" /\ y.at = "start"
        /\ y.wait = << >> /\ y.out.val = Pending
        /\ FamilyOK(service, y) /\ Device \in DOMAIN Families /\ Tables(t) = Started
    BY <1>0, FamilyKnows
  <2> QED BY <2>1 DEF TaskType
<1>2. n \in Nat /\ Call(n) \in Future /\ Call(n) # << >>
  <2>1. n \in Nat
    BY GoodIs DEF NextCall
  <2> QED BY <2>1, FuturesAre
<1>3. m \in 0 .. Len(Started) /\ m \in Nat /\ StartedSoFar(m) = StartedSoFar(y.walk)
  <2>1. Len(Started) \in Nat
    BY <1>1, StartedIs
  <2>2. m \in 1 .. Len(Started) /\ m \in Nat /\ m - 1 = y.walk /\ Started[m] = sysObjectID
        /\ m \in 0 .. Len(Started)
    BY <1>0, <1>1, <2>1
  <2> HIDE DEF y, m
  <2>3. StartedSoFar(m) = StartedSoFar(m - 1) \cup ({Started[m]} \ {sysObjectID})
    BY <1>1, <2>2, StartedIs
  <2>4. {Started[m]} \ {sysObjectID} = {}
    BY <2>2
  <2>5. StartedSoFar(m) = StartedSoFar(y.walk)
    BY <2>2, <2>3, <2>4
  <2> QED BY <2>2, <2>5
<1>4. tasks' = Put(tasks, t, x)
  BY <1>0 DEF AskAndAwait, NextCall, Put
<1> HIDE DEF m
<1>5. /\ x \in TaskType /\ x.prog = y.prog /\ x.base = y.base /\ x.from = y.from
      /\ x.at = "answered" /\ x.walk = m /\ x.asked = y.asked /\ x.wait = Call(n)
      /\ x.out = y.out /\ x.got = y.got
  <2> HIDE DEF y, n
  <2> QED BY <1>1, <1>2, <1>3 DEF TaskType, Labels
<1> HIDE DEF x, n
<1>6. Becomes(tasks, t, x) /\ Discreet(tasks, t, x) /\ x.out = tasks[t].out
  BY <1>1, <1>3, <1>5 DEF Becomes, Discreet
<1>7. ASSUME NEW sv2, AsksFor(sv2, Call(n), "get", sysObjectID), Holds(service, sv2)
      PROVE  TaskOK(Put(tasks, t, x), sv2, metrics, t)
  <2>1. Put(tasks, t, x)[t] = x /\ Len(Put(tasks, t, x)) = Len(tasks)
    BY <1>1, <1>5, GoodIs, PutIs
  <2>2. y.out.val # Nothing
    BY <1>1, ValuesApart
  <2> HIDE DEF y
  <2>3. FamilyOK(sv2, x)
    BY <1>1, <1>2, <1>3, <1>5, <1>7, <2>2 DEF FamilyOK, Ended
  <2> QED BY <1>1, <1>5, <2>1, <2>3 DEF TaskOK
<1>8. \A sv2 : AsksFor(sv2, Call(n), "get", sysObjectID) /\ Holds(service, sv2)
                   => TaskOK(Put(tasks, t, x), sv2, metrics, t)
  BY <1>7
<1>9. "get" \in {"get", "next"} /\ n = NextCall(service) /\ sysObjectID \in Oid
  BY SysObject DEF n
<1> DEFINE ts0 == [tasks EXCEPT ![t].walk = m]
<1>10. AskAndAwait(ts0, t, "get", sysObjectID, "answered") /\ UNCHANGED Collected
  BY <1>0 DEF m
<1> HIDE DEF y, ts0
<1> QED BY <1>1, <1>2, <1>4, <1>5, <1>6, <1>8, <1>9, <1>10, AskStep

LEMMA FamilyGoesOnStep == ASSUME Good, NEW t, FamilyGoesOn(t) PROVE Good'
<1> DEFINE y   == tasks[t]
           x   == [y EXCEPT !.at = "start"]
           ts2 == Put(tasks, t, x)
<1>0. At(t, "family", "answered") /\ UNCHANGED Collected
  BY DEF FamilyGoesOn
<1>1. /\ stack # << >> /\ Head(stack) = RunF(t)
      /\ t \in DOMAIN tasks /\ y \in TaskType /\ y.prog = "family" /\ y.at = "answered"
      /\ y.wait = << >> /\ y.out.val = Pending
      /\ FamilyOK(service, y)
  BY <1>0, FamilyKnows
<1>2. CASE Got(t).val \in Errors
  <2>1. Ends(t)
    BY <1>2 DEF FamilyGoesOn
  <2> QED BY <1>0, <1>2, <2>1, EndsStep
<1>3. CASE Got(t).val \notin Errors
  <2>1. /\ x \in TaskType /\ x.prog = y.prog /\ x.base = y.base /\ x.from = y.from
        /\ x.at = "start" /\ x.walk = y.walk /\ x.asked = y.asked /\ x.wait = << >>
        /\ x.out = y.out /\ x.got = y.got
    <3> HIDE DEF y
    <3> QED BY <1>1 DEF TaskType, Labels
  <2>2. /\ tasks' = ts2 /\ service' = service /\ metrics' = metrics
        /\ UNCHANGED <<callbacks, stack, pending, alerts>>
    BY <1>3 DEF FamilyGoesOn, Goto, Put, Collected
  <2> HIDE DEF x
  <2>3. Becomes(tasks, t, x) /\ Discreet(tasks, t, x) /\ x.out = tasks[t].out /\ x.wait = tasks[t].wait
    BY <1>1, <2>1 DEF Becomes, Discreet
  <2>4. ts2[t] = x /\ Len(ts2) = Len(tasks)
    BY <1>1, <2>1, GoodIs, PutIs
  <2> HIDE DEF ts2
  <2>5. /\ metrics' \in Seq(RowType) /\ Owned(tasks, metrics')
        /\ \A u \in DOMAIN tasks : u # t => SameRows(metrics, metrics', u)
    BY <2>2, GoodIs DEF SameRows
  <2>6. TaskOK(ts2, service', metrics', t)
    <3>1. y.got.val = Device
      BY <1>1, <1>3 DEF FamilyOK, Errors, Got
    <3>2. y.out.val # Nothing
      BY <1>1, ValuesApart
    <3> HIDE DEF y
    <3>3. FamilyOK(service', x)
      BY <1>1, <2>1, <3>1, <3>2 DEF FamilyOK, Ended
    <3> QED BY <1>1, <2>1, <2>4, <3>3 DEF TaskOK
  <2> HIDE DEF y
  <2> QED BY <1>1, <2>2, <2>3, <2>5, <2>6, GoesOnStep DEF ts2
<1> QED BY <1>2, <1>3

LEMMA GeneratorStep == ASSUME Good, NEW t, Generator(t) PROVE Good'
<1>1. CASE WalkAsks(t) \/ WalkEnds(t) \/ WalkPrefetches(t) \/ WalkReturns(t)
  BY <1>1, WalkAsksStep, WalkEndsStep, WalkPrefetchesStep, WalkReturnsStep
<1>2. CASE TableStarts(t) \/ TableAwaitsRow(t) \/ TableEnds(t) \/ TableLeaves(t)
  BY <1>2, TableStartsStep, TableAwaitsRowStep, TableEndsStep, TableLeavesStep
<1>3. CASE TableReportsRow(t) \/ TableKeepsRow(t) \/ TableGoesOn(t)
  BY <1>3, TableReportsRowStep, TableKeepsRowStep, TableGoesOnStep
<1>4. CASE TableAsksColumn(t) \/ TableAwaitsColumn(t) \/ TableReportsDetail(t)
  BY <1>4, TableAsksColumnStep, TableAwaitsColumnStep, TableReportsDetailStep
<1>5. CASE DetectAsks(t) \/ DetectInvokes(t) \/ DetectAwaits(t) \/ DetectEnds(t)
  BY <1>5, DetectAsksStep, DetectInvokesStep, DetectAwaitsStep, DetectEndsStep
<1>6. CASE FamilyStarts(t) \/ FamilyAsks(t) \/ FamilyGoesOn(t) \/ FamilyEnds(t)
  BY <1>6, FamilyStartsStep, FamilyAsksStep, FamilyGoesOnStep, FamilyEndsStep
<1> QED BY <1>1, <1>2, <1>3, <1>4, <1>5, <1>6 DEF Generator

-----------------------------------------------------------------------------
(* The futures' and the controller's actions.                                *)

LEMMA RegisterStep == ASSUME Good, NEW t \in DOMAIN tasks, Register(t) PROVE Good'
<1> DEFINE f == Task(t)
<1>1. /\ stack # << >> /\ Head(stack) = RegF(t)
      /\ pending' = pending \cup {t} /\ Await(f, IsDone(f), Completion)
      /\ service' = service /\ tasks' = tasks /\ alerts' = alerts /\ metrics' = metrics
  BY DEF Register, Top, RegF
<1>2. f \in Futures(tasks, service)
  BY DEF Futures
<1>3. /\ callbacks' = With(callbacks, f, Append(Queue(callbacks, f), Completion))
      /\ stack' = (IF IsDone(f) THEN << CbF(f) >> ELSE << >>) \o Tail(stack)
  BY <1>1, Awaits
<1>4. stack' = (IF Done(tasks, service, f) THEN << CbF(f) >> ELSE << >>) \o Tail(stack)
  BY <1>2, <1>3, SameOutcome
<1>5. /\ callbacks' = Notified(callbacks, t) /\ stack' = Reached(tasks, service, stack, t)
      /\ pending' = Noted(pending, t)
  BY <1>1, <1>3, <1>4 DEF Notified, Reached, Noted
<1>6. Core(tasks, service, Notified(callbacks, t), stack', Noted(pending, t), alerts)
  BY <1>1, <1>5, GoodIs, Registers
<1> QED BY <1>1, <1>5, <1>6, GoodIs DEF Good, Inner

LEMMA RunCallbackStep ==
    ASSUME Good, NEW f \in Futures(tasks, service), RunCallback(f) PROVE Good'
<1> DEFINE q == Queue(callbacks, f)
           c == Head(q)
<1>1. /\ stack # << >> /\ Head(stack) = CbF(f) /\ q # << >>
      /\ callbacks' = With(callbacks, f, Tail(q))
      /\ service' = service /\ metrics' = metrics
      /\ IF c = Completion THEN Complete(f) ELSE Resume(c, f)
  <2>1. CallbacksOf(f) = q /\ CallbacksOf(f) # << >>
    BY SameQueue DEF RunCallback
  <2>2. callbacks[f] = q
    BY <2>1 DEF CallbacksOf
  <2> QED BY <2>1, <2>2, SameQueue DEF RunCallback, Top, CbF
<1>2. CASE c = Completion
  <2>1. /\ pending' = pending \ {f[2]} /\ tasks' = tasks /\ stack' = stack
        /\ alerts' = IF Outcome(f).val \in Errors THEN alerts \cup {f[2]} ELSE alerts
    BY <1>1, <1>2 DEF Complete
  <2>2. PICK t \in pending :
          /\ f = Task(t)
          /\ Core(tasks, service, With(callbacks, f, Tail(q)), stack, pending \ {t},
                  IF tasks[t].out.val \in Errors THEN alerts \cup {t} ELSE alerts)
    BY <1>1, <1>2, GoodIs, Completes
  <2>3. f[2] = t /\ Outcome(f) = tasks[t].out
    BY <2>2, FuturesAre DEF Outcome
  <2> HIDE DEF q
  <2> QED BY <1>1, <2>1, <2>2, <2>3, GoodIs DEF Good, Inner
<1>3. CASE c # Completion
  <2> DEFINE x == [tasks[c] EXCEPT !.got = Result(tasks, service, f), !.wait = << >>]
  <2>1. Outcome(f) = Result(tasks, service, f)
    BY SameOutcome
  <2>2. /\ tasks' = Put(tasks, c, x) /\ stack' = << RunF(c) >> \o stack
        /\ pending' = pending /\ alerts' = alerts
    BY <1>1, <1>3, <2>1 DEF Resume, Put, RunF
  <2>3. c \in DOMAIN tasks
    <3>1. q \in Seq(Nat)
      BY GoodIs, QueueType DEF Core
    <3>2. On(q, c)
      <4> HIDE DEF q
      <4> QED BY <1>1, <3>1, OnPopped
    <3> QED BY <1>3, <3>2, GoodIs DEF Core, Called
  <2>4. Inner(Put(tasks, c, x), service, With(callbacks, f, Tail(q)), << RunF(c) >> \o stack,
              pending, alerts, metrics)
    <3> HIDE DEF q, x
    <3>1. x = [tasks[c] EXCEPT !.got = Result(tasks, service, f), !.wait = << >>]
      BY DEF x
    <3>2. Inner(tasks, service, callbacks, stack, pending, alerts, metrics)
      BY DEF Good
    <3> QED BY <1>1, <2>3, <3>1, <3>2, ResumeMove DEF q
  <2> HIDE DEF x, q
  <2> QED BY <1>1, <2>2, <2>4 DEF Good
<1> QED BY <1>2, <1>3

LEMMA CallbacksRunStep ==
    ASSUME Good, NEW f \in Futures(tasks, service), CallbacksRun(f) PROVE Good'
<1>1. /\ stack # << >> /\ Head(stack) = CbF(f) /\ Queue(callbacks, f) = << >>
      /\ stack' = Tail(stack) /\ service' = service /\ tasks' = tasks
      /\ callbacks' = callbacks /\ pending' = pending /\ alerts' = alerts /\ metrics' = metrics
  BY SameQueue DEF CallbacksRun, Top, CbF, Collected
<1>2. Core(tasks, service, callbacks, Tail(stack), pending, alerts)
  BY <1>1, GoodIs, Returns
<1> QED BY <1>1, <1>2, GoodIs DEF Good, Inner

LEMMA RunningStep == ASSUME Good, Running PROVE Good'
<1>1. CASE \E t \in DOMAIN tasks : Generator(t) \/ Register(t)
  BY <1>1, GeneratorStep, RegisterStep
<1>2. CASE \E f \in Futures(tasks, service) : RunCallback(f) \/ CallbacksRun(f)
  BY <1>2, RunCallbackStep, CallbacksRunStep
<1> QED BY <1>1, <1>2 DEF Running, Futures

LEMMA RunStep ==
    ASSUME Good, tasks = << >>, service = << >>, stack = << >>, Run
    PROVE  Good'
<1> DEFINE z == NewTask("detect", sysObjectID, sysObjectID)
<1>1. /\ z \in TaskType /\ z.prog = "detect" /\ z.at = "start" /\ z.wait = << >>
      /\ z.asked = << >> /\ z.out.val = Pending /\ z.walk = 0
  BY SysObject, NewTaskIs
<1>2. /\ tasks' = Append(<< >>, z) /\ stack' = (<< RunF(1) >> \o << RegF(1) >>) \o << >>
      /\ service' = << >> /\ UNCHANGED <<callbacks, pending, alerts, metrics>>
  <2>1. Len(<< >>) + 1 = 1
    OBVIOUS
  <2>2. StartPlugin(<< >>, z) /\ UNCHANGED <<pending, alerts, metrics>>
    BY DEF Run
  <2> HIDE DEF z
  <2> QED BY <2>1, <2>2 DEF StartPlugin, Invoke, RunF, RegF
<1> HIDE DEF z
<1>3. tasks' = << z >> /\ DOMAIN << z >> = {1} /\ << z >>[1] = z /\ << z >> \in Seq(TaskType)
      /\ Len(<< z >>) = 1
  BY <1>1, <1>2
<1> DEFINE ts2 == << z >>
<1>4. ts2 = tasks' /\ DOMAIN ts2 = {1} /\ ts2[1] = z /\ ts2 \in Seq(TaskType) /\ Len(ts2) = 1
      /\ DOMAIN tasks = {}
  BY <1>3
<1> HIDE DEF ts2
<1>5. stack' = << RunF(1) >> \o (<< RegF(1) >> \o stack)
  <2> DEFINE r == RunF(1)
             g == RegF(1)
  <2> HIDE DEF r, g
  <2>1. (<< r >> \o << g >>) \o << >> = << r >> \o (<< g >> \o << >>)
    OBVIOUS
  <2> QED BY <1>2, <2>1 DEF r, g
<1>6. IsPlugin(ts2, 1)
  BY <1>1, <1>4 DEF IsPlugin
<1>7. Core(ts2, service, callbacks, stack', pending, alerts)
  <2>1. 1 \in Nat \ {0} /\ 1 \notin DOMAIN tasks /\ DOMAIN ts2 = DOMAIN tasks \cup {1}
        /\ \A u \in DOMAIN tasks : ts2[u] = tasks[u]
    BY <1>4
  <2>2. stack' = << RunF(1) >> \o ((IF IsPlugin(ts2, 1) THEN << RegF(1) >> ELSE << >>) \o stack)
    BY <1>5, <1>6
  <2>3. ts2[1].wait = << >> /\ ts2[1].out.val = Pending
    BY <1>1, <1>4
  <2> DEFINE one == 1
  <2> HIDE DEF one
  <2>4. Core(tasks, service, callbacks, stack, pending, alerts)
    BY GoodIs
  <2> QED BY <2>1, <2>2, <2>3, <2>4, Creates
<1>8. TaskOK(ts2, service, metrics, 1)
  <2>1. DetectOK(ts2, service, z)
    BY <1>1, ValuesApart DEF DetectOK, Ended
  <2> QED BY <1>1, <1>4, <2>1 DEF TaskOK
<1>9. Globals(ts2)
  <2>1. TablesOf(ts2) = {}
    BY <1>1, <1>4 DEF TablesOf
  <2> QED BY <1>1, <1>4, <2>1 DEF Globals
<1>10. Owned(ts2, metrics)
  <2>1. TablesOf(tasks) = {}
    BY <1>4 DEF TablesOf
  <2> QED BY <2>1, GoodIs DEF Owned
<1>11. Story(ts2, service, metrics)
  BY <1>4, <1>8, <1>9, <1>10, GoodIs DEF Story, Typed, Locals
<1> QED BY <1>2, <1>4, <1>7, <1>11 DEF Good, Inner

LEMMA EngineAnswersStep == ASSUME Good, EngineAnswers PROVE Good'
<1>1. PICK i \in Opens : \E a \in Engine!Answers(service[i].kind, service[i].oid) :
          /\ service' = [service EXCEPT ![i].ans = a]
          /\ stack' = << Frame("callbacks", Call(i)) >>
  BY DEF EngineAnswers
<1>2. PICK a \in Engine!Answers(service[i].kind, service[i].oid) :
          /\ service' = [service EXCEPT ![i].ans = a]
          /\ stack' = << CbF(Call(i)) >>
  BY <1>1 DEF CbF
<1> DEFINE c == service[i]
           e == [c EXCEPT !.ans = a]
<1>3. i \in DOMAIN service /\ c \in CallType /\ c.kind \in {"get", "next"} /\ c.oid \in Oid
  <2>1. i \in DOMAIN service
    BY DEF Opens
  <2>2. c \in CallType
    BY <2>1, GoodIs
  <2> QED BY <2>1, <2>2 DEF CallType
<1>4. a \in [oid : Oid, val : Vals] /\ a.val # Pending
  BY <1>3, AnswersAre
<1>5. e \in CallType /\ e.ans = a /\ e.kind = c.kind /\ e.oid = c.oid
  <2> HIDE DEF c
  <2> QED BY <1>3, <1>4 DEF CallType
<1>6. service' = [service EXCEPT ![i] = e]
  BY <1>2
<1> HIDE DEF e
<1>7. /\ service' \in Seq(CallType) /\ DOMAIN service' = DOMAIN service /\ service'[i] = e
      /\ \A j \in DOMAIN service : j # i => service'[j] = service[j]
  BY <1>3, <1>5, <1>6, GoodIs
<1>8. Holds(service, service')
  BY <1>5, <1>7 DEF Holds
<1>9. Answered(service')
  BY <1>5, <1>7, GoodIs DEF Answered
<1>10. Story(tasks, service', metrics)
  BY <1>7, <1>8, <1>9, GoodIs, StoryAnswers
<1>11. Core(tasks, service', callbacks, << CbF(Call(i)) >>, pending, alerts)
  <2>1. stack = << >> /\ service'[i].ans.val # Pending
    BY <1>4, <1>5, <1>7 DEF EngineAnswers
  <2> QED BY <1>3, <1>7, <2>1, GoodIs, Answers
<1> QED BY <1>2, <1>10, <1>11 DEF EngineAnswers, Good, Inner

LEMMA StepReturnsStep == ASSUME Good, StepReturns PROVE Good'
<1>1. UNCHANGED <<service, tasks, callbacks, stack, pending, alerts, metrics>>
  BY DEF StepReturns
<1> QED BY <1>1 DEF Good

-----------------------------------------------------------------------------
(* The loop.                                                                 *)

\* Whatever runs, runs on the stack.
LEMMA RunningMeans == ASSUME Running PROVE stack # << >> /\ control' = control
<1>1. CASE \E t \in DOMAIN tasks : Generator(t)
  <2>1. PICK t \in DOMAIN tasks : Generator(t)
    BY <1>1
  <2>2. CASE WalkAsks(t) \/ WalkEnds(t) \/ WalkPrefetches(t) \/ WalkReturns(t)
    BY <2>2 DEF WalkAsks, WalkEnds, WalkPrefetches, WalkReturns, At, Top, Collected
  <2>3. CASE TableStarts(t) \/ TableAwaitsRow(t) \/ TableEnds(t) \/ TableLeaves(t)
    BY <2>3 DEF TableStarts, TableAwaitsRow, TableEnds, TableLeaves, At, Top, Collected
  <2>4. CASE TableReportsRow(t) \/ TableKeepsRow(t) \/ TableGoesOn(t)
    BY <2>4 DEF TableReportsRow, TableKeepsRow, TableGoesOn, At, Top, Collected
  <2>5. CASE TableAsksColumn(t) \/ TableAwaitsColumn(t) \/ TableReportsDetail(t)
    BY <2>5 DEF TableAsksColumn, TableAwaitsColumn, TableReportsDetail, At, Top, Collected
  <2>6. CASE DetectAsks(t) \/ DetectInvokes(t) \/ DetectAwaits(t) \/ DetectEnds(t)
    BY <2>6 DEF DetectAsks, DetectInvokes, DetectAwaits, DetectEnds, At, Top, Collected
  <2>7. CASE FamilyStarts(t) \/ FamilyAsks(t) \/ FamilyGoesOn(t) \/ FamilyEnds(t)
    BY <2>7 DEF FamilyStarts, FamilyAsks, FamilyGoesOn, FamilyEnds, At, Top, Collected
  <2> QED BY <2>1, <2>2, <2>3, <2>4, <2>5, <2>6, <2>7 DEF Generator
<1>2. CASE \E t \in DOMAIN tasks : Register(t)
  BY <1>2 DEF Register, Top
<1>3. CASE \E f \in Futures(tasks, service) : RunCallback(f) \/ CallbacksRun(f)
  BY <1>3 DEF RunCallback, CallbacksRun, Top, Collected
<1> QED BY <1>1, <1>2, <1>3 DEF Running, Futures

LEMMA AppendedIsMore ==
    ASSUME NEW S, NEW ts \in Seq(S), NEW t \in DOMAIN ts, NEW x, NEW y
    PROVE  Append([ts EXCEPT ![t] = x], y) # << >> /\ [ts EXCEPT ![t] = x] # << >>
<1> DEFINE T   == S \cup {x, y}
           ts1 == [ts EXCEPT ![t] = x]
<1>1. ts1 \in Seq(T) /\ t \in DOMAIN ts1 /\ y \in T
  BY DEF T
<1> HIDE DEF ts1, T
<1>2. Append(ts1, y) # << >> /\ ts1 # << >>
  BY <1>1
<1> QED BY <1>2 DEF ts1

\* Tasks are never forgotten altogether.
LEMMA TasksStay == ASSUME Good, Running, tasks # << >> PROVE tasks' # << >>
<1>1. \A t \in DOMAIN tasks : \A x : [tasks EXCEPT ![t] = x] # << >>
  BY GoodIs, AppendedIsMore
<1>2. \A t \in DOMAIN tasks : \A x, y : Append([tasks EXCEPT ![t] = x], y) # << >>
  BY GoodIs, AppendedIsMore
<1>3. ASSUME NEW t \in DOMAIN tasks, NEW out, Finish(t, out) PROVE tasks' # << >>
  BY <1>1, <1>3 DEF Finish
<1>4. CASE \E t \in DOMAIN tasks : Generator(t)
  <2>1. PICK t \in DOMAIN tasks : Generator(t)
    BY <1>4
  <2>2. CASE WalkEnds(t) \/ WalkReturns(t) \/ TableEnds(t) \/ TableLeaves(t) \/ DetectEnds(t)
             \/ FamilyEnds(t)
    BY <1>3, <2>2 DEF WalkEnds, WalkReturns, TableEnds, TableLeaves, DetectEnds, FamilyEnds, Ends
  <2>3. CASE WalkAsks(t) \/ DetectAsks(t)
    BY <1>1, <2>3 DEF WalkAsks, DetectAsks, AskAndAwait
  <2>4. CASE FamilyAsks(t)
    <3> DEFINE m == tasks[t].walk + 1
               f == Call(Len(service) + 1)
               x == [tasks[t] EXCEPT !.walk = m, !.at = "answered", !.wait = f]
    <3>1. tasks' = [tasks EXCEPT ![t] = x]
      BY <2>4 DEF FamilyAsks, AskAndAwait
    <3> HIDE DEF x
    <3> QED BY <1>1, <3>1
  <2>5. CASE TableAwaitsRow(t) \/ DetectAwaits(t) \/ TableGoesOn(t)
    BY <1>1, <2>5 DEF TableAwaitsRow, DetectAwaits, TableGoesOn, AwaitTask, Goto
  <2>6. CASE TableReportsRow(t) \/ TableKeepsRow(t)
    BY <1>1, <2>6 DEF TableReportsRow, TableKeepsRow
  <2>7. CASE TableAsksColumn(t) \/ TableAwaitsColumn(t)
    BY <1>1, <2>7 DEF TableAsksColumn, TableAwaitsColumn
  <2>8. CASE TableReportsDetail(t)
    BY <1>1, <1>3, <2>8 DEF TableReportsDetail, Ends, Goto
  <2>9. CASE FamilyGoesOn(t)
    BY <1>1, <1>3, <2>9 DEF FamilyGoesOn, Ends, Goto
  <2>10. CASE WalkPrefetches(t) \/ TableStarts(t) \/ DetectInvokes(t)
    BY <1>2, <2>10 DEF WalkPrefetches, TableStarts, DetectInvokes, Invoke
  <2>11. CASE FamilyStarts(t)
    BY <1>2, <2>11 DEF FamilyStarts, StartPlugin, Invoke
  <2> QED BY <2>1, <2>2, <2>3, <2>4, <2>5, <2>6, <2>7, <2>8, <2>9, <2>10, <2>11 DEF Generator
<1>5. CASE \E t \in DOMAIN tasks : Register(t)
  BY <1>5 DEF Register
<1>6. CASE \E f \in Futures(tasks, service) : RunCallback(f)
  <2>1. PICK f \in Futures(tasks, service) : RunCallback(f)
    BY <1>6
  <2>2. CASE tasks' = tasks
    BY <2>2
  <2>3. CASE \E t, x : tasks' = [tasks EXCEPT ![t] = x]
    <3>1. PICK t, x : tasks' = [tasks EXCEPT ![t] = x]
      BY <2>3
    <3>2. DOMAIN tasks' = DOMAIN tasks
      BY <3>1
    <3>3. DOMAIN tasks # {}
      <4>1. tasks \in Seq(TaskType) /\ Len(tasks) # 0
        BY GoodIs, EmptySeq
      <4>2. Len(tasks) \in Nat /\ DOMAIN tasks = 1 .. Len(tasks)
        BY <4>1
      <4>3. 1 \in DOMAIN tasks
        BY <4>1, <4>2
      <4> QED BY <4>3
    <3> QED BY <3>2, <3>3
  <2> QED BY <2>1, <2>2, <2>3 DEF RunCallback, Complete, Resume
<1>7. CASE \E f \in Futures(tasks, service) : CallbacksRun(f)
  BY <1>7 DEF CallbacksRun
<1> QED BY <1>4, <1>5, <1>6, <1>7 DEF Running, Futures

LEMMA IInvIs == IInv <=> Good /\ Looped(tasks, service, stack, pending, control)
BY DEF IInv, Good, Inner

(* The machine starts with nothing.                                          *)
LEMMA InitIInv == Init => IInv
<1> SUFFICES ASSUME Init PROVE IInv
  OBVIOUS
<1>1. /\ service = << >> /\ tasks = << >> /\ callbacks = << >> /\ stack = << >>
      /\ pending = {} /\ alerts = {} /\ metrics = << >> /\ control = "start"
  BY DEF Init
<1>2. DOMAIN tasks = {} /\ DOMAIN service = {} /\ DOMAIN callbacks = {} /\ DOMAIN metrics = {}
  BY <1>1
<1>3. \A x : ~ On(stack, x)
  BY <1>1, EmptyOn
<1>4. Shaped(tasks, service, callbacks, stack, pending, alerts)
  BY <1>1, <1>2 DEF Shaped
<1>5. Scheduled(tasks, service, stack) /\ Framed(tasks, service, stack)
      /\ Watched(tasks, stack, pending, alerts)
  BY <1>2, <1>3 DEF Scheduled, Framed, Watched
<1>6. Called(tasks, service, callbacks, stack, pending)
  BY <1>2 DEF Called, Futures
<1>7. Typed(tasks, service, metrics)
  BY <1>1 DEF Typed
<1>8. Globals(tasks)
  <2>1. TablesOf(tasks) = {}
    BY <1>2 DEF TablesOf
  <2> QED BY <1>2, <2>1 DEF Globals
<1>9. Answered(service) /\ Locals(tasks, service, metrics) /\ Owned(tasks, metrics)
  BY <1>2 DEF Answered, Locals, Owned
<1>10. Looped(tasks, service, stack, pending, control)
  BY <1>1 DEF Looped
<1> QED BY <1>4, <1>5, <1>6, <1>7, <1>8, <1>9, <1>10 DEF IInv, Core, Story

LEMMA NextIInv == IInv /\ [Next]_vars => IInv'
<1> SUFFICES ASSUME IInv, [Next]_vars PROVE IInv'
  OBVIOUS
<1>1. Good /\ Looped(tasks, service, stack, pending, control)
  BY IInvIs
<1> SUFFICES Good' /\ Looped(tasks', service', stack', pending', control')
  BY DEF IInv, Good, Inner
<1>2. CASE Run
  <2>1. control = "start" /\ tasks = << >> /\ service = << >> /\ stack = << >>
    BY <1>1, <1>2 DEF Run, Looped
  <2>2. Good'
    BY <1>1, <1>2, <2>1, RunStep
  <2>3. control' = "loop" /\ tasks' # << >>
    <3> DEFINE z == NewTask("detect", sysObjectID, sysObjectID)
    <3>1. control' = "loop" /\ tasks' = Append(<< >>, z)
      BY <1>2, <2>1 DEF Run, StartPlugin, Invoke
    <3> HIDE DEF z
    <3> QED BY <3>1
  <2> QED BY <2>2, <2>3 DEF Looped
<1>3. CASE Running
  <2>1. Good'
    BY <1>1, <1>3, RunningStep
  <2>2. stack # << >> /\ control' = control
    BY <1>3, RunningMeans
  <2>3. control \in {"loop", "answered"} /\ tasks # << >>
    BY <1>1, <2>2 DEF Looped
  <2>4. tasks' # << >>
    BY <1>1, <1>3, <2>3, TasksStay
  <2> QED BY <2>1, <2>2, <2>3, <2>4 DEF Looped
<1>4. CASE EngineAnswers
  <2>1. Good'
    BY <1>1, <1>4, EngineAnswersStep
  <2>2. control' = "answered" /\ tasks' # << >>
    BY <1>1, <1>4 DEF EngineAnswers, Looped
  <2> QED BY <2>1, <2>2 DEF Looped
<1>5. CASE StepReturns
  <2>1. Good'
    BY <1>1, <1>5, StepReturnsStep
  <2>2. tasks' = tasks /\ tasks # << >> /\ service' = service /\ stack' = << >> /\ pending' = pending
    BY <1>1, <1>5 DEF StepReturns, Looped
  <2>3. control' = "loop" \/ (control' = "stopped" /\ (pending = {} \/ Opens = {}))
    BY <1>5 DEF StepReturns
  <2>4. Opens = {} => \A i \in DOMAIN service : service[i].ans.val # Pending
    BY DEF Opens
  <2>5. CASE control' = "loop"
    BY <2>1, <2>2, <2>5 DEF Looped
  <2>6. CASE control' = "stopped" /\ (pending = {} \/ Opens = {})
    <3>1. pending' = {} \/ \A i \in DOMAIN service' : service'[i].ans.val # Pending
      BY <2>2, <2>4, <2>6
    <3> QED BY <2>1, <2>2, <2>6, <3>1 DEF Looped
  <2> QED BY <2>3, <2>5, <2>6
<1>6. CASE UNCHANGED vars
  BY <1>1, <1>6 DEF vars, Good
<1> QED BY <1>2, <1>3, <1>4, <1>5, <1>6 DEF Next

LEMMA Invariant == Spec => []IInv
<1>1. Init => IInv
  BY InitIInv
<1>2. IInv /\ [Next]_vars => IInv'
  BY NextIInv
<1> QED BY <1>1, <1>2, PTL DEF Spec

-----------------------------------------------------------------------------
(* What it means.                                                            *)

\* Only plugins that were started are pending or reported as failed, only
\* generators and the controller's completion are ever called back
\* (future.py:65-68), and a family's counter stays within its plugins.
THEOREM TypeCorrect == Spec => []TypeOK
<1>1. IInv => TypeOK
  <2> SUFFICES ASSUME IInv PROVE TypeOK
    OBVIOUS
  <2>1. Good /\ control \in {"start", "loop", "answered", "stopped"}
    BY IInvIs DEF Looped
  <2>2. Core(tasks, service, callbacks, stack, pending, alerts)
    BY <2>1, GoodIs
  <2>3. pending \cup alerts \subseteq DOMAIN tasks
    BY <2>2 DEF Core, Shaped
  <2>4. ASSUME NEW t \in DOMAIN tasks
        PROVE  tasks[t].walk \in 0 .. IF tasks[t].prog = "family" THEN Len(Families[Device])
                                                                 ELSE Len(tasks)
    <3> DEFINE x == tasks[t]
    <3>1. TaskOK(tasks, service, metrics, t) /\ x \in TaskType /\ Len(tasks) \in Nat
      BY <2>1, GoodIs DEF Locals
    <3>2. x.walk \in Nat /\ (x.prog # "family" => x.walk <= Len(tasks))
          /\ (x.prog = "family" => x.walk \in 0 .. Len(Started))
      BY <3>1 DEF TaskOK, TaskType, FamilyOK
    <3> HIDE DEF x
    <3>3. x.walk \in 0 .. IF x.prog = "family" THEN Len(Started) ELSE Len(tasks)
      BY <3>1, <3>2
    <3> QED BY <3>3 DEF x, Started
  <2>5. ASSUME NEW f \in DOMAIN callbacks
        PROVE  Range(callbacks[f]) \subseteq DOMAIN tasks \cup {Completion}
    <3> DEFINE q == Queue(callbacks, f)
    <3>1. q = callbacks[f] /\ q \in Seq(Nat) /\ f \in Futures(tasks, service)
      BY <2>2 DEF Core, Shaped, Queue
    <3>2. \A x : On(q, x) => x \in DOMAIN tasks \cup {Completion}
      BY <2>2, <3>1 DEF Core, Called
    <3> HIDE DEF q
    <3>3. \A x \in Range(q) : On(q, x)
      BY <3>1 DEF Range, On
    <3> QED BY <3>1, <3>2, <3>3
  <2> QED BY <2>1, <2>3, <2>4, <2>5 DEF TypeOK
<1> QED BY <1>1, Invariant, PTL

\* However completions, prefetches and answers interleave on the one stack, a
\* generator that waits is registered with the one future it waits for, once
\* and nowhere else; once that future is done, its callbacks are being run
\* (future.py:84-91, 195-219).
THEOREM GeneratorsRemembered == Spec => []NoGeneratorForgotten
<1>1. IInv => NoGeneratorForgotten
  <2> SUFFICES ASSUME IInv, NEW t \in DOMAIN tasks
               PROVE  /\ Suspended(t) =>
                            /\ Cardinality({i \in DOMAIN CallbacksOf(tasks[t].wait) :
                                               CallbacksOf(tasks[t].wait)[i] = t}) = 1
                            /\ IsDone(tasks[t].wait) =>
                                  Frame("callbacks", tasks[t].wait) \in Range(stack)
                      /\ \A f \in DOMAIN callbacks :
                            t \in Range(callbacks[f]) => f = tasks[t].wait
    BY DEF NoGeneratorForgotten
  <2>1. Core(tasks, service, callbacks, stack, pending, alerts) /\ stack \in Seq(FrameType)
    BY IInvIs, GoodIs
  <2>2. \A g : Queue(callbacks, g) \in Seq(Nat)
    BY <2>1, QueueType DEF Core
  <2>3. ASSUME Suspended(t)
        PROVE  /\ Cardinality({i \in DOMAIN CallbacksOf(tasks[t].wait) :
                                  CallbacksOf(tasks[t].wait)[i] = t}) = 1
               /\ IsDone(tasks[t].wait) => Frame("callbacks", tasks[t].wait) \in Range(stack)
    <3> DEFINE f == tasks[t].wait
               q == CallbacksOf(f)
    <3>1. f \in Futures(tasks, service)
      BY <2>1, <2>3 DEF Suspended, Core, Scheduled
    <3>2. q = Queue(callbacks, f) /\ q \in Seq(Nat)
      BY <2>2, SameQueue
    <3>3. Once(q, t) /\ On(q, t) /\ (q # << >> /\ Done(tasks, service, f) => On(stack, CbF(f)))
      BY <2>1, <3>1, <3>2 DEF Core, Called
    <3>4. IsDone(f) <=> Done(tasks, service, f)
      BY <3>1, SameOutcome
    <3> HIDE DEF q, f
    <3>5. q # << >>
      BY <3>3, EmptyOn
    <3>6. PICK k \in DOMAIN q : q[k] = t
      BY <3>2, <3>3 DEF On
    <3>7. {i \in DOMAIN q : q[i] = t} = {k}
      BY <3>2, <3>3, <3>6 DEF Once
    <3>8. Cardinality({i \in DOMAIN q : q[i] = t}) = 1
      BY <3>7, FS_Singleton
    <3>9. IsDone(f) => CbF(f) \in Range(stack)
      BY <2>1, <3>3, <3>4, <3>5 DEF On, Range
    <3> QED BY <3>8, <3>9 DEF q, f, CbF
  <2>4. ASSUME NEW f \in DOMAIN callbacks, t \in Range(callbacks[f])
        PROVE  f = tasks[t].wait
    <3> DEFINE q == Queue(callbacks, f)
    <3>1. q = callbacks[f] /\ q \in Seq(Nat) /\ f \in Futures(tasks, service)
      BY <2>1 DEF Core, Shaped, Queue
    <3> HIDE DEF q
    <3>2. On(q, t)
      BY <2>4, <3>1 DEF Range, On
    <3> QED BY <2>1, <3>1, <3>2 DEF Core, Called, q
  <2> QED BY <2>3, <2>4
<1> QED BY <1>1, Invariant, PTL

\* A plugin the controller waits for has not ended once the stack is empty.
LEMMA PendingIsOpen ==
    ASSUME Good, stack = << >>, NEW t \in pending PROVE tasks[t].out.val = Pending
<1>1. Core(tasks, service, callbacks, stack, pending, alerts)
  BY GoodIs
<1> DEFINE f == Task(t)
<1>2. t \in DOMAIN tasks /\ f \in Futures(tasks, service)
  BY <1>1 DEF Core, Shaped, Futures
<1>3. On(Queue(callbacks, f), Completion)
  BY <1>1, <1>2 DEF Core, Called
<1>4. Queue(callbacks, f) # << >>
  BY <1>3, EmptyOn
<1>5. ~ Done(tasks, service, f)
  BY <1>1, <1>2, <1>4, EmptyOn DEF Core, Called
<1> QED BY <1>5, DoneIs

\* When the loop ends, the plugins that raised an exception, and no others,
\* have a CRITICAL alert (controller.py:32-40).
THEOREM FailuresReported == Spec => []FailuresAreReported
<1>1. IInv => FailuresAreReported
  <2> SUFFICES ASSUME IInv, control = "stopped" PROVE alerts = {t \in Plugins : Failed(t)}
    BY DEF FailuresAreReported
  <2>1. Good /\ stack = << >>
    BY IInvIs DEF Looped
  <2>2. Core(tasks, service, callbacks, stack, pending, alerts)
    BY <2>1, GoodIs
  <2>3. \A t \in DOMAIN tasks : Failed(t) => t \notin pending
    BY <2>1, PendingIsOpen, ValuesApart DEF Failed
  <2>4. \A t \in DOMAIN tasks : ~ On(stack, RegF(t))
    BY <2>1, EmptyOn
  <2>5. \A t \in DOMAIN tasks : t \in alerts <=> IsPlugin(tasks, t) /\ Failed(t)
    BY <2>2, <2>3, <2>4 DEF Core, Watched, Failed
  <2>6. alerts \subseteq DOMAIN tasks /\ Plugins = {t \in DOMAIN tasks : IsPlugin(tasks, t)}
    BY <2>2 DEF Core, Shaped, Plugins, IsPlugin
  <2> QED BY <2>5, <2>6
<1> QED BY <1>1, Invariant, PTL

\* A table plugin that ends normally has reported every object of its table,
\* in order, once; one that leaves or fails, a prefix of them, although each row
\* is asked for while the one before is reported (plugins/__init__.py:56-64).
THEOREM TablesComplete == Spec => []TablesAreComplete
<1>1. IInv => TablesAreComplete
  <2> SUFFICES ASSUME IInv, NEW t \in DOMAIN tasks, tasks[t].prog = "table"
               PROVE  LET all == TableOf(tasks[t].base)
                      IN  /\ Reported(t) \subseteq all
                          /\ \A i, j \in Rows(t) : i < j => metrics[i].oid \prec metrics[j].oid
                          /\ \A k \in all, o \in Reported(t) : k \prec o => k \in Reported(t)
                          /\ tasks[t].out.val = Nothing /\ tasks[t].base \notin Early
                                 => Reported(t) = all
    BY DEF TablesAreComplete
  <2>1. TaskOK(tasks, service, metrics, t)
    BY IInvIs, GoodIs DEF Locals
  <2>2. Tells(tasks, metrics, t, tasks[t])
    BY <2>1 DEF TaskOK
  <2>3. Rows(t) = RowsOf(metrics, t) /\ Reported(t) = Told(metrics, t)
    BY DEF Rows, RowsOf, Reported, Told
  <2> QED BY <2>2, <2>3 DEF Tells
<1> QED BY <1>1, Invariant, PTL

\* Once every call is answered and nothing runs, no generator waits.
LEMMA AllAnswered ==
    ASSUME Good, stack = << >>, \A i \in DOMAIN service : service[i].ans.val # Pending
    PROVE  \A t \in DOMAIN tasks : tasks[t].out.val # Pending
<1>1. /\ Core(tasks, service, callbacks, stack, pending, alerts)
      /\ Locals(tasks, service, metrics)
  BY GoodIs
<1>2. ASSUME NEW t \in DOMAIN tasks, tasks[t].out.val = Pending
      PROVE  \E w \in DOMAIN tasks : tasks[t].wait = Task(w) /\ tasks[w].out.val = Pending
  <2> DEFINE f == tasks[t].wait
  <2>1. f # << >> /\ f \in Futures(tasks, service)
    BY <1>1, <1>2, EmptyOn DEF Core, Scheduled
  <2>2. Queue(callbacks, f) # << >>
    BY <1>1, <2>1, EmptyOn DEF Core, Called
  <2>3. ~ Done(tasks, service, f)
    BY <1>1, <2>1, <2>2, EmptyOn DEF Core, Called
  <2>4. \A i \in DOMAIN service : f # Call(i)
    BY <2>3, DoneIs
  <2> QED BY <2>1, <2>3, <2>4, DoneIs DEF Futures
<1>3. ASSUME NEW t \in DOMAIN tasks, tasks[t].prog \in {"walk", "family"}
      PROVE  tasks[t].out.val # Pending
  <2> SUFFICES ASSUME tasks[t].out.val = Pending PROVE FALSE
    OBVIOUS
  <2>1. PICK w \in DOMAIN tasks : tasks[t].wait = Task(w)
    BY <1>2
  <2>2. tasks[t].wait # << >> /\ TaskOK(tasks, service, metrics, t)
    BY <1>1, <2>1, FuturesAre DEF Locals
  <2>3. \E i : tasks[t].wait = Call(i)
    BY <1>3, <2>2 DEF TaskOK, WalkOK, FamilyOK, AsksFor
  <2> QED BY <2>1, <2>3, FuturesAre
<1>4. ASSUME NEW t \in DOMAIN tasks, tasks[t].prog \in {"table", "detect"}
      PROVE  tasks[t].out.val # Pending
  <2> SUFFICES ASSUME tasks[t].out.val = Pending PROVE FALSE
    OBVIOUS
  <2>1. PICK w \in DOMAIN tasks : tasks[t].wait = Task(w) /\ tasks[w].out.val = Pending
    BY <1>2
  <2>2. tasks[t].wait # << >> /\ TaskOK(tasks, service, metrics, t)
    BY <1>1, <2>1, FuturesAre DEF Locals
  <2>3. \A i : tasks[t].wait # Call(i)
    BY <2>1, FuturesAre
  <2>4. tasks[t].prog = "table" => w = tasks[t].walk /\ tasks[w].prog = "walk"
    <3> SUFFICES ASSUME tasks[t].prog = "table" PROVE w = tasks[t].walk /\ tasks[w].prog = "walk"
      OBVIOUS
    <3>1. TableOK(tasks, service, tasks[t])
      BY <2>2 DEF TaskOK
    <3>2. tasks[t].at = "row" /\ tasks[t].wait = Task(tasks[t].walk)
      BY <2>2, <2>3, <3>1 DEF TableOK, IsCall
    <3>3. WalkFrom(tasks, tasks[t].walk, tasks[t].base, tasks[tasks[t].walk].from)
      BY <3>1, <3>2 DEF TableOK
    <3>4. w = tasks[t].walk
      <4>1. Task(w) = Task(tasks[t].walk)
        BY <2>1, <3>2
      <4>2. \A u, v : Task(u) = Task(v) => u = v
        BY FuturesAre
      <4> QED BY <4>1, <4>2
    <3> QED BY <3>3, <3>4 DEF WalkFrom, IsA
  <2>5. tasks[t].prog = "detect" => w = tasks[t].walk /\ tasks[w].prog = "family"
    <3> SUFFICES ASSUME tasks[t].prog = "detect" PROVE w = tasks[t].walk /\ tasks[w].prog = "family"
      OBVIOUS
    <3>1. DetectOK(tasks, service, tasks[t])
      BY <2>2 DEF TaskOK
    <3>2. tasks[t].at = "started" /\ tasks[t].wait = Task(tasks[t].walk)
      BY <2>2, <2>3, <3>1 DEF DetectOK, AsksFor
    <3>3. IsA(tasks, "family", tasks[t].walk)
      BY <3>1, <3>2 DEF DetectOK
    <3>4. w = tasks[t].walk
      <4>1. Task(w) = Task(tasks[t].walk)
        BY <2>1, <3>2
      <4>2. \A u, v : Task(u) = Task(v) => u = v
        BY FuturesAre
      <4> QED BY <4>1, <4>2
    <3> QED BY <3>3, <3>4 DEF IsA
  <2> QED BY <1>3, <1>4, <2>1, <2>4, <2>5
<1>5. \A t \in DOMAIN tasks : tasks[t] \in TaskType
  BY GoodIs
<1> QED BY <1>3, <1>4, <1>5 DEF TaskType

\* The loop never ends with plugins pending; when it ends without failures,
\* detect has run all the plugins of the device's family, each once and to
\* its end (controller.py:49-67).
THEOREM PluginsRan == Spec => []AllPluginsRan
<1>1. IInv => AllPluginsRan
  <2> SUFFICES ASSUME IInv, control = "stopped"
               PROVE  LET ts == {t \in DOMAIN tasks : tasks[t].prog = "table"}
                      IN  /\ pending = {}
                          /\ alerts = {} => \A t \in ts : tasks[t].out.val = Nothing
                          /\ alerts = {} /\ Device \in DOMAIN Families =>
                                /\ \A t, u \in ts : tasks[t].base = tasks[u].base => t = u
                                /\ {tasks[t].base : t \in ts} = Range(Families[Device]) \ {sysObjectID}
    BY DEF AllPluginsRan
  <2>1. Good /\ stack = << >> /\ tasks # << >>
        /\ (pending = {} \/ \A i \in DOMAIN service : service[i].ans.val # Pending)
    BY IInvIs DEF Looped
  <2>2. /\ Core(tasks, service, callbacks, stack, pending, alerts)
        /\ tasks \in Seq(TaskType) /\ Locals(tasks, service, metrics) /\ Globals(tasks)
    BY <2>1, GoodIs
  <2>3. pending = {}
    <3> SUFFICES ASSUME \A i \in DOMAIN service : service[i].ans.val # Pending,
                        NEW t \in pending
                 PROVE  FALSE
      BY <2>1
    <3>1. tasks[t].out.val = Pending
      BY <2>1, PendingIsOpen
    <3>2. t \in DOMAIN tasks
      BY <2>2 DEF Core, Shaped
    <3> QED BY <2>1, <3>1, <3>2, AllAnswered
  <2>4. ASSUME alerts = {}, NEW t \in DOMAIN tasks, IsPlugin(tasks, t)
        PROVE  tasks[t].out.val = Nothing
    <3>1. tasks[t].out.val # Pending /\ tasks[t].out.val \notin Errors
      BY <2>1, <2>2, <2>3, <2>4, EmptyOn DEF Core, Watched
    <3>2. TaskOK(tasks, service, metrics, t)
      BY <2>2 DEF Locals
    <3>3. Ended(tasks[t])
      BY <2>4, <3>2 DEF TaskOK, TableOK, DetectOK, IsPlugin
    <3> QED BY <3>1, <3>3 DEF Ended
  <2>5. ASSUME alerts = {}, Device \in DOMAIN Families
        PROVE  {tasks[t].base : t \in TablesOf(tasks)} = Range(Started) \ {sysObjectID}
    <3>1. 1 \in DOMAIN tasks
      <4>1. Len(tasks) # 0 /\ Len(tasks) \in Nat
        BY <2>1, <2>2, EmptySeq
      <4> QED BY <2>2, <4>1
    <3>2. tasks[1].prog = "detect"
      BY <2>2, <3>1 DEF Globals
    <3>3. tasks[1].out.val = Nothing
      BY <2>4, <2>5, <3>1, <3>2 DEF IsPlugin
    <3>4. PICK u \in DOMAIN tasks : tasks[u].prog = "family" /\ tasks[u].out.val = Nothing
      BY <2>2, <2>5, <3>1, <3>2, <3>3 DEF Locals, TaskOK, DetectOK
    <3>5. tasks[u].walk = Len(Started)
      BY <2>2, <3>4 DEF Locals, TaskOK, FamilyOK
    <3>6. {tasks[t].base : t \in TablesOf(tasks)} = StartedSoFar(Len(Started))
      BY <2>2, <3>4, <3>5 DEF Globals
    <3>7. Range(Started) = {Started[m] : m \in 1 .. Len(Started)}
      <4>1. Started \in Seq(OIDS)
        BY <2>5, ControllerAssumption DEF Started
      <4> QED BY <4>1 DEF Range
    <3> QED BY <3>6, <3>7 DEF StartedSoFar
  <2>6. /\ \A t, u \in TablesOf(tasks) : tasks[t].base = tasks[u].base => t = u
        /\ alerts = {} => \A t \in TablesOf(tasks) : tasks[t].out.val = Nothing
    BY <2>2, <2>4 DEF Globals, TablesOf, IsPlugin
  <2> QED BY <2>3, <2>5, <2>6 DEF TablesOf, Started
<1> QED BY <1>1, Invariant, PTL
=============================================================================
