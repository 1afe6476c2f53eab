----------------------------- MODULE Controller -----------------------------
(* nssct.controller over nssct.future and the plugins' table walks: run      *)
(* starts detect, detect starts the device family's plugins, each plugin is  *)
(* a generator wrapped in a GeneratedFuture and resumed by the callbacks of  *)
(* the future it yielded, and the controller steps the engine until no       *)
(* plugin is pending.  Everything runs on one stack: a callback resumes a    *)
(* generator, which starts others and runs them to their first yield, and a  *)
(* future that is already done runs its callbacks at once, deeper down.      *)
(* The engine is the abstract QueryService.                                  *)
EXTENDS Agent

CONSTANTS sysObjectID,   \* the object detect asks for
          Families,      \* from device type to the tables its plugins walk;
                         \* sysObjectID among them is asked for in between
          Detail,        \* from a table to the columns its plugin gets for each row
          Early,         \* tables whose plugin may return before the end
          MaxCalls,      \* bound: calls of the engine
          OIDS, MayFail, Pending, BackendError,
          Nothing        \* None

(* A family's detection starts each of its plugins once.                     *)
ASSUME ControllerAssumption ==
    /\ sysObjectID \in OIDS
    /\ OIDS \subseteq Oid
    /\ DOMAIN Families \subseteq Value
    /\ \A v \in DOMAIN Families :
          /\ Families[v] \in Seq(OIDS)
          /\ \A m, n \in DOMAIN Families[v] :
                Families[v][m] = Families[v][n] => m = n \/ Families[v][m] = sysObjectID
    /\ Early \cup DOMAIN Detail \subseteq Oid
    /\ \A b \in DOMAIN Detail : Detail[b] \in Seq(Oid) \ {<< >>}
    /\ MaxCalls \in Nat
    /\ {Nothing, Pending, BackendError} \cap (Value \cup {NoSuchObject, EndOfMibView}) = {}
    /\ Nothing # Pending /\ Nothing # BackendError /\ Pending # BackendError

VARIABLES
    service,      \* the engine: every call and its answer
    tasks,        \* the GeneratedFutures, in the order they were made
    callbacks,    \* Future.callbacks: what runs when a future is done
    stack,        \* Python's stack, innermost frame first
    pending,      \* Controller.pending_plugins
    alerts,       \* collector: the plugins reported as failed
    metrics,      \* collector: [plugin, oid] for every row reported
    control       \* where Controller.run is

vars == <<service, tasks, callbacks, stack, pending, alerts, metrics, control>>

Engine == INSTANCE QueryService WITH failing <- MayFail

(* Futures are calls of the engine and tasks.                                *)
Call(i) == <<"call", i>>
Task(t) == <<"task", t>>

Answer(o, v, w) == [oid |-> o, val |-> v, walk |-> w]

(* What fut.result() returns, or the exception it raises.                    *)
Outcome(f) == IF f[1] = "task" THEN tasks[f[2]].out
              ELSE Answer(service[f[2]].ans.oid, service[f[2]].ans.val, 0)

Errors    == {NoSuchObject, EndOfMibView, BackendError}
IsDone(f) == Outcome(f).val # Pending

(* A frame runs a generator, registers a started plugin with the controller, *)
(* or works through the callbacks of a future that is done.                  *)
Frame(op, x) == [op |-> op, arg |-> x]
Top(frame)   == stack # << >> /\ Head(stack) = frame

NewTask(prog, base, from) ==
    [prog |-> prog, base |-> base, from |-> from, at |-> "start", walk |-> 0,
     asked |-> << >>, wait |-> << >>, got |-> Answer(from, Pending, 0), out |-> Answer(from, Pending, 0)]

CallbacksOf(f)      == IF f \in DOMAIN callbacks THEN callbacks[f] ELSE << >>
WithCallbacks(f, s) == [g \in DOMAIN callbacks \cup {f} |-> IF g = f THEN s ELSE callbacks[g]]

Init ==
    /\ service = << >> /\ tasks = << >> /\ callbacks = << >> /\ stack = << >>
    /\ pending = {} /\ alerts = {} /\ metrics = << >>
    /\ control = "start"
-----------------------------------------------------------------------------
(* Generators.                                                               *)

At(t, prog, label) == /\ Top(Frame("run", t))
                      /\ tasks[t].prog = prog /\ tasks[t].at = label

Goto(t, label) == [tasks EXCEPT ![t].at = label]

\* Mutation of Await: add_done_callback does not look whether the future is done.
AwaitOnly(f, done, t) ==
    /\ callbacks' = WithCallbacks(f, Append(CallbacksOf(f), t))
    /\ stack' = Tail(stack)

(* yield f: _invoke registers _handle_completion; a future that is already   *)
(* done runs it at once.                                                     *)
Await(f, done, t) ==
    /\ callbacks' = WithCallbacks(f, Append(CallbacksOf(f), t))
    /\ stack' = (IF done THEN << Frame("callbacks", f) >> ELSE << >>) \o Tail(stack)

(* yield controller.engine.get(o) or .getnext(o), to go on at label; ts is   *)
(* what the generator has already done to the tasks.                         *)
AskAndAwait(ts, t, kind, o, label) ==
    LET f == Call(Len(service) + 1)
    IN  /\ Len(service) < MaxCalls
        /\ \E a \in Engine!Answers(kind, o) \cup {Engine!Answer(o, Pending)} :
              /\ service' = Append(service, [kind |-> kind, oid |-> o, ans |-> a])
              /\ Await(f, a.val # Pending, t)
        /\ tasks' = [ts EXCEPT ![t].at = label, ![t].wait = f]

AwaitTask(t, w, label) ==
    /\ Await(Task(w), IsDone(Task(w)), t)
    /\ tasks' = [tasks EXCEPT ![t].at = label, ![t].wait = Task(w)]
    /\ UNCHANGED service

(* The generator ends: the future is done and its callbacks run.             *)
Finish(t, out) ==
    /\ tasks' = [tasks EXCEPT ![t].out = out, ![t].at = "finished"]
    /\ stack' = << Frame("callbacks", Task(t)) >> \o Tail(stack)
    /\ UNCHANGED <<service, callbacks>>

(* Calling another coroutine runs it to its first yield before the caller    *)
(* goes on; under are frames to run in between.                              *)
Invoke(ts, new, under) ==
    /\ tasks' = Append(ts, new)
    /\ stack' = << Frame("run", Len(ts) + 1) >> \o under \o stack
    /\ UNCHANGED <<service, callbacks>>

(* start_plugin                                                              *)
StartPlugin(ts, new) == Invoke(ts, new, << Frame("register", Len(ts) + 1) >>)

Got(t)   == tasks[t].got
None(t)  == Answer(tasks[t].from, Nothing, 0)

(* The generator ends with the exception thrown into it, or normally.        *)
Ends(t) == Finish(t, IF Got(t).val \in Errors THEN Got(t) ELSE None(t))

Collected == <<pending, alerts, metrics, control>>
-----------------------------------------------------------------------------
(* snmpwalk: one row per coroutine; a row's coroutine starts the next one    *)
(* before anybody asks for it.                                               *)
WalkAsks(t) == /\ At(t, "walk", "start")
               /\ AskAndAwait(tasks, t, "next", tasks[t].from, "got")
               /\ UNCHANGED Collected

InTable(t) == Got(t).val \in Value /\ StartsWith(Got(t).oid, tasks[t].base)

\* Mutation of WalkEnds: any exception ends the table.
WalkEndsOnError(t) ==
    /\ At(t, "walk", "got")
    /\ ~ InTable(t)
    /\ Finish(t, None(t))
    /\ UNCHANGED Collected

WalkEnds(t) ==
    /\ At(t, "walk", "got")
    /\ ~ InTable(t)
    /\ IF Got(t).val \in Errors \ {EndOfMibView} THEN Finish(t, Got(t))
                                                 ELSE Finish(t, None(t))
    /\ UNCHANGED Collected

\* Mutation of WalkPrefetches: the next row is looked for where this one was.
WalkPrefetchesSame(t) ==
    /\ At(t, "walk", "got") /\ InTable(t)
    /\ Invoke([tasks EXCEPT ![t].at = "row", ![t].walk = Len(tasks) + 1],
              NewTask("walk", tasks[t].base, tasks[t].from), << >>)
    /\ UNCHANGED Collected

WalkPrefetches(t) ==
    /\ At(t, "walk", "got") /\ InTable(t)
    /\ Invoke([tasks EXCEPT ![t].at = "row", ![t].walk = Len(tasks) + 1],
              NewTask("walk", tasks[t].base, Got(t).oid), << >>)
    /\ UNCHANGED Collected

WalkReturns(t) ==
    /\ At(t, "walk", "row")
    /\ Finish(t, Answer(Got(t).oid, Got(t).val, tasks[t].walk))
    /\ UNCHANGED Collected

(* A table plugin: while (yield fut) over a walk of its table, reporting     *)
(* every row, if need be after getting other columns of it, which are asked  *)
(* for together and awaited one by one.                                      *)
TableStarts(t) ==
    /\ At(t, "table", "start")
    /\ Invoke([tasks EXCEPT ![t].at = "walking", ![t].walk = Len(tasks) + 1],
              NewTask("walk", tasks[t].base, tasks[t].base), << >>)
    /\ UNCHANGED Collected

TableAwaitsRow(t) == /\ At(t, "table", "walking")
                     /\ AwaitTask(t, tasks[t].walk, "row")
                     /\ UNCHANGED Collected

TableEnds(t) == /\ At(t, "table", "row")
                /\ Got(t).val \notin Value
                /\ Ends(t)
                /\ UNCHANGED Collected

Report(t, o) == metrics' = Append(metrics, [plugin |-> t, oid |-> o])

TableReportsRow(t) ==
    /\ At(t, "table", "row") /\ Got(t).val \in Value
    /\ tasks[t].base \notin DOMAIN Detail
    /\ tasks' = [tasks EXCEPT ![t].at = "reported", ![t].walk = Got(t).walk]
    /\ Report(t, Got(t).oid)
    /\ UNCHANGED <<service, callbacks, stack, pending, alerts, control>>

TableKeepsRow(t) ==
    /\ At(t, "table", "row") /\ Got(t).val \in Value
    /\ tasks[t].base \in DOMAIN Detail
    /\ tasks' = [tasks EXCEPT ![t].at = "asking", ![t].walk = Got(t).walk,
                              ![t].from = Got(t).oid, ![t].asked = << >>]
    /\ UNCHANGED <<service, callbacks, stack, Collected>>

Columns(t) == Detail[tasks[t].base]

TableAsksColumn(t) ==
    LET o == Append(Columns(t)[Len(tasks[t].asked) + 1], Last(tasks[t].from))
    IN  /\ At(t, "table", "asking") /\ Len(tasks[t].asked) < Len(Columns(t))
        /\ Len(service) < MaxCalls
        /\ \E a \in Engine!Answers("get", o) \cup {Engine!Answer(o, Pending)} :
              service' = Append(service, [kind |-> "get", oid |-> o, ans |-> a])
        /\ tasks' = [tasks EXCEPT ![t].asked = Append(@, Call(Len(service) + 1))]
        /\ UNCHANGED <<callbacks, stack, Collected>>

TableAwaitsColumn(t) ==
    LET f == Head(tasks[t].asked)
    IN  /\ tasks[t].asked # << >>
        /\ \/ At(t, "table", "asking") /\ Len(tasks[t].asked) = Len(Columns(t))
           \/ At(t, "table", "detail") /\ Got(t).val \in Value
        /\ Await(f, IsDone(f), t)
        /\ tasks' = [tasks EXCEPT ![t].at = "detail", ![t].wait = f, ![t].asked = Tail(@)]
        /\ UNCHANGED <<service, Collected>>

TableReportsDetail(t) ==
    /\ At(t, "table", "detail")
    /\ \/ Got(t).val \in Errors /\ Ends(t) /\ UNCHANGED metrics
       \/ /\ Got(t).val \in Value /\ tasks[t].asked = << >>
          /\ tasks' = Goto(t, "reported")
          /\ Report(t, tasks[t].from)
          /\ UNCHANGED <<service, callbacks, stack>>
    /\ UNCHANGED <<pending, alerts, control>>

\* Mutation of TableGoesOn: the loop is left after its first row.
TableStops(t) ==
    /\ At(t, "table", "reported")
    /\ Finish(t, None(t))
    /\ UNCHANGED Collected

TableGoesOn(t) ==
    /\ At(t, "table", "reported")
    /\ tasks' = Goto(t, "walking")
    /\ UNCHANGED <<service, callbacks, stack, Collected>>

(* The plugin has seen enough; a row is still being fetched for it.          *)
TableLeaves(t) ==
    /\ At(t, "table", "reported") /\ tasks[t].base \in Early
    /\ Finish(t, None(t))
    /\ UNCHANGED Collected

(* detect asks for the device type and runs the family's own detection,      *)
(* which starts the plugins; an unknown device has none.                     *)
DetectAsks(t) == /\ At(t, "detect", "start")
                 /\ AskAndAwait(tasks, t, "get", sysObjectID, "got")
                 /\ UNCHANGED Collected

DetectInvokes(t) ==
    /\ At(t, "detect", "got") /\ Got(t).val \in DOMAIN Families
    /\ Invoke([tasks EXCEPT ![t].at = "family", ![t].walk = Len(tasks) + 1],
              [NewTask("family", sysObjectID, sysObjectID) EXCEPT !.got = Got(t)], << >>)
    /\ UNCHANGED Collected

DetectAwaits(t) == /\ At(t, "detect", "family")
                   /\ AwaitTask(t, tasks[t].walk, "started")
                   /\ UNCHANGED Collected

DetectEnds(t) ==
    /\ \/ At(t, "detect", "got") /\ Got(t).val \notin DOMAIN Families
       \/ At(t, "detect", "started")
    /\ Ends(t)
    /\ UNCHANGED Collected

Tables(t) == Families[Got(t).val]

(* walk counts the plugins started so far.                                   *)
FamilyStarts(t) ==
    LET n == tasks[t].walk + 1
    IN  /\ At(t, "family", "start") /\ n <= Len(Tables(t)) /\ Tables(t)[n] # sysObjectID
        /\ StartPlugin([tasks EXCEPT ![t].walk = n],
                       NewTask("table", Tables(t)[n], Tables(t)[n]))
        /\ UNCHANGED Collected

(* A family's detection may ask for more before it starts the rest.          *)
FamilyAsks(t) ==
    LET n == tasks[t].walk + 1
    IN  /\ At(t, "family", "start") /\ n <= Len(Tables(t)) /\ Tables(t)[n] = sysObjectID
        /\ AskAndAwait([tasks EXCEPT ![t].walk = n], t, "get", sysObjectID, "answered")
        /\ UNCHANGED Collected

\* Mutation of FamilyGoesOn: the answer ends the detection, like a failure.
FamilyStops(t) ==
    /\ At(t, "family", "answered")
    /\ Ends(t)
    /\ UNCHANGED Collected

FamilyGoesOn(t) ==
    /\ At(t, "family", "answered")
    /\ IF Got(t).val \in Errors THEN Ends(t)
       ELSE tasks' = Goto(t, "start") /\ UNCHANGED <<service, callbacks, stack>>
    /\ UNCHANGED Collected

FamilyEnds(t) == /\ At(t, "family", "start") /\ tasks[t].walk = Len(Tables(t))
                 /\ Finish(t, None(t))
                 /\ UNCHANGED Collected

Generator(t) ==
    \/ WalkAsks(t)        \/ WalkEnds(t)        \/ WalkPrefetches(t) \/ WalkReturns(t)
    \/ TableStarts(t)     \/ TableAwaitsRow(t)  \/ TableEnds(t)
    \/ TableReportsRow(t) \/ TableKeepsRow(t)   \/ TableAsksColumn(t)
    \/ TableAwaitsColumn(t) \/ TableReportsDetail(t)
    \/ TableGoesOn(t)     \/ TableLeaves(t)
    \/ DetectAsks(t)      \/ DetectInvokes(t)   \/ DetectAwaits(t)   \/ DetectEnds(t)
    \/ FamilyStarts(t)    \/ FamilyAsks(t)     \/ FamilyGoesOn(t)    \/ FamilyEnds(t)
-----------------------------------------------------------------------------
(* Futures and the controller.                                               *)

Completion == 0    \* the callback start_plugin registers

\* Mutation of Register: the callback is noted as pending, not the future.
RegisterCallback(t) ==
    LET f == Task(t)
    IN  /\ Top(Frame("register", t))
        /\ pending' = pending \cup {Completion}
        /\ Await(f, IsDone(f), Completion)
        /\ UNCHANGED <<service, tasks, alerts, metrics, control>>

\* Mutation of Register: the plugin is not noted as pending.
RegisterUnnoted(t) ==
    LET f == Task(t)
    IN  /\ Top(Frame("register", t))
        /\ Await(f, IsDone(f), Completion)
        /\ UNCHANGED <<service, tasks, pending, alerts, metrics, control>>

(* The rest of start_plugin, once the plugin has yielded or ended.           *)
Register(t) ==
    LET f == Task(t)
    IN  /\ Top(Frame("register", t))
        /\ pending' = pending \cup {t}
        /\ Await(f, IsDone(f), Completion)
        /\ UNCHANGED <<service, tasks, alerts, metrics, control>>

\* Mutation of Complete: the exception is only logged.
CompleteQuietly(f) ==
    /\ pending' = pending \ {f[2]}
    /\ UNCHANGED <<alerts, tasks, stack>>

(* completion: an exception becomes a CRITICAL alert.                        *)
Complete(f) ==
    /\ pending' = pending \ {f[2]}
    /\ alerts' = IF Outcome(f).val \in Errors THEN alerts \cup {f[2]} ELSE alerts
    /\ UNCHANGED <<tasks, stack>>

(* _handle_completion resumes the generator with the outcome.                *)
Resume(t, f) ==
    /\ tasks' = [tasks EXCEPT ![t].got = Outcome(f), ![t].wait = << >>]
    /\ stack' = << Frame("run", t) >> \o stack
    /\ UNCHANGED <<pending, alerts>>

(* One pass of _run_callbacks.                                               *)
RunCallback(f) ==
    /\ Top(Frame("callbacks", f))
    /\ CallbacksOf(f) # << >>
    /\ callbacks' = WithCallbacks(f, Tail(callbacks[f]))
    /\ LET c == Head(callbacks[f])
       IN  IF c = Completion THEN Complete(f) ELSE Resume(c, f)
    /\ UNCHANGED <<service, metrics, control>>

CallbacksRun(f) ==
    /\ Top(Frame("callbacks", f))
    /\ CallbacksOf(f) = << >>
    /\ stack' = Tail(stack)
    /\ UNCHANGED <<service, tasks, callbacks, Collected>>

(* run starts detect.                                                        *)
Run ==
    /\ control = "start"
    /\ control' = "loop"
    /\ StartPlugin(tasks, NewTask("detect", sysObjectID, sysObjectID))
    /\ UNCHANGED <<pending, alerts, metrics>>

Opens == {i \in DOMAIN service : service[i].ans.val = Pending}

(* In a step the engine answers at least one call, if there is any.          *)
EngineAnswers ==
    /\ control \in {"loop", "answered"} /\ stack = << >>
    /\ \E i \in Opens : \E a \in Engine!Answers(service[i].kind, service[i].oid) :
          /\ service' = [service EXCEPT ![i].ans = a]
          /\ stack' = << Frame("callbacks", Call(i)) >>
    /\ control' = "answered"
    /\ UNCHANGED <<tasks, callbacks, pending, alerts, metrics>>

(* The engine's step returns whether it has work left; Controller.step ends  *)
(* the loop when no plugin is pending, or when there is no work left.        *)
StepReturns ==
    /\ control = "answered" \/ (control = "loop" /\ Opens = {})
    /\ stack = << >>
    /\ control' = IF pending = {} \/ Opens = {} THEN "stopped" ELSE "loop"
    /\ UNCHANGED <<service, tasks, callbacks, stack, pending, alerts, metrics>>

Running ==
    \/ \E t \in DOMAIN tasks : Generator(t) \/ Register(t)
    \/ \E f \in {Task(t) : t \in DOMAIN tasks} \cup {Call(i) : i \in DOMAIN service} :
          RunCallback(f) \/ CallbacksRun(f)

Next == Run \/ Running \/ EngineAnswers \/ StepReturns

Spec == Init /\ [][Next]_vars

(* One thread that runs until the loop ends.                                 *)
FairSpec == Spec /\ WF_vars(Next)
-----------------------------------------------------------------------------
(* The device type, if the device has one.                                   *)
Device == AgentGet(sysObjectID).val

TypeOK ==
    /\ control \in {"start", "loop", "answered", "stopped"}
    /\ pending \cup alerts \subseteq DOMAIN tasks
    /\ \A t \in DOMAIN tasks :
          tasks[t].walk \in 0 .. IF tasks[t].prog = "family" THEN Len(Families[Device])
                                                            ELSE Len(tasks)
    /\ \A f \in DOMAIN callbacks : Range(callbacks[f]) \subseteq DOMAIN tasks \cup {Completion}

(* A generator that has yielded waits for one future: its callback is        *)
(* registered there and nowhere else, once.  That future is not done, or its *)
(* callbacks are being run.  Otherwise "a missing callback invocation could  *)
(* abort a plugin without anything noticing" (controller.py:19), or the      *)
(* assertion of _handle_completion fails.                                    *)
Suspended(t) == tasks[t].wait # << >>

NoGeneratorForgotten ==
    \A t \in DOMAIN tasks :
        /\ Suspended(t) =>
              /\ Cardinality({i \in DOMAIN CallbacksOf(tasks[t].wait) :
                                 CallbacksOf(tasks[t].wait)[i] = t}) = 1
              /\ IsDone(tasks[t].wait) => Frame("callbacks", tasks[t].wait) \in Range(stack)
        /\ \A f \in DOMAIN callbacks :
              t \in Range(callbacks[f]) => f = tasks[t].wait

Plugins == {t \in DOMAIN tasks : tasks[t].prog \in {"detect", "table"}}
Failed(t) == tasks[t].out.val \in Errors

(* When the loop ends, the plugins that raised an exception, and no others,  *)
(* have a CRITICAL alert.                                                    *)
FailuresAreReported ==
    control = "stopped" => alerts = {t \in Plugins : Failed(t)}

(* A table plugin that ends normally has reported every object of its table, *)
(* in order, once, however the rows' prefetches and other plugins' queries   *)
(* were answered in between; one that leaves or fails, a prefix of them.     *)
Rows(t)     == {i \in DOMAIN metrics : metrics[i].plugin = t}
Reported(t) == {metrics[i].oid : i \in Rows(t)}

TableOf(base) == {k \in After(base) : StartsWith(k, base)}

TablesAreComplete ==
    \A t \in DOMAIN tasks : tasks[t].prog = "table" =>
        LET all == TableOf(tasks[t].base)
        IN  /\ Reported(t) \subseteq all
            /\ \A i, j \in Rows(t) : i < j => metrics[i].oid \prec metrics[j].oid
            /\ \A k \in all, o \in Reported(t) : k \prec o => k \in Reported(t)
            /\ tasks[t].out.val = Nothing /\ tasks[t].base \notin Early
                   => Reported(t) = all

(* The loop never ends with plugins pending, so "some plugins failed to      *)
(* complete" (controller.py:55) is never logged; when it ends without        *)
(* failures, detect has run all the plugins of the device's family, each     *)
(* once and to its end.                                                      *)
AllPluginsRan ==
    control = "stopped" =>
        LET ts == {t \in DOMAIN tasks : tasks[t].prog = "table"}
        IN  /\ pending = {}
            /\ alerts = {} => \A t \in ts : tasks[t].out.val = Nothing
            /\ alerts = {} /\ Device \in DOMAIN Families =>
                  /\ \A t, u \in ts : tasks[t].base = tasks[u].base => t = u
                  /\ {tasks[t].base : t \in ts} = Range(Families[Device]) \ {sysObjectID}

(* run returns (controller.py:60-67).                                        *)
RunReturns == <>(control = "stopped")
=============================================================================
