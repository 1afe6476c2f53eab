------------------------------- MODULE Engine -------------------------------
(* The engines of nssct.engine: a CachingEngine or none, over a BulkEngine   *)
(* or a SimpleEngine, as main() stacks them.  Everything runs in one thread, *)
(* so what interleaves is this: clients ask between steps and from the       *)
(* callbacks of the futures a step completes, one future after the other,    *)
(* while the rest of the step's results are still waiting.                   *)
EXTENDS Agent

CONSTANTS OIDS,          \* the oids clients ask for
          MaxRequests,   \* bound: how many requests clients make
          Setups,        \* how nssct may be called, and on what devices:
                         \*   cache: --cache is given
                         \*   bulk:  N of --bulk N, -1 when it is not given
                         \*   fails: a backend call may raise BackendError
          BulkMax,       \* most oids in one bulk query
          MinBulk,       \* a bulk answer is cut after this many bindings
                         \*   or later; a negative number: it is never cut
          Pending,       \* the future is not done
          BackendError

ASSUME EngineAssumption ==
    /\ OIDS \subseteq Oid \ {<< >>} /\ IsFiniteSet(OIDS)
    /\ MaxRequests \in Nat
    /\ Setups \subseteq [cache : BOOLEAN, bulk : Nat \cup {-1}, fails : BOOLEAN]
    /\ BulkMax \in Nat \ {0} /\ MinBulk \in Int
    /\ {Pending, BackendError} \cap Value = {}
    /\ {Pending, BackendError} \cap {NotCached, NoSuchObject, EndOfMibView} = {}
    /\ Pending # BackendError

VARIABLES
    setup,        \* the arguments of main(), and whether the device may fail
    cache,        \* CachingEngine.cache
    pendingnext,  \* CachingEngine.pendingnext: from oid to future
    futures,      \* every Future made, in order: what it asks and its answer
    calls,        \* every call of get and getnext: the future it returned
    getq, nextq,  \* BulkEngine.pendingget and .pendingnext
    pc,           \* where the step is
    result,       \* BulkEngine.step: bindings not yet processed
    cols,         \*   oids: the columns left in this row
    newcols,      \*   noids: where the next row continues
    completions,  \*   the futures to signal, with their answers
    workleft      \* what the last step returned

engineVars == <<getq, nextq, result, cols, newcols, completions>>
vars == <<setup, cache, pendingnext, futures, calls, engineVars, pc, workleft>>

Caching   == setup.cache
Bulk      == setup.bulk >= 0       \* a BulkEngine, otherwise a SimpleEngine
Lookahead == setup.bulk
MayFail   == setup.fails

Future(kind, o, ans) == [kind |-> kind, oid |-> o, ans |-> ans]
Answer(o, v)         == [oid |-> o, val |-> v]
NotDone(o)           == Answer(o, Pending)
Done(f)              == futures[f].ans.val # Pending

Init ==
    /\ setup \in Setups
    /\ cache = EmptyCache
    /\ pendingnext = << >>
    /\ futures = << >> /\ calls = << >>
    /\ getq = << >> /\ nextq = << >>
    /\ pc = "idle"
    /\ result = << >> /\ cols = << >> /\ newcols = << >> /\ completions = << >>
    /\ workleft = TRUE
-----------------------------------------------------------------------------
(* What a backend call yields: the agent's answer or, if the device does not *)
(* respond or reports an error, an exception.                                *)
Failures(o)    == IF MayFail THEN {Answer(o, BackendError)} ELSE {}
BackendGet(o)  == {AgentGet(o)} \cup Failures(o)
BackendNext(o) == {AgentNext(o)} \cup Failures(o)

\* Mutation of CacheGet: NoSuchObject is stored like a value.
CacheGetStoresErrors(c, o, a) ==
    IF a.val = EndOfMibView THEN SetEnd(c, o) ELSE Set(c, o, a.val)

\* Mutation of CacheGet: every exception counts as the end of the MIB.
CacheGetEndsOnError(c, o, a) ==
    IF a.val \in Value THEN Set(c, o, a.val) ELSE SetEnd(c, o)

(* _cacheget and _cachenext: the callback the CachingEngine registered       *)
(* first.  An error other than the end of the MIB leaves no trace in the     *)
(* cache; any error leaves the future in pendingnext.                        *)
CacheGet(c, o, a) ==
    CASE a.val \in Value     -> Set(c, o, a.val)
      [] a.val = EndOfMibView -> SetEnd(c, o)
      [] OTHER                -> c

\* Mutation of CacheNext: every exception counts as the end of the MIB.
CacheNextEndsOnError(c, o, a) ==
    IF a.val \in Value THEN SetNextValue(c, o, a.oid, a.val) ELSE SetEnd(c, o)

CacheNext(c, o, a) ==
    CASE a.val \in Value     -> SetNextValue(c, o, a.oid, a.val)
      [] a.val = EndOfMibView -> SetEnd(c, o)
      [] OTHER                -> c

Without(pn, o, a) ==
    IF a.val \in Value THEN [p \in DOMAIN pn \ {o} |-> pn[p]] ELSE pn

(* Clients run before a step and in the callbacks of a signalled future.     *)
ClientRuns == pc \in {"idle", "signalling"} /\ Len(calls) < MaxRequests

NewFuture(kind, o, a) ==
    /\ futures' = Append(futures, Future(kind, o, a))
    /\ calls' = Append(calls, Len(futures) + 1)

CachedGet(o)  == IF Caching THEN Get(cache, o) ELSE NotCached
CachedNext(o) == IF Caching THEN GetNext(cache, o) ELSE Answer(o, NotCached)

(* CachingEngine.get answered by the cache.  (It also looks into pendingget, *)
(* which nothing ever fills.)                                                *)
GetCached(o) ==
    /\ ClientRuns
    /\ CachedGet(o) # NotCached
    /\ NewFuture("get", o, Answer(o, CachedGet(o)))
    /\ UNCHANGED <<cache, pendingnext, engineVars, pc, workleft>>

(* get handed to the BulkEngine.                                             *)
GetQueued(o) ==
    /\ ClientRuns /\ Bulk
    /\ CachedGet(o) = NotCached
    /\ NewFuture("get", o, NotDone(o))
    /\ getq' = Append(getq, Len(futures) + 1)
    /\ UNCHANGED <<cache, pendingnext, nextq, result, cols, newcols,
                   completions, pc, workleft>>

(* get handed to the SimpleEngine, which asks at once.                       *)
GetDirect(o) ==
    /\ ClientRuns /\ ~ Bulk
    /\ CachedGet(o) = NotCached
    /\ \E a \in BackendGet(o) :
          /\ NewFuture("get", o, a)
          /\ cache' = IF Caching THEN CacheGet(cache, o, a) ELSE cache
    /\ UNCHANGED <<pendingnext, engineVars, pc, workleft>>

(* CachingEngine.getnext returns a future somebody is already waiting for.   *)
NextShared(o) ==
    /\ ClientRuns
    /\ o \in DOMAIN pendingnext
    /\ calls' = Append(calls, pendingnext[o])
    /\ UNCHANGED <<cache, pendingnext, futures, engineVars, pc, workleft>>

NextCached(o) ==
    /\ ClientRuns
    /\ o \notin DOMAIN pendingnext
    /\ CachedNext(o).val # NotCached
    /\ NewFuture("next", o, CachedNext(o))
    /\ UNCHANGED <<cache, pendingnext, engineVars, pc, workleft>>

With(pn, o, f) == [p \in DOMAIN pn \cup {o} |-> IF p = o THEN f ELSE pn[p]]

NextQueued(o) ==
    /\ ClientRuns /\ Bulk
    /\ o \notin DOMAIN pendingnext
    /\ CachedNext(o).val = NotCached
    /\ NewFuture("next", o, NotDone(o))
    /\ nextq' = Append(nextq, Len(futures) + 1)
    /\ pendingnext' = IF Caching THEN With(pendingnext, o, Len(futures) + 1)
                                 ELSE pendingnext
    /\ UNCHANGED <<cache, getq, result, cols, newcols, completions, pc, workleft>>

(* The future is already done when _cachenext is registered: it runs at once. *)
NextDirect(o) ==
    /\ ClientRuns /\ ~ Bulk
    /\ o \notin DOMAIN pendingnext
    /\ CachedNext(o).val = NotCached
    /\ \E a \in BackendNext(o) :
          /\ NewFuture("next", o, a)
          /\ cache' = IF Caching THEN CacheNext(cache, o, a) ELSE cache
          /\ pendingnext' =
                IF Caching THEN Without(With(pendingnext, o, Len(futures) + 1), o, a)
                           ELSE pendingnext
    /\ UNCHANGED <<engineVars, pc, workleft>>
-----------------------------------------------------------------------------
MaxRep == IF Caching THEN 1 + Lookahead ELSE 1

\* Mutation of HasWork: only getnext queries count.
HasNextWork == nextq # << >>

HasWork == getq # << >> \/ nextq # << >>

Quiet == result = << >> /\ cols = << >> /\ newcols = << >>

(* step with nothing queued, and every step of the SimpleEngine.             *)
StepNothing ==
    /\ pc = "idle" /\ ~ HasWork
    /\ workleft' = FALSE
    /\ UNCHANGED <<cache, pendingnext, futures, calls, engineVars, pc>>

OidOf(f) == futures[f].oid

(* One get and no getnext queued: a plain GET.                               *)
OnlyGet == Len(getq) = 1 /\ nextq = << >>

StepGet ==
    /\ pc = "idle" /\ OnlyGet
    /\ \E a \in BackendGet(OidOf(getq[1])) :
          completions' = << [fut |-> getq[1], ans |-> a] >>
    /\ getq' = << >>
    /\ pc' = "collected"
    /\ UNCHANGED <<cache, pendingnext, futures, calls, nextq, result, cols,
                   newcols, workleft>>

(* One getnext queued and no look-ahead wanted: a plain GETNEXT.             *)
OnlyNext == MaxRep <= 1 /\ Len(nextq) = 1 /\ getq = << >>

StepNext ==
    /\ pc = "idle" /\ OnlyNext
    /\ \E a \in BackendNext(OidOf(nextq[1])) :
          completions' = << [fut |-> nextq[1], ans |-> a] >>
    /\ nextq' = << >>
    /\ pc' = "collected"
    /\ UNCHANGED <<cache, pendingnext, futures, calls, getq, result, cols,
                   newcols, workleft>>

Least(m, n)    == IF m < n THEN m ELSE n
FirstOf(q, n)  == SubSeq(q, 1, Least(n, Len(q)))
BulkGets       == FirstOf(getq, BulkMax)
BulkNexts      == FirstOf(nextq, BulkMax - Len(BulkGets))
GetColumns     == [x \in DOMAIN BulkGets |-> PrevOid(OidOf(BulkGets[x]))]
NextColumns    == [x \in DOMAIN BulkNexts |-> OidOf(BulkNexts[x])]

(* A get is asked for as the object after prev_oid.                          *)
StepBulk ==
    /\ pc = "idle" /\ HasWork /\ ~ OnlyGet /\ ~ OnlyNext
    /\ cols' = NextColumns
    /\ pc' = "asking"
    /\ UNCHANGED <<cache, pendingnext, futures, calls, getq, nextq, result,
                   newcols, completions, workleft>>

(* GETBULK: binding x of the answer is the object after the column's oid or, *)
(* from the second row on, after the binding above.                          *)
BulkColumn(x) == LET y == x - Len(GetColumns)
                 IN  IF y <= 0 THEN GetColumns[x]
                     ELSE IF y <= Len(cols) THEN cols[y]
                     ELSE result[x - Len(cols)].oid

BulkSize == Len(GetColumns) + MaxRep * Len(cols)

BulkBinds ==
    /\ pc = "asking" /\ Len(result) < BulkSize
    /\ result' = Append(result, AgentNext(BulkColumn(Len(result) + 1)))
    /\ UNCHANGED <<cache, pendingnext, futures, calls, getq, nextq, cols,
                   newcols, completions, pc, workleft>>

(* What pysnmp makes of the bindings: rows of the r repeated columns, each   *)
(* with the n bindings that are not repeated in front; the last row may be   *)
(* short.                                                                    *)
Rows(binds, n, r) ==
    IF r = 0 \/ Len(binds) <= n THEN << binds >>
    ELSE [i \in 1 .. (Len(binds) - n + r - 1) \div r |->
             SubSeq(binds, 1, n)
             \o SubSeq(binds, n + (i - 1) * r + 1, Least(n + i * r, Len(binds)))]

\* Mutation of Joined: every row keeps the bindings that are not repeated.
JoinedWhole(rows, n, r) == FlattenSeq(rows)

(* handle_bulk_result joins the rows up to the first short one and drops the *)
(* repeated head of all but the first.                                       *)
Joined(rows, n, r) ==
    LET short == SelectInSeq(rows, LAMBDA row : Len(row) < n + r)
        taken == IF short = 0 THEN Len(rows) ELSE short
    IN  FlattenSeq([i \in 1 .. taken |->
                       IF i = 1 THEN rows[1] ELSE SubSeq(rows[i], n + 1, Len(rows[i]))])

(* The answer is full, or the device cuts it.                                *)
BulkEnds ==
    LET n == Len(GetColumns)
        r == Len(cols)
    IN  /\ pc = "asking"
        /\ Len(result) = BulkSize \/ (0 <= MinBulk /\ MinBulk <= Len(result))
        /\ result' = Joined(Rows(result, n, r), n, r)
        /\ pc' = "gets"
        /\ UNCHANGED <<cache, pendingnext, futures, calls, getq, nextq, cols,
                       newcols, completions, workleft>>

(* getbulk raises: nothing in step, Controller.run or main catches it.       *)
StepBulkFails ==
    /\ pc = "idle" /\ HasWork /\ ~ OnlyGet /\ ~ OnlyNext
    /\ MayFail
    /\ pc' = "crashed"
    /\ UNCHANGED <<cache, pendingnext, futures, calls, engineVars, workleft>>

Complete(f, a) == completions' = Append(completions, [fut |-> f, ans |-> a])

\* Mutation of TakeGet: the binding's oid is not compared with the query's.
TakeGetUnmasked ==
    LET f == Head(getq)
        q == OidOf(f)
        b == Head(result)
    IN  /\ pc = "gets" /\ result # << >> /\ getq # << >>
        /\ getq' = Tail(getq)
        /\ result' = Tail(result)
        /\ Complete(f, Answer(q, b.val))
        /\ UNCHANGED <<cache, pendingnext, futures, calls, nextq, cols, newcols,
                       pc, workleft>>

(* One pass of the loop over the non-repeating bindings.                     *)
TakeGet ==
    LET f == Head(getq)
        q == OidOf(f)
        b == Head(result)
    IN  /\ pc = "gets" /\ result # << >> /\ getq # << >>
        /\ getq' = Tail(getq)
        /\ result' = Tail(result)
        /\ \/ /\ q \prec b.oid
              /\ Complete(f, Answer(q, NoSuchObject))
              /\ cache' = IF Caching
                          THEN SetNextValue(cache, PrevOid(q), b.oid, b.val)
                          ELSE cache
           \/ /\ ~ (q \prec b.oid) /\ b.val = EndOfMibView
              /\ Complete(f, Answer(q, EndOfMibView))
              /\ cache' = IF Caching THEN SetEnd(cache, b.oid) ELSE cache
           \/ /\ ~ (q \prec b.oid) /\ b.val # EndOfMibView /\ q # b.oid
              /\ Complete(f, Answer(q, BackendError))
              /\ UNCHANGED cache
           \/ /\ q = b.oid /\ b.val # EndOfMibView
              /\ Complete(f, Answer(q, b.val))
              /\ cache' = IF Caching
                          THEN SetNextValue(cache, PrevOid(q), b.oid, b.val)
                          ELSE cache
        /\ UNCHANGED <<pendingnext, futures, calls, nextq, cols, newcols, pc,
                       workleft>>

GetsTaken ==
    /\ pc = "gets" /\ (result = << >> \/ getq = << >>)
    /\ pc' = "first"
    /\ UNCHANGED <<cache, pendingnext, futures, calls, engineVars, workleft>>

\* Mutation of TakeFirst: the future is taken out of pendingnext when its answer
\* arrives, before the cache has it.
TakeFirstUnnotes ==
    LET f == Head(nextq)
        b == Head(result)
    IN  /\ pc = "first" /\ result # << >> /\ cols # << >>
        /\ nextq' = Tail(nextq)
        /\ result' = Tail(result)
        /\ cols' = Tail(cols)
        /\ newcols' = Append(newcols, b.oid)
        /\ Complete(f, b)
        /\ pendingnext' = Without(pendingnext, OidOf(f), b)
        /\ UNCHANGED <<cache, futures, calls, getq, pc, workleft>>

(* One pass of the loop over the first row of the repeating bindings.        *)
TakeFirst ==
    LET f == Head(nextq)
        b == Head(result)
    IN  /\ pc = "first" /\ result # << >> /\ cols # << >>
        /\ nextq' = Tail(nextq)
        /\ result' = Tail(result)
        /\ cols' = Tail(cols)
        /\ newcols' = Append(newcols, b.oid)
        /\ Complete(f, b)
        /\ UNCHANGED <<cache, pendingnext, futures, calls, getq, pc, workleft>>

\* Mutation of FirstTaken: what the answer did not cover is dropped.
FirstTakenDropsRest ==
    /\ pc = "first" /\ (result = << >> \/ cols = << >>)
    /\ pc' = IF Caching THEN "ahead" ELSE "collected"
    /\ result'  = IF Caching THEN result ELSE << >>
    /\ cols'    = IF Caching THEN newcols ELSE << >>
    /\ newcols' = << >>
    /\ nextq'   = << >>
    /\ UNCHANGED <<cache, pendingnext, futures, calls, getq, completions, workleft>>

FirstTaken ==
    /\ pc = "first" /\ (result = << >> \/ cols = << >>)
    /\ pc' = IF Caching THEN "ahead" ELSE "collected"
    /\ result'  = IF Caching THEN result ELSE << >>
    /\ cols'    = IF Caching THEN newcols ELSE << >>
    /\ newcols' = << >>
    /\ UNCHANGED <<cache, pendingnext, futures, calls, getq, nextq,
                   completions, workleft>>

\* Mutation of TakeAhead: the next row starts where this one did.
TakeAheadSameRow ==
    LET o == Head(cols)
        b == Head(result)
    IN  /\ pc = "ahead" /\ result # << >> /\ cols # << >>
        /\ result' = Tail(result)
        /\ cache' = IF b.val = EndOfMibView THEN SetEnd(cache, b.oid)
                    ELSE SetNextValue(cache, o, b.oid, b.val)
        /\ cols' = IF Len(cols) > 1 THEN Tail(cols) ELSE Append(newcols, o)
        /\ newcols' = IF Len(cols) > 1 THEN Append(newcols, o) ELSE << >>
        /\ UNCHANGED <<pendingnext, futures, calls, getq, nextq, completions,
                       pc, workleft>>

(* One pass over the look-ahead rows: their bindings only fill the cache.    *)
TakeAhead ==
    LET o == Head(cols)
        b == Head(result)
    IN  /\ pc = "ahead" /\ result # << >> /\ cols # << >>
        /\ result' = Tail(result)
        /\ cache' = IF b.val = EndOfMibView THEN SetEnd(cache, b.oid)
                    ELSE SetNextValue(cache, o, b.oid, b.val)
        /\ cols' = IF Len(cols) > 1 THEN Tail(cols) ELSE Append(newcols, b.oid)
        /\ newcols' = IF Len(cols) > 1 THEN Append(newcols, b.oid) ELSE << >>
        /\ UNCHANGED <<pendingnext, futures, calls, getq, nextq, completions,
                       pc, workleft>>

AheadTaken ==
    /\ pc = "ahead" /\ (result = << >> \/ cols = << >>)
    /\ pc' = "collected"
    /\ result' = << >> /\ cols' = << >> /\ newcols' = << >>
    /\ UNCHANGED <<cache, pendingnext, futures, calls, getq, nextq,
                   completions, workleft>>

(* Signal one future: its answer is set, the CachingEngine's callback runs,  *)
(* then those of its clients (any number of the client actions above).       *)
Signal ==
    LET f == completions[1].fut
        a == completions[1].ans
        o == OidOf(f)
    IN  /\ pc \in {"collected", "signalling"} /\ completions # << >>
        /\ completions' = Tail(completions)
        /\ futures' = [futures EXCEPT ![f].ans = a]
        /\ IF futures[f].kind = "get"
           THEN /\ cache' = IF Caching THEN CacheGet(cache, o, a) ELSE cache
                /\ UNCHANGED pendingnext
           ELSE /\ cache' = IF Caching THEN CacheNext(cache, o, a) ELSE cache
                /\ pendingnext' = IF Caching THEN Without(pendingnext, o, a)
                                             ELSE pendingnext
        /\ pc' = "signalling"
        /\ UNCHANGED <<calls, getq, nextq, result, cols, newcols, workleft>>

\* Mutation of StepReturns: gets queued by callbacks are not looked at.
StepReturnsOnNexts ==
    /\ pc \in {"collected", "signalling"} /\ completions = << >>
    /\ pc' = "idle"
    /\ workleft' = (nextq # << >>)
    /\ UNCHANGED <<cache, pendingnext, futures, calls, engineVars>>

StepReturns ==
    /\ pc \in {"collected", "signalling"} /\ completions = << >>
    /\ pc' = "idle"
    /\ workleft' = HasWork
    /\ UNCHANGED <<cache, pendingnext, futures, calls, engineVars>>
-----------------------------------------------------------------------------
Client ==
    /\ \E o \in OIDS :
          \/ GetCached(o)  \/ GetQueued(o)  \/ GetDirect(o)
          \/ NextShared(o) \/ NextCached(o) \/ NextQueued(o) \/ NextDirect(o)
    /\ UNCHANGED setup

Step ==
    /\ \/ StepNothing \/ StepGet \/ StepNext \/ StepBulk \/ StepBulkFails
       \/ BulkBinds \/ BulkEnds
       \/ TakeGet \/ GetsTaken \/ TakeFirst \/ FirstTaken
       \/ TakeAhead \/ AheadTaken \/ Signal \/ StepReturns
    /\ UNCHANGED setup

Next == Client \/ Step

Spec == Init /\ [][Next]_vars

(* Controller.run calls step in a loop until it returns False, and a step    *)
(* runs to its end; clients need not ask anything.                           *)
FairSpec == Spec /\ WF_vars(Step)
-----------------------------------------------------------------------------
TypeOK ==
    /\ setup \in Setups
    /\ IsCache(cache)
    /\ pc \in {"idle", "asking", "gets", "first", "ahead", "collected",
              "signalling", "crashed"}
    /\ workleft \in BOOLEAN
    /\ DOMAIN pendingnext \subseteq OIDS
    /\ \A o \in DOMAIN pendingnext : pendingnext[o] \in DOMAIN futures
    /\ \A i \in DOMAIN calls : calls[i] \in DOMAIN futures
    /\ \A f \in DOMAIN futures : futures[f].kind \in {"get", "next"}
    /\ Range(getq) \cup Range(nextq) \subseteq DOMAIN futures
    /\ \A i \in DOMAIN completions : completions[i].fut \in DOMAIN futures

(* Every claim in the cache is true of the agent: values, the gaps between   *)
(* objects (also those learned from prev_oid queries and from look-ahead     *)
(* rows of a truncated bulk answer) and the end of the MIB.                  *)
ValuesTrue == \A o \in DOMAIN cache.oids :
                  o \in DOMAIN MIB /\ cache.oids[o] = MIB[o]
NextsTrue  == \A i \in DOMAIN cache.nexts :
                  IsNext(cache.nexts[i].oid, cache.nexts[i].noid)
EndTrue    == cache.last # NoOid => After(cache.last) = {}

CacheIsTruthful == ValuesTrue /\ NextsTrue /\ EndTrue

Positions(q, f) == {i \in DOMAIN q : q[i] = f}

(* A future that is not done is in exactly one place: a queue of the         *)
(* BulkEngine or the list of completions; a done one is in none.  Otherwise  *)
(* a plugin waits for ever, or set_result's assertion fails.                 *)
NoFutureLost ==
    \A f \in DOMAIN futures :
        Cardinality(Positions(getq, f)) + Cardinality(Positions(nextq, f))
        + Cardinality({i \in DOMAIN completions : completions[i].fut = f})
            = IF Done(f) THEN 0 ELSE 1

(* With a cache the agent is asked for the object after an oid once          *)
(* (main.py:33).  A getnext future that is not done is the one every further *)
(* call shares, wherever it is: queued, answered, or behind the future whose *)
(* callbacks are asking.  Once it is done with an answer, a further call     *)
(* still shares a future or finds the answer in the cache, for ever.  (What  *)
(* a failed one leaves behind is FailuresAreNotCached.)                      *)
NextsAskedOnce ==
    Caching => \A f \in DOMAIN futures :
        futures[f].kind = "next" /\ futures[f].ans.val # BackendError =>
            IF Done(f)
            THEN OidOf(f) \in DOMAIN pendingnext \/ GetNext(cache, OidOf(f)).val # NotCached
            ELSE OidOf(f) \in DOMAIN pendingnext /\ pendingnext[OidOf(f)] = f

(* engine.py:29, a step returns False only when all futures are completed,   *)
(* including those asked for by callbacks of that very step.                 *)
FalseMeansAllDone ==
    [][(StepNothing \/ StepReturns) /\ ~ workleft'
           => \A f \in DOMAIN futures : futures[f].ans.val # Pending]_vars

(* engine.py:147, "we cannot cache other exceptions": a new call of getnext  *)
(* is never handed the failure of an earlier query.                          *)
FailuresAreNotCached ==
    [][Len(calls') > Len(calls) /\ Bulk
           => futures'[calls'[Len(calls')]].ans.val # BackendError]_vars

(* engine.py:190, prev_oid is minimally smaller: an object that exists is    *)
(* found by get, whichever query the engine turns it into.                   *)
ExistingObjectsAreFound ==
    \A f \in DOMAIN futures :
        futures[f].kind = "get" /\ Done(f) /\ OidOf(f) \in DOMAIN MIB
            => futures[f].ans = AgentGet(OidOf(f))

(* engine.py:28-30, stepping until False completes all returned futures.     *)
(* Clients make at most MaxRequests calls, so each future is completed.      *)
EveryFutureCompletes == []<>(\A f \in DOMAIN futures : Done(f))

(* Unless getbulk raises, which ends the program (EveryFutureCompletes).     *)
FuturesComplete == []<>(pc = "crashed" \/ \A f \in DOMAIN futures : Done(f))

(* What clients see of an engine is a QueryService.                          *)
Service == INSTANCE QueryService WITH
               service <- [i \in DOMAIN calls |-> futures[calls[i]]],
               failing <- setup.fails

ImplementsQueryService == Service!Spec
=============================================================================
