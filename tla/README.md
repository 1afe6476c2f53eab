# nssct in TLA+

nssct is a Nagios check: it detects what kind of network device answers at an
address, runs the plugins for that device family over SNMP and prints one
status line, the alerts and the performance data.  This directory holds TLA+
modules of its core, TLC configurations that check them on small instances,
and TLAPS proofs of what holds for every instance.  Paths are relative to the
repository's `nssct/`.

## The system

| part | state | operations | what it talks to |
|---|---|---|---|
| object cache, `cache.py` | values by oid, a sorted list of intervals `[oid, noid)`, the known end | `get`, `getnext`, `set`, `setnext`, `setnextvalue`, `setend`, `invalidate`, `nextfromset` | called by CachingEngine, BulkEngine (through it) and MockBackend |
| engines, `engine.py` | queues of requests, futures, the cache, futures somebody waits for | `get`, `getnext`, `step` | a backend below, plugins above |
| backends, `backend/` | none (network), a cache of a recorded walk (mock) | `get`, `getnext`, `getbulk`, each blocking | the SNMP agent |
| futures, `future.py` | outcome, callbacks, the generator and what it waits for | `set_result`, `set_exception`, `add_done_callback`, `coroutine` | everything above the backends |
| controller, `controller.py` | plugins that are not done | `start_plugin`, `step`, `run` | engine, plugins, collector |
| plugins, `plugins/` | each a suspended generator | `detect`, the families' detection, table walks, single queries | engine, controller, collector |
| report, `report.py` | alerts by state, metrics | `add_alert`, `add_metric`, `state`, `__str__` | plugins, main |
| walkfilter, `walkfilter.py` | files, jobs and their results | `--filter`, `--transform` | the file system, a process pool |
| main, `main.py` | none | stacks the engines, runs detect, exits | all of the above |
| log, graph template | - | - | - |

The check has one thread.  What makes the program hard is re-entrancy: a step of the
engine completes futures; each completion runs callbacks on the spot; a
callback resumes a plugin; the plugin asks for more, starts other plugins, and
all this happens while the rest of the step's answers still wait to be handed
out.  Failures enter at every backend call.  A bulk answer may be cut anywhere
by the device.  The cache learns in any order, from gets turned into bulk
queries, from walks and from look-ahead rows, and has to stay consistent.

What makes each part correct:

- cache: its list is sorted and disjoint, or bisect finds the wrong interval;
  what it was told last wins; it forgets rather than contradict itself, and
  never answers what it was not told.
- engines: every future is completed once, with the agent's answer; a step
  returns False only when all are completed; the cache stays true of the agent.
- futures and controller: a suspended generator is resumed exactly once, by the
  future it waits for; no plugin is forgotten; failures are reported.
- walks: every row of the table, in order, once; never a partial table that
  looks complete.
- plugins: what is wrong with the device reaches the exit code, and nothing
  else does, whatever rows come before and after and whatever is skipped; the
  plugins started are those the device calls for.
- report: the exit code is as bad as the worst metric, also as Nagios reads it.
- walkfilter, the one part with several processes: a destination is never a
  part of a filtered file, nothing that should be filtered is written anywhere,
  and success is not claimed for a rule that failed.

`PROJECT.json` lists the hazards behind these, each at its line.

## Modules

| module | models | state and actions |
|---|---|---|
| `Oids` | oids as sequences in Python's tuple order, `prev_oid`, `oid_startswith` | operators only |
| `ObjectCache` | `cache.py` as pure operators on a record `[oids, nexts, last]` | operators only; bisect is its library specification |
| `CacheSpec` | a cache used by any caller that respects its assertions | `cache`; one action per method that changes it |
| `NextClaims` | abstract: what a cache may claim about getnext, without the list | `next`; Learn, LearnEnd, Rebuild, Forget |
| `Agent` | the agent through a backend: a fixed MIB, GET and GETNEXT | operators only |
| `QueryService` | abstract: what an engine promises, calls and their answers | `service`; Ask, Reply |
| `Engine` | CachingEngine over BulkEngine or SimpleEngine | see below |
| `Controller` | controller, futures, walks, detection over `QueryService` | see below |
| `Report` | thresholds and their text, the collector | `alerts`, `metrics`, `made`; AddAlerts, AddMetric |
| `Plugins` | what every plugin asks for and reports, over `Report` | see below |
| `Walkfilter` | the main process, the jobs and the files of walkfilter | see below |
| `OidsProofs`, `ObjectCacheProofs`, `AgentProofs`, `CacheSpecProofs`, `EngineProofs`, `ControllerProofs`, `WalkfilterProofs`, `PluginsProofs` | theorems and the lemmas they rest on | |
| `MCCache`, `MCEngine`, `MCController`, `MCPlugins`, `MCWalkfilter` | constants for TLC | |

`Engine` has the futures, the two queues of BulkEngine, the cache, and the local
variables of `step` (`result`, `oids` as `cols`, `noids` as `newcols`,
`completions`).  `setup` is what main() was called with, chosen once at the
start: with `--cache` or not, `--bulk N` or not, and whether the device fails.
A step is taken apart where clients can run or where its loops turn: StepGet,
StepNext and StepBulk query the backend, BulkBinds makes up the agent's bulk
answer one binding at a time, BulkEnds lets the device cut it, makes rows of it
as pysnmp does (`Rows`, external) and joins them as handle_bulk_result does
(`Joined`), TakeGet, TakeFirst and TakeAhead process one binding each, Signal
completes one future with its CachingEngine callback, StepReturns ends it.
Client actions happen before a step and between signals, which
over-approximates callbacks: every request a callback can make is one a client
may make there.  `pc` is the place in the step.

`Controller` runs Python's stack: a frame resumes a generator (`run`), does
the rest of `start_plugin` (`register`) or works through a future's callbacks
(`callbacks`).  A task is a GeneratedFuture with its program counter `at`.  The
programs are the kinds of coroutines there are: a walk's row, a table plugin
(alone, or with columns of each row that are asked for together and awaited one
by one, leaving early or not), a family's detection (with a query between the
plugins it starts, as brocade_detect has), and detect.  The engine below is
`QueryService`, the one `Engine` is shown to implement: a call may be answered
at once or in any later step.

`Plugins` is about what the coroutines of `Controller` say.  `device` is one
device (its objects by column), the octet of its address and the engine that
asks it; `task` has for each plugin started where it stands: walking a table
after a row, awaiting an object, or ended, and in `mem` the Python variables
that live from one answer to the next.  A step is one plugin's, from an answer
to its next question.  It takes from the modules below what they establish: a
walk delivers the rows of a table in order (TablesAreComplete), a plugin's
answers come in the order it awaits them and those of different plugins in any
order (QueryService), any query may fail, and an exception becomes a CRITICAL
alert (FailuresAreReported).  `about` remembers what each alert is about, for
the properties alone.  The plugins that `MCFollowed` names run beside the plugin
that starts them, which is the stack plugin's case; those started by detect are
devices of their own.  A pseudo plugin that reports anything takes the
collector through alerts and metrics no real plugin makes.

`Walkfilter` has the files, the jobs and the main process, which interleave
freely.  A job is taken apart at each of its system calls and lines.  Without
concurrent.futures (`sync`) a job runs when it is submitted.  In a pool a
process may die at any point; the pool is then broken, fails every job that has
no result, refuses new ones, and kills the other processes a little later.
A temporary file and its rename are the file system's: rename is atomic.  main
does not look whether two rules have one destination, so two jobs may have one
temporary file: each job knows where its open file is (`out`, moved by a rename,
gone with an unlink) and how far it has written (`pos`), and writes over what
another wrote there.  Lines count as of one length, the hole that a truncation
by another job leaves is left out, and a source is read in one go, which is exact
unless it is what two rules make.  No rule names another's temporary file, and an
unlink that fails for a file that is there is left out.

Exceptions are values of an answer.  Oids are sequences of naturals, values are
model values.  Texts are left out except the notation of thresholds, which
Nagios reads back.  `return_` raises StopIteration inside a generator, which
ends it as the code means only up to Python 3.6; that is the semantics taken.

## What the runs check

| run | question | bounds and why they are enough | result |
|---|---|---|---|
| `cache` | shape of the list, effect that each call would have from every cache reached, and does the list implement `NextClaims`? | 5 oids in tuple order: the empty one, a node, two children, the next node. Intervals of all lengths and overlaps fit; 1 value, as values never meet | holds |
| `engine` | the five ways main stacks the engines: caching over bulk with look-ahead 2, bulk queries of 2 and answers cut after one binding or later, and the four stacks without look-ahead on a device that fails | 3 requests over 4 oids, an agent with 3 objects: more queries than fit, a get beside a walk, rows that run past a table and past the MIB; without look-ahead also failures at every query and an object hidden by `prev_oid` | holds, also liveness |
| `controller` | detect, a family's detection with a query in between, two table plugins (one with two more columns, one that may leave early), their walks, every order of answers, any query failing | 16 calls, more than the plugins make; a table of two rows, both with two more columns, so that it is walked to its end and a run without failures exists, and a table of one row | holds, also liveness |
| `plugins` | what every plugin reports on devices that are well, at a limit or ill, and the collector's output | 601 devices: tables of none to two rows, stacks of none to three units, each value that decides and its neighbours, octets on both sides of both limits, temperatures below 0, objects that are missing or noSuchInstance; two arbitrary alerts or metrics with limits -1, 0, 2 or none | holds, also liveness |
| `walkfilter` | who may die when, and what is in the files | up to 3 rules, 2 processes, files of 2 or 3 lines; sources that are missing or spoiled, are another rule's destination or their own, two rules with one destination beside a third, a temporary file left by an earlier run, a syntax error; any open, write or rename may fail | holds, also liveness |
| `engine_prev_oid` | engine.py:190 | as `engine`, an agent with a hidden object | violated |
| `engine_sticky_failure` | engine.py:147 | as `engine` without look-ahead, cache over bulk | violated |
| `engine_bulk_failure` | engine.py:29 | 1 request; getbulk may raise | violated |
| `plugins_hp_sensors` | README.md:8 | two sensors, the second is bad | violated |
| `plugins_unit_temperature` | README.md:8 | a cool unit and a hot one | violated |
| `plugins_flash_version` | debian/changelog:28 | two image versions | violated |
| `plugins_dhcp_bulk` | debian/changelog:9 | a switch in VLAN 20 with a user port, asked with `--bulk` alone | violated |

The violated ones are findings in `PROJECT.json`: places where the code does
not do what its own comment or documentation says.  The devices of `plugins`
leave out what the last four runs are about: two sensors, a unit cooler than its
limit before a hotter one, different flash versions, and user ports behind a
BulkEngine alone.

What the properties of `plugins` say.  `Fault` states what is wrong with a
device from the meaning of its objects, without regard to how a plugin looks at
them.  FaultsAreSeen: when the plugin that should look has ended, the exit code
is as bad as the fault.  `Fault` is no stricter than the code in three places,
listed below: an unknown state of a unit, an unknown ACL mode and the builds of
a stack without image versions are none.  AlarmsHaveACause is the converse, with
one alarm it admits although there is no fault: the WARNING for a temperature
below 0 (`Freezing`).  RowsAreToldOnce relates the alerts to the table's rows.
StartedAreCalledFor relates the plugins started to the device.

Of a cache's calls, NextIsLearned, EndIsAnswered and InvalidatedIsForgotten are
about what the call promises: they are invariants which say, of every cache
reached, what each call that the code's assertions allow would leave behind if it
were made next.  A call that returns early and so changes nothing is held to it
like any other.  UncontradictedIsKept is about what setnext must not do, which
takes a change, and so is an action property.

NextsAskedOnce follows a getnext through the whole step: a future that is not
done, whether queued, being answered or about to be signalled, is the one that
`pendingnext` hands out, there is one for each oid, and once it is done
the next call for its oid shares a future or is answered by the cache.

DestinationsAreWhole, SuccessIsComplete and NoLitter are about rules that have
their files for themselves (`Alone`, `Apart`); NothingElseIsWritten, TypeOK and
MainAndJobsEnd about all rules, those that share a destination included.

MaxRequests, MaxCalls and MaxAlerts bound counters that grow for ever
(MaxAlerts only those of the pseudo plugin).  With MaxCalls reached the
controller would stop asking, so RunReturns would fail if the bound mattered.
Deadlock is not checked where the program ends: after a crash of the step, after
`run`, after the last plugin and after walkfilter's main.

Fairness.  Controller.run calls step in a loop and a step is straight-line
code, so a step that can go on does: weak fairness of Step in `Engine` and of
Next in `Controller`.  In `Plugins` each plugin is fair for answers without an
exception, because the engine completes every future (FuturesComplete); in
`Walkfilter` the main process and each job that has a process, because they are
straight-line code and the interpreter waits for its pool at exit.  Death of a
process and failure of a query are never fair.  Clients are
under no obligation, and no choice among answers is fair: liveness holds
whatever the device answers, as long as it answers.

## What is proved

All proofs are in the modules `*Proofs`.  They hold for every value of the
constants that the named assumptions admit: any sets of oids, values and
agents, any sizes of bulk queries, families and tables, any number of
processes.  `PROJECT.json` lists the theorems with the properties they state.

| module | theorems | of |
|---|---|---|
| `OidsProofs` | OidOrder, PrevOidPrecedes | tuple order is total with the empty oid first, prev_oid goes strictly down |
| `CacheSpecProofs` | CacheType, CacheDisjoint, CacheWithinEnd, CacheConsistent | the invariants of the cache |
| | CacheLearnsNext, CacheKeepsUncontradicted, CacheAnswersEnd, CacheForgets | what each method makes of every reachable cache, also when it returns early, and what it must leave |
| | CacheRebuilds | the closed form of nextfromset is what its loop computes, round by round |
| | CacheRefinement | the list of intervals implements `NextClaims` |
| `EngineProofs` | TypeCorrect, CacheIsTrue, AskedOnce, NothingLost, FalseIsFinal | the invariants of the engines, and what False from step means |
| | Refinement | the engines implement `QueryService` |
| `ControllerProofs` | TypeCorrect, GeneratorsRemembered, FailuresReported, TablesComplete, PluginsRan | every invariant of the controller |
| `WalkfilterProofs` | TypeCorrect, OnlyQueried, NeverPartial, SuccessMeansAll, Unlinked | every invariant of walkfilter |
| `PluginsProofs` | TypeCorrect, ThresholdsSurvive, ExitCodeCovers, AllAlertsPrinted | what the collector tells, whatever the plugins report |
| | DetectionIsRight, RowsAreTold | the right plugins are started, and tell every row of their tables once |
| | FaultsSeen, AlarmsCaused | faults of the device are told, and what is told is a fault; not of every plugin, see below |

The chain that matters for a reader: what the cache stores is true of the
agent (CacheIsTrue), so engines with caches, shared futures and bulk queries
look like a plain `QueryService` (Refinement), over which every plugin sees its
whole table and is resumed by what it waits for (TablesComplete,
GeneratorsRemembered), every failure becomes an alert (FailuresReported), and
alerts and metrics reach the exit code (ExitCodeCovers, AllAlertsPrinted).
What the plugins make of their rows is right, too: those started are those the
device calls for (DetectionIsRight), each row is told once (RowsAreTold), with
the verdict that its values call for (FaultsSeen, AlarmsCaused).

Each of these rests on an inductive invariant, `IInv` of its module, of named
parts.  No part is inductive alone.

Cache.  `Sound`: the shape of the record, `Disjoint`, `WithinEnd`, and that the
empty oid has no value.  That setend cuts the list below the end needs the list
to be sorted; that setnext keeps it disjoint needs it disjoint, as its second
loop stops at the first entry that ends early enough; that nextfromset's
`setnext(last, oid)` respects its assertion needs non-empty keys.  The lemmas
of `ObjectCacheProofs` state what the two searches find in a disjoint list, what
remains of it on each side of a new entry, and then that each method keeps the
invariant.  The refinement also needs `Known`: an entry leads to an oid of the
instance, so that what it claims is a claim of `NextClaims`.  The
actions use `nextfromset` in its closed form; CacheRebuilds proves it equal to
the loop.  After n rounds of the loop the list is the chain of the first n keys
and the end is what it was (`LoopState`), as each setnext starts where the last
entry ended and so finds nothing to cut.

Engines.  Truth of the cache depends on what an answer is matched with, so
`RowsRight` says of each binding still to be processed what it was asked after
(`Source`): a get, a column, a column of the look-ahead row, or the binding one
row above it.  `Queues` says that the columns left are those of the queries at
the head of the queue; `AtRest` when the variables of step are empty;
`FuturesRight` and `CompletionsRight` that what a future has or is about to be
given is right.  `Placed` and `Waiting` are NothingLost, with positions so that
a future cannot be twice in one queue; `Noted` is what pendingnext must hold
while a getnext is under way; `Called` ties the futures to their calls for the
refinement.  That rows are joined again to the bindings they were made of
(`Joined`, any length, any cut) is a lemma of its own.

Controller.  `Core` is about the stack: a task is on the stack to run, waits or
has ended (`Scheduled`); frames are about futures that are done and tasks that
exist (`Framed`); a future's callbacks are those who wait for it, and they are
non-empty after its completion only while a frame runs them (`Called`); a plugin
is about to be registered, pending or completed, and has an alert exactly if it
completed by an exception (`Watched`).  `Story` is about what the programs know
at each of their places: a walk whose row was found has started the walk after
it, a table plugin waits for the walk behind its last row and has told what the
table holds up to there (`Tells`), a family has started its tables up to its
counter (`Globals`), and every row told is a table plugin's (`Owned`).  `Looped`
is about run, and is where it is needed that step only returns False with
nothing open.  `AllAnswered` closes the argument that nothing is left pending:
with the stack empty, a task that waits, waits for a call, or for a task that
waits for a call.

Walkfilter.  The theorems hold for every mapping file, rules with one
destination included.  `JobsSound` is what every job keeps whatever others do to
its files: where its open file may be, and that whatever is in that file and in
its temporary file while it writes is queried.  `Clean`, the same of every file
that is not as it was, needs no more, so OnlyQueried is about all rules.  `JobsRight` is about jobs whose
destination is no other's (`Alone`): what they still have to do and what their
temporary file holds are the rest and the filter of the beginning of one content
that the source has had, and once renamed the destination has the whole.  That
another job's rename or unlink leaves these files alone is where it is needed
that no other rule has the destination.  `Remembered` is what each path has had,
as a source may be another rule's destination and change in between; `Whole` is
DestinationsAreWhole also for the rules not yet submitted, which a job of theirs
will find; `Submitted` ties jobs to rules and main's end to their results;
`Busy` is the size of the pool.

Collector.  `Kept` is the invariant of `Report` for any reports whatever; what
plugins add is that they report states and ranges of numbers.  The two places
where that takes more than reading a line are in `GoodTask`: the alert that
unit_state repeats for the rows after it is a state, and the warning
temperature it keeps while it asks for the shutdown temperature is a value.

Three more invariants say what the plugins do.  `DInv` is about detection: where
it is fixes what it has read, which ports of the VLAN walk it has passed without
a user port among them, and which plugins it has started; only
`brocade_stack_plugin` starts any besides, of a stack only.  `RInv` ties what was
told to where each walk is: between two rows, a plugin has told exactly the rows
before its place (`RowGood`), and while it asks for more about a row, all rows
before that one, which makes "once" and "all" follow at the end of the walk; a
unit's state is told or still ahead (`UnitGood`); who told anything was started
(`TellersRun`).  `VInv` is about verdicts: every alert is one that its plugin
should tell of that row of this device (`AlertsAreRight`); what a plugin
keeps while it waits for an answer is the value of the row it waits about
(`Knows`); one that tells a single verdict has told it when it ends (`Spoken`);
one that failed has left a CRITICAL alert; no plugin is started twice
(`Unstacked`).  FaultsSeen then needs all of them: the row with the fault was
told (`RInv`), with the right state (`VInv`), which reaches the exit code
(`IInv`).

Functions over lengths (`Joined`, `Kept`) are recursive functions; that they
are what their definition says for every length is proved by a least
counterexample, as the library's induction rules cannot be used.

What the proofs asked of the model.  `TypeOK` of `Controller` bounded a family's
counter by the number of tasks, which holds on the instance and not in general:
a family may ask for many objects between the plugins it starts.  The bound is
now the length of its list.  Assumptions were written out where they had been
counted (Cardinality of a set of words says little to a prover): special answers
and words are distinct from each other and from values and numbers
(`SentinelAssumption`, `EngineAssumption`, `ControllerAssumption`,
`WalkfilterAssumption`, `ReportAssumption`).  Two assumptions say something of the
code: a family's detection starts each of its plugins once
(`ControllerAssumption`; the lists in the families' coroutines have no
duplicates), and a device's values are none of the words of the threshold
notation (`PluginsAssumption`; they are numbers and texts of the agent).  A
device without sysObjectID is covered: detect then fails.  AskedOnce is about an
agent with at least one object: of an empty one, whose end of the MIB is the
empty oid, the cache does not remember the end (cache.py:87), so a getnext that
has been answered is asked again.

## What is only model-checked

- Liveness: FuturesComplete, RunReturns and the others named in the runs.
  It rests on fairness, which is out of the prover's reach.
- FaultsAreSeen for the plugins in `Overlooking` of `PluginsProofs`.  Three of
  them do miss faults, as the three runs with findings show: hp_sensors, the
  temperature of units, versions.  The others are left out for odd devices only:
  the versions of a stack if a unit has several rows of versions or builds have
  no image (`Stacked`), and the chassis' temperature if a temperature or limit is
  no number or the warning limit lies above the shutdown limit (`Thermometer`).
  FaultsSeen is FaultsAreSeen for a device with none of them.
- AlarmsHaveACause for the plugins in `Vague`: hp_sensors, which keeps the type of
  one sensor for the status of another; temperatures of chassis and units whose
  limits are missing, below 0 or no numbers, and an uptime that is no number
  (`Thermometer`, `Thermometers`, `Clock`).  AlarmsCaused leaves them out.
- StartedAreCalledFor behind a BulkEngine alone, where it does not hold
  (`plugins_dhcp_bulk`); DetectionIsRight is about the other engines.
- What the destination of two rules holds is not checked at all, beyond that it
  is filtered (NothingElseIsWritten): it depends on who renames and who unlinks
  first.
- `MCPlugins` checks both properties in full for the devices listed there,
  exhaustively over the values and limits that decide.

## Where the code differs from its intent, without a run

Met while modelling; the models do what the code does.

- cache.py:87, 234: the empty oid as end of the MIB counts as unknown, although
  setend accepts it and nextfromset stores it.  `EndIsAnswered` leaves it out.
- engine.py:134: `pendingget` is looked up and never filled, so two plugins that
  get one object before the next step both ask the device (main.py:33).
- engine.py:249: a bulk answer whose first row is empty is asked for again for
  ever.  With `MinBulk = 0` in `MCEngine.cfg`, FuturesComplete fails.
- brocade.py:246: `all_oids.add` of a tuple of three oids, which no line starts
  with; walkfilter removes sysDescr and snmpEngineTime (walkfilter.py:3-4).  The
  VLAN ports of brocade.py:52 are not in `all_oids` at all.
- brocade.py:437: noSuchInstance is not 0, so the check says "enabled".
- brocade.py:365: an empty image table ends the version plugin without a word,
  before the builds are compared; its only trace is that nothing is reported.
- report.py:69: a number as threshold has 0 as low limit, so a temperature below
  0 is a warning, although the metric's minimum is -110 (brocade.py:81, 101).
  AlarmsHaveACause names it as the one alarm without a fault (`Freezing`).
- report.py:97: a range with low limit 0 and no high limit is printed as if it
  had none, so its text does not read back.  No plugin makes one; `HasText`
  leaves it out of RangesSurviveText and ExitCodeCoversMetrics.
- brocade.py:349: a unit state outside 1 to 4 is no fault, it repeats the alert
  of the unit before.
- brocade.py:167, 195: a supply's description is asked for with the last number of
  its row in one plugin and with all of them in the other (`PsuIndex`).
- hp.py:40: a sensor type that is icfSensors itself raises IndexError; in the
  model it is one of the failures a plugin may have at any answer (`Fails`).
- walkfilter.py:75-84: two rules with one destination share a temporary file.
  When one of their jobs fails over it, the destination may hold a mixture of
  both or a part; when both succeed, one rule's result is gone without a word.

## Not modelled, and why

- log, option parsing, packaging, the graph template, parsing of recorded
  walks: text and output without state; log's formatter follows an exception's
  causes in one sequential loop whose result is only text.
- pysnmp itself (external): its dispatcher blocks until a query is answered.
- agents that answer out of order: setnext asserts that they do not, and no
  engine promises anything on them.  Python's recursion limit.
- LooseVersion, SWITCH_TYPE_REGEX and the scale of values: versions are numbers
  in their order, a description is the type found in it, values are integers.

## Plan

1. Done: the cache, engines, controller, every plugin over the collector, and
   walkfilter; the proofs of all invariants above and of both refinements.
2. Done: what detection starts, what is told of each row and with which verdict,
   and the loop of nextfromset.
3. Left: the verdicts of hp_sensors, and the faults that the temperature of
   units and the versions miss, are worth proving once their code is repaired.
