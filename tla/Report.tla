------------------------------- MODULE Report -------------------------------
(* nssct.report: the thresholds of a metric and their text, and the          *)
(* Collector whose state becomes the exit code and whose text is what Nagios *)
(* reads.  Nagios judges a metric again by the thresholds in that text.      *)
EXTENDS Integers, SequencesExt

CONSTANTS Limits,      \* the limits thresholds have
          Metrics,     \* the metrics plugins report
          None,        \* no limit
          Tilde, Empty, Invalid,   \* the texts "~" and "", and an exception
          MaxAlerts    \* bound: alerts a plugin makes that may report anything

(* PerfRange: its constructor asserts the order of the limits.               *)
PerfRange == {r \in [low : Limits \cup {None}, high : Limits \cup {None},
                     invert : BOOLEAN] :
                 r.high = None \/ r.low = None \/ r.low <= r.high}

ASSUME ReportAssumption ==
    /\ Limits \subseteq Int
    /\ \A m \in Metrics : m.value \in Int /\ m.warn \in PerfRange /\ m.crit \in PerfRange
    /\ None \notin {Tilde, Empty, Invalid} /\ Tilde \notin {Empty, Invalid} /\ Empty # Invalid
    /\ \A word \in {None, Tilde, Empty, Invalid} : word \notin Int
    /\ MaxAlerts \in Nat

Outside(r, v) == \/ r.low # None /\ v < r.low
                 \/ r.high # None /\ v > r.high

AlertOf(r, v) == Outside(r, v) # r.invert

(* __str__: "@", the low limit and ":" unless it is 0, the high limit.       *)
Text(at, low, colon, high) == [at |-> at, low |-> low, colon |-> colon, high |-> high]
NoText == Text(FALSE, Empty, FALSE, Empty)

HighText(r) == IF r.high = None THEN Empty ELSE r.high

\* Mutation of TextOf: no low limit is printed like a low limit of 0.
TextOfZeroLow(r) ==
    IF r.low \in {0, None} THEN Text(r.invert, Empty, FALSE, HighText(r))
    ELSE Text(r.invert, r.low, TRUE, HighText(r))

TextOf(r) ==
    CASE r.low = 0 -> Text(r.invert, Empty, FALSE, HighText(r))
      [] r.low \notin {0, None} -> Text(r.invert, r.low, TRUE, HighText(r))
      [] r.low = None -> IF r.high = None /\ ~ r.invert THEN NoText
                         ELSE Text(r.invert, Tilde, TRUE, HighText(r))

(* fromstr: without a colon the low limit is 0 and a number is required.     *)
FromText(t) ==
    IF t.colon
    THEN [low    |-> IF t.low = Tilde THEN None ELSE t.low,
          high   |-> IF t.high = Empty THEN None ELSE t.high,
          invert |-> t.at]
    ELSE IF t.high = Empty THEN Invalid
    ELSE [low |-> 0, high |-> t.high, invert |-> t.at]

(* PerfMetric.state; label, unit, minimum, maximum and message are left out. *)
Judge(v, warn, crit) == IF AlertOf(crit, v) THEN "CRITICAL"
                        ELSE IF AlertOf(warn, v) THEN "WARNING" ELSE "OK"

\* Mutation of StateOf: only values outside the warning range can be critical.
StateOfWarnFirst(m) == IF AlertOf(m.warn, m.value)
                       THEN Judge(m.value, m.warn, m.crit) ELSE "OK"

StateOf(m) == Judge(m.value, m.warn, m.crit)

States == << "CRITICAL", "WARNING", "OK", "UNKNOWN" >>    \* the worst first
-----------------------------------------------------------------------------
VARIABLES alerts,      \* Collector.alerts: for each state, the alerts in order
          metrics,     \* Collector.metrics
          made         \* how many alerts were made: an alert is its number

vars == <<alerts, metrics, made>>

Init == /\ alerts = [st \in Range(States) |-> << >>]
        /\ metrics = << >>
        /\ made = 0

\* Mutation of Added: the newest alert of a state replaces the others.
AddedAlone(lists, st, a) == [lists EXCEPT ![st] = << a >>]

(* add_alert                                                                 *)
Added(lists, st, a) == [lists EXCEPT ![st] = Append(@, a)]

\* The alerts after add_alert was called for alerts of the states sts in turn.
Appended(sts) ==
    LET after[n \in 0 .. Len(sts)] ==
            IF n = 0 THEN alerts ELSE Added(after[n - 1], sts[n], made + n)
    IN  after[Len(sts)]

AddAlerts(sts) == /\ alerts' = Appended(sts)
                  /\ made' = made + Len(sts)
                  /\ UNCHANGED metrics

\* Mutation of AddMetric: the metric is kept, its alert is not made.
AddMetricUntold(m) == metrics' = Append(metrics, m) /\ UNCHANGED <<alerts, made>>

AddMetric(m) == /\ metrics' = Append(metrics, m)
                /\ alerts' = Appended(<< StateOf(m) >>)
                /\ made' = made + 1

(* A plugin may report whatever it likes.                                    *)
Next == /\ made < MaxAlerts
        /\ \/ \E st \in Range(States) : AddAlerts(<< st >>)
           \/ \E m \in Metrics : AddMetric(m)

Spec == Init /\ [][Next]_vars

(* Collector.state: the exit code of the check.                              *)
ExitState ==
    LET given == {i \in DOMAIN States : alerts[States[i]] # << >>}
    IN  IF given = {} THEN "UNKNOWN"
        ELSE States[CHOOSE i \in given : \A j \in given : i <= j]

(* summary and __str__: 0 is an alert made for the summary line alone; the   *)
(* only alert of its state is the summary line itself.                       *)
Summary == IF Len(alerts[ExitState]) = 1 THEN Head(alerts[ExitState]) ELSE 0

\* The alert that is the summary is left out: if any, the first of its state.
Others(list) == IF list # << >> /\ Head(list) = Summary THEN Tail(list) ELSE list

Printed == << Summary >> \o Others(alerts[States[1]]) \o Others(alerts[States[2]])
                         \o Others(alerts[States[3]]) \o Others(alerts[States[4]])
-----------------------------------------------------------------------------
(* A range without a high limit whose low limit is 0 has no text of its own. *)
HasText(r) == r.high # None \/ r.low # 0

(* What a reader of the notation makes of a printed range; the empty text    *)
(* means no limits.                                                          *)
ReadBack(r) == IF TextOf(r) = NoText THEN [low |-> None, high |-> None, invert |-> FALSE]
               ELSE FromText(TextOf(r))

(* A printed range, read back, is the same range, so that it alerts for the  *)
(* same values: Nagios reads the same notation (report.py:18-20) and judges  *)
(* the value again.                                                          *)
RangesSurviveText ==
    \A m \in Range(metrics) : \A r \in {m.warn, m.crit} : HasText(r) => ReadBack(r) = r

(* The exit code is at least as bad as what Nagios makes of any metric's     *)
(* value and printed thresholds, whatever else was reported before or after. *)
Rank(st) == CHOOSE i \in DOMAIN States : States[i] = st

ExitCodeCoversMetrics ==
    \A i \in DOMAIN metrics :
        LET m == metrics[i]
        IN  HasText(m.warn) /\ HasText(m.crit)
              => Rank(ExitState) <= Rank(Judge(m.value, ReadBack(m.warn), ReadBack(m.crit)))

(* The text has every alert exactly once, whether or not it became the       *)
(* summary line.                                                             *)
EveryAlertPrintedOnce ==
    \A a \in 1 .. made : Cardinality({i \in DOMAIN Printed : Printed[i] = a}) = 1
=============================================================================
