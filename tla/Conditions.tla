----------------------------- MODULE Conditions -----------------------------
(***************************************************************************)
(* When an alert rule holds for a metric: the four kinds of condition      *)
(* (engine/alert_conditions.go), their combination (evaluateRule) and its  *)
(* dry run (AlertRuleHandler.Test), and the baselines anomaly conditions   *)
(* are judged by (engine/baseline.go), refreshed from the stored metrics   *)
(* every other minute.  Values are integers; mean and deviation are kept   *)
(* as count, sum and sum of squares, so that the z-score is exact.         *)
(***************************************************************************)
EXTENDS Integers, Sequences, FiniteSets, FiniteSetsExt

CONSTANTS AlertRules,         \* [logic, conds]; conds a set of conditions
          SampleValues,       \* values of the watched field
          BaselineTTL, MinBaselineSamples,
          RefreshTime,        \* bound: ticks a baseline query takes
          MaxSamples,         \* bound: metrics stored within the window
          MaxConditionClock   \* bound: ticks

ASSUME ConditionBounds ==
    /\ SampleValues \subseteq Nat
    /\ {BaselineTTL, MinBaselineSamples, RefreshTime, MaxSamples, MaxConditionClock} \subseteq Nat
    /\ MinBaselineSamples > 0
    /\ \A r \in AlertRules : \A c \in r.conds :
           c.type \in {"threshold", "status", "ports", "absence", "anomaly"} /\ c.value \in Int

NoValue == -1              \* the metric has no such field
Unparsed == -1             \* the condition's value is not a number
DefaultAbsence == 2        \* 300 s, in ticks
NoBaseline == [n |-> 0, sum |-> 0, squares |-> 0, at |-> 0, readAt |-> 0]
NoVerdict == [done |-> FALSE]

VARIABLES rule, window,    \* the metrics of the last 24 hours, oldest first
          monitored,       \* the device exists and is enabled
          baseline,        \* the cached baseline
          refresh,         \* [pc, found]: a baseline query and what it found
          verdict,         \* what the last step evaluated
          conditionClock

conditionVars == <<rule, window, monitored, baseline, refresh, verdict, conditionClock>>

ConditionsInit ==
    /\ rule \in AlertRules
    /\ window = << >> /\ monitored = TRUE
    /\ baseline = NoBaseline
    /\ refresh = [pc |-> "idle", found |-> NoBaseline]
    /\ verdict = NoVerdict /\ conditionClock = 0

-----------------------------------------------------------------------------
(* The baselines.                                                          *)

\* GetMetricBaselines: count, average and deviation of the field, where it is set.
GetMetricBaselines(values) ==
    LET seen == {i \in DOMAIN values : values[i] # NoValue}
    IN  [n |-> Cardinality(seen), sum |-> MapThenSumSet(LAMBDA i : values[i], seen),
         squares |-> MapThenSumSet(LAMBDA i : values[i] * values[i], seen),
         at |-> conditionClock, readAt |-> conditionClock]

QueryBaselines ==
    /\ refresh.pc = "idle"
    /\ refresh' = [pc |-> "read",
                   found |-> GetMetricBaselines(IF monitored THEN window ELSE << >>)]
    /\ UNCHANGED <<rule, window, monitored, baseline, conditionClock>>

\* RefreshBaselines: too few samples leave the old entry, none remove it.
RefreshBaselines ==
    /\ refresh.pc = "read"
    /\ baseline' = CASE refresh.found.n = 0 -> NoBaseline
                     [] refresh.found.n >= MinBaselineSamples -> [refresh.found EXCEPT !.at = conditionClock]
                     [] OTHER -> baseline
    /\ refresh' = [pc |-> "idle", found |-> NoBaseline]
    /\ UNCHANGED <<rule, window, monitored, conditionClock>>

\* Seeded fault: an entry is used however old it is.
GetAnyAge == baseline

\* BaselineCache.Get: nothing when the entry is older than its time to live.
GetBaseline == IF conditionClock - baseline.at > BaselineTTL THEN NoBaseline ELSE baseline

-----------------------------------------------------------------------------
(* The conditions.  A metric is [value, status, ports, age].               *)

CompareFloat(op, actual, threshold) ==
    CASE op = "gt"  -> actual > threshold
      [] op = "lt"  -> actual < threshold
      [] op = "gte" -> actual >= threshold
      [] op = "lte" -> actual <= threshold
      [] op = "eq"  -> actual = threshold
      [] op = "neq" -> actual # threshold
      [] OTHER -> FALSE

EvaluateThreshold(c, m) ==
    c.value # Unparsed /\ m.value # NoValue /\ CompareFloat(c.op, m.value, c.value)

\* Of the status: equal or not to the expected one, whether it changed or not.
EvaluateStatus(c, m) == c.op \in {"eq", "neq"} /\ CompareFloat(c.op, m.status, c.value)

\* Of the ports: at least the given number of changes, one by default.
EvaluatePorts(c, m) == m.ports >= IF c.value = Unparsed THEN 1 ELSE c.value

EvaluateAbsence(c, m) == m.age > IF c.value <= 0 THEN DefaultAbsence ELSE c.value

\* Is x more than halves/2 standard deviations off the mean?  A deviation of
\* zero is taken for a very small one.
Deviates(b, x, halves) ==
    LET off == b.n * x - b.sum
        variance == b.n * b.squares - b.sum * b.sum
    IN  4 * off * off > halves * halves * variance

Halves(c) == IF c.value <= 0 THEN 5 ELSE 2 * c.value

EvaluateAnomaly(c, m, b) ==
    /\ m.value # NoValue
    /\ b.n >= MinBaselineSamples
    /\ Deviates(b, m.value, Halves(c))

EvaluateCondition(c, m, b) ==
    CASE c.type = "threshold" -> EvaluateThreshold(c, m)
      [] c.type = "status"    -> EvaluateStatus(c, m)
      [] c.type = "ports"     -> EvaluatePorts(c, m)
      [] c.type = "absence"   -> EvaluateAbsence(c, m)
      [] c.type = "anomaly"   -> EvaluateAnomaly(c, m, b)

Triggered(r, m, b) ==
    LET met == {c \in r.conds : EvaluateCondition(c, m, b)}
    IN  IF r.logic = "all" THEN met = r.conds ELSE met # {}

\* Test, the dry run: its own combination of the conditions, for which no
\* baseline is looked up.
Test(r, m) ==
    LET failed == {c \in r.conds : ~ EvaluateCondition(c, m, NoBaseline)}
    IN  \/ r.logic = "all" /\ failed = {}
        \/ r.logic # "all" /\ failed # r.conds

\* A poll's metric is stored and evaluated, maybe some time after it was taken.
EvaluateRule(m) ==
    /\ monitored /\ refresh.pc = "idle" /\ Len(window) < MaxSamples
    /\ window' = Append(window, m.value)
    /\ verdict' = [done |-> TRUE, metric |-> m, used |-> GetBaseline, at |-> conditionClock,
                   fired |-> Triggered(rule, m, GetBaseline), tested |-> FALSE]
    /\ UNCHANGED <<rule, monitored, baseline, refresh, conditionClock>>

\* An operator tries the rule on the metric just evaluated, stored by now and
\* maybe older.
DryRun(later) ==
    /\ verdict.done /\ monitored
    /\ verdict' = [done |-> TRUE, metric |-> verdict.metric, used |-> verdict.used, at |-> verdict.at,
                   fired |-> verdict.fired, tested |-> TRUE,
                   matched |-> Test(rule, [verdict.metric EXCEPT !.age = @ + later])]
    /\ UNCHANGED <<rule, window, monitored, baseline, refresh, conditionClock>>

-----------------------------------------------------------------------------
\* The oldest metric leaves the window of 24 hours.
LeaveWindow ==
    /\ window # << >> /\ refresh.pc = "idle"
    /\ window' = Tail(window)
    /\ UNCHANGED <<rule, monitored, baseline, refresh, conditionClock>>

DisableDevice ==
    /\ monitored /\ monitored' = FALSE
    /\ UNCHANGED <<rule, window, baseline, refresh, conditionClock>>

ConditionTick ==
    /\ conditionClock < MaxConditionClock
    /\ refresh.pc = "read" => conditionClock - refresh.found.at < RefreshTime
    /\ conditionClock' = conditionClock + 1
    /\ UNCHANGED <<rule, window, monitored, baseline, refresh>>

MetricsOfDevice ==
    {m \in [value: SampleValues \cup {NoValue}, status: 0..1, ports: 0..1, age: {0, 3}] :
        m.status + m.ports + m.age \in {0, 1, 3}}

ConditionsNext ==
    \/ /\ QueryBaselines \/ RefreshBaselines \/ LeaveWindow \/ DisableDevice \/ ConditionTick
       /\ verdict' = NoVerdict
    \/ \E m \in MetricsOfDevice : EvaluateRule(m)
    \/ \E later \in {0, 3} : DryRun(later)

ConditionsSpec == ConditionsInit /\ [][ConditionsNext]_conditionVars

-----------------------------------------------------------------------------
\* Type correctness of the baselines and the evaluation.
ConditionsTypeOK ==
    /\ rule \in AlertRules /\ monitored \in BOOLEAN
    /\ Len(window) <= MaxSamples /\ \A i \in DOMAIN window : window[i] \in SampleValues \cup {NoValue}
    /\ baseline.n \in 0..MaxSamples /\ refresh.pc \in {"idle", "read"}
    /\ conditionClock \in 0..MaxConditionClock

Anomalies == {c \in rule.conds : c.type = "anomaly"}

\* A rule that only an anomaly can have triggered was judged by a baseline of
\* enough samples, read from the metrics no longer ago than the time to live
\* and one query: what an old device did cannot raise an alert on what
\* replaced it (BaselineCache.Get, RefreshBaselines).
AnomalyFromRecentBaseline ==
    (verdict.done /\ verdict.fired /\ rule.conds = Anomalies /\ Anomalies # {}) =>
        /\ verdict.used.n >= MinBaselineSamples
        /\ verdict.at - verdict.used.readAt <= BaselineTTL + RefreshTime

\* How often x was among the samples, when they are x and one other value.
Occurrences(b, x) ==
    {k \in 0..b.n : \E y \in SampleValues :
        b.sum = k * x + (b.n - k) * y /\ b.squares = k * x * x + (b.n - k) * y * y}

\* What is usual is no anomaly: a value seen k times among n samples is
\* within Sqrt((n - k) / k) deviations of their mean, so a rule that is no
\* more sensitive than that is not triggered by it (evaluateAnomaly).
UsualIsNoAnomaly ==
    (verdict.done /\ verdict.fired /\ rule.conds = Anomalies) =>
        \A c \in Anomalies : \A k \in Occurrences(verdict.used, verdict.metric.value) :
            (k > 0 /\ rule.logic = "all") => Halves(c) * Halves(c) * k < 4 * (verdict.used.n - k)

\* What the dry run cannot judge as the evaluation did: it has no baseline, and
\* the age of a metric has grown since.
Timed == {c \in rule.conds : c.type \in {"anomaly", "absence"}}

\* The dry run of a rule without anomaly and absence conditions says of a metric
\* what the evaluation said of it, though the two combine the conditions each in
\* its own way (AlertRuleHandler.Test, evaluateRule).
DryRunAgrees ==
    (verdict.done /\ verdict.tested /\ Timed = {}) => verdict.matched = verdict.fired

\* An anomaly is judged by a recent and sufficient baseline and is never what is
\* usual, and where neither baselines nor ages matter the dry run agrees with
\* the evaluation (alert.go, baseline.go, handlers/alert_rules.go).
ConditionsSafe ==
    /\ ConditionsTypeOK
    /\ AnomalyFromRecentBaseline
    /\ UsualIsNoAnomaly
    /\ DryRunAgrees
=============================================================================
