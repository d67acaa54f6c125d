---------------------------- MODULE HealthScore ----------------------------
(***************************************************************************)
(* The health score of a device (engine/health_scorer.go): availability,   *)
(* latency, the alerts of the whole network, status flaps and port         *)
(* changes, weighted, rounded to a tenth and labelled, with a trend        *)
(* against the history of the last two hours.  Scores are in tenths of a   *)
(* point; latencies are chosen so that their score is a whole number.      *)
(***************************************************************************)
EXTENDS Integers, Sequences, SequencesExt, FiniteSets

CONSTANTS Latencies,       \* response times, in ms
          TrendWindow,     \* computations within two hours
          QuietPolls,      \* metrics of a device that has run for a while
          MaxPolls,        \* bound: polls taken; those of a quiet hour are one
          MaxActiveAlerts, MaxPortChanges,
          MaxScores        \* bound: computations

ASSUME HealthBounds ==
    /\ \A l \in Latencies : l \in Nat /\ (l <= 50 \/ l >= 5000 \/ ((l - 50) * 100) % 4950 = 0)
    /\ {TrendWindow, QuietPolls, MaxPolls, MaxActiveAlerts, MaxPortChanges, MaxScores} \subseteq Nat

NoLatency == -1
NoScore == -1

VARIABLES polls,        \* the hour's metrics: [status, latency], oldest first
          taken,        \* (bound)
          deviceStatus,
          activeAlerts, \* of the whole network
          portChanges,
          history,      \* scores stored before, oldest first
          scoreRow,     \* [score, label, trend]
          scores        \* computations so far

healthVars == <<polls, taken, deviceStatus, activeAlerts, portChanges, history, scoreRow, scores>>

HealthInit ==
    /\ \/ polls = << >> /\ deviceStatus \in {"up", "down", "warning"} /\ taken = 0
       \/ \E l \in Latencies : polls = [i \in 1..QuietPolls |-> [status |-> "up", latency |-> l]]
          /\ deviceStatus = "up" /\ taken = 1
    /\ activeAlerts = 0 /\ portChanges = 0
    /\ history = << >> /\ scores = 0
    /\ scoreRow = [score |-> NoScore, label |-> "none", trend |-> "none"]

-----------------------------------------------------------------------------
Clamp(x) == IF x < 0 THEN 0 ELSE IF x > 100 THEN 100 ELSE x

\* Seeded fault: only answered polls count.
AvailabilityOfAnswered(metrics) ==
    IF metrics # << >> THEN <<100, 1>>
    ELSE <<CASE deviceStatus = "down" -> 0 [] deviceStatus = "warning" -> 50 [] OTHER -> 100, 1>>

\* The share of polls that were not down, as a fraction <<part, whole>> of 100.
Availability(metrics) ==
    IF metrics # << >>
    THEN <<100 * Len(SelectSeq(metrics, LAMBDA p : p.status # "down")), Len(metrics)>>
    ELSE <<CASE deviceStatus = "down" -> 0 [] deviceStatus = "warning" -> 50 [] OTHER -> 100, 1>>

\* percentile: the smallest value that 95% of the values do not exceed.
Percentile95(values) ==
    LET ordered == SortSeq(values, <)
        n == Len(ordered)
    IN  ordered[(95 * n + 99) \div 100]

\* The response times among the metrics.
ResponseTimes(metrics) == SelectSeq([i \in DOMAIN metrics |-> metrics[i].latency], LAMBDA l : l # NoLatency)

LatencyScore(metrics) ==
    IF ResponseTimes(metrics) = << >> THEN 100
    ELSE Clamp(((5000 - Percentile95(ResponseTimes(metrics))) * 100) \div 4950)

AlertScore == Clamp(100 - 25 * activeAlerts)

\* GetStatusFlaps.
Flaps == Cardinality({i \in 2..Len(polls) : polls[i].status # polls[i - 1].status})
StabilityScore == IF Flaps >= 10 THEN 0 ELSE 100 - 10 * Flaps
PortScore == IF portChanges >= 5 THEN 0 ELSE 100 - 20 * portChanges

\* The weighted sum, rounded to a tenth.
Weighted(a, latency, stability, ports) ==
    LET rest == 25 * latency + 20 * AlertScore + 15 * stability + 10 * ports
        t == 30 * a[1] + a[2] * rest
    IN  (t + 5 * a[2]) \div (10 * a[2])

\* A query that fails leaves its part of the score at the best value, that of
\* the metrics at what the status of the device says.
ScoreWithout(failed) ==
    LET metrics == IF failed = "metrics" THEN << >> ELSE polls
    IN  Weighted(Availability(metrics), LatencyScore(metrics),
                 IF failed = "flaps" THEN 100 ELSE StabilityScore,
                 IF failed = "ports" THEN 100 ELSE PortScore)

ComputeDeviceScore == ScoreWithout("none")

ScoreToLabel(score) ==
    CASE score < 400 -> "critical" [] score \in 400..599 -> "risk"
      [] score \in 600..799 -> "watch" [] OTHER -> "healthy"

\* GetHealthScoreHistory: the points of the last two hours, oldest first; the
\* trend is measured against the first of them.
TrendBase == IF history = << >> THEN NoScore ELSE history[1]

TrendAgainst(base, score) ==
    CASE base # NoScore /\ score - base >= 50 -> "improving"
      [] base # NoScore /\ score - base <= -50 -> "degrading"
      [] OTHER -> "stable"

\* The statements of a computation, of which one may fail.
Statements == {"metrics", "flaps", "ports", "trend", "upsert", "insert"}

\* ComputeAll, for the device: UpsertHealthScore, InsertHealthScoreHistory.
ComputeAll(failed) ==
    /\ LET s == ScoreWithout(failed)
           base == IF failed = "trend" THEN NoScore ELSE TrendBase
       IN
       /\ scoreRow' = IF failed = "upsert" THEN scoreRow
                      ELSE [score |-> s, label |-> ScoreToLabel(s), trend |-> TrendAgainst(base, s)]
       /\ history' = IF failed = "insert" THEN history
                     ELSE Append(IF Len(history) = TrendWindow THEN Tail(history) ELSE history, s)
    /\ scores' = scores + 1
    /\ UNCHANGED <<polls, taken, deviceStatus, activeAlerts, portChanges>>

-----------------------------------------------------------------------------
(* The inputs: a poll, an hour passing, alerts and port changes.           *)

Poll(status, latency) ==
    /\ taken < MaxPolls /\ taken' = taken + 1
    /\ polls' = Append(polls, [status |-> status, latency |-> latency])
    /\ deviceStatus' = status
    /\ UNCHANGED <<activeAlerts, portChanges, history, scoreRow, scores>>

\* A poll that fails has the time until it did for its response time, or none.
PollDown(latency) == Poll("down", latency)

HourPasses ==
    /\ polls # << >>
    /\ polls' = Tail(polls)
    /\ UNCHANGED <<taken, deviceStatus, activeAlerts, portChanges, history, scoreRow, scores>>

Alerts(n) ==
    /\ n # activeAlerts /\ activeAlerts' = n
    /\ UNCHANGED <<polls, taken, deviceStatus, portChanges, history, scoreRow, scores>>

PortChanges(n) ==
    /\ n # portChanges /\ portChanges' = n
    /\ UNCHANGED <<polls, taken, deviceStatus, activeAlerts, history, scoreRow, scores>>

\* Nothing is followed beyond the last computation.
HealthNext ==
    /\ scores < MaxScores
    /\ \/ HourPasses
       \/ \E failed \in Statements \cup {"none"} : ComputeAll(failed)
       \/ \E l \in Latencies \cup {NoLatency} : PollDown(l)
       \/ \E l \in Latencies, s \in {"up", "warning"} : Poll(s, l)
       \/ \E n \in {0, MaxActiveAlerts} : Alerts(n)
       \/ \E n \in {0, MaxPortChanges} : PortChanges(n)

HealthSpec == HealthInit /\ [][HealthNext]_healthVars

-----------------------------------------------------------------------------
\* Type correctness of the scorer; a score is between 0 and 100.
HealthTypeOK ==
    /\ scoreRow.score \in NoScore..1000
    /\ scoreRow.trend \in {"none", "improving", "degrading", "stable"}
    /\ Len(polls) <= QuietPolls + taken /\ taken \in 0..MaxPolls /\ Len(history) <= TrendWindow /\ scores \in 0..MaxScores

\* The percentile is one of the values, at most one in twenty is above it, and
\* it is the smallest such (percentile).
PercentileCorrect ==
    LET values == ResponseTimes(polls)
        n == Len(values)
        above(x) == Cardinality({i \in 1..n : values[i] > x})
        p95 == Percentile95(values)
    IN  n > 0 =>
            /\ \E i \in 1..n : values[i] = p95
            /\ 20 * above(p95) <= n
            /\ \A i \in 1..n : values[i] < p95 => 20 * above(values[i]) > n

\* Neither the alerts of other devices nor its own port changes can put a
\* device at risk that answered every poll of the hour promptly; and a device
\* that answered none is never called healthy (computeDeviceScore's weights
\* against scoreToLabel's bands), as long as its metrics can be read.
LabelsAreEarned ==
    /\ (polls # << >> /\ \A i \in DOMAIN polls : polls[i].status = "up" /\ polls[i].latency <= 50)
          => ScoreToLabel(ComputeDeviceScore) \in {"watch", "healthy"}
    /\ (polls # << >> /\ \A i \in DOMAIN polls : polls[i].status = "down")
          => ScoreToLabel(ComputeDeviceScore) # "healthy"

\* A failed poll does not raise the score, whatever was in the hour before it:
\* not by the change from the status to the polls' share, nor through the
\* percentile, the flaps or the rounding.  With one exception, which the code
\* has: a poll that fails quickly counts as a quick answer, and from twenty
\* response times on it can push a slow one above the percentile.
OutageNeverHelps ==
    [][\A l \in Latencies \cup {NoLatency} :
          (PollDown(l) /\ (l = NoLatency \/ Len(ResponseTimes(polls')) < 20))
              => ComputeDeviceScore' <= ComputeDeviceScore]_healthVars

\* Scores and their labels follow from the polls of the hour, and below twenty
\* response times an outage never raises a score (health_scorer.go).
HealthScoreCorrect ==
    /\ [](HealthTypeOK /\ LabelsAreEarned /\ PercentileCorrect)
    /\ OutageNeverHelps
=============================================================================
