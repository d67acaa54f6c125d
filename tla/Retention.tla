----------------------------- MODULE Retention -----------------------------
(***************************************************************************)
(* What ages and what goes.                                                *)
(*                                                                         *)
(* Rollups: raw metrics, their hourly and daily rollups and the retention  *)
(* policies (internal/database/migrations.go, version 47, and              *)
(* retentionPolicies in cmd/server/main.go).  The jobs belong to           *)
(* TimescaleDB: a refresh replaces the rollup of every bucket inside its   *)
(* window by what the source then holds, so a bucket whose source was      *)
(* dropped comes out empty; a retention job drops what is older than its   *)
(* days.  Time is in days, and a bucket is abstracted to how many samples  *)
(* it counts.                                                              *)
(*                                                                         *)
(* RetentionSweep: internal/retention, the sweep of the plain tables       *)
(* (resolved alerts, health history, finished captures), each pruned in    *)
(* batches (internal/database/postgres.go, pruneBatched) while rows are    *)
(* added and closed.  A table that fails is left for the next sweep and    *)
(* the others go on.  One row is one alert, score or capture.              *)
(***************************************************************************)
EXTENDS Naturals, Sequences, FiniteSets

-----------------------------------------------------------------------------
(***************************************************************************)
(* Rollups and their retention policies.                                   *)
(***************************************************************************)
CONSTANTS MetricsDays,    \* values METRICS_RETENTION_DAYS may have (0: keep for ever)
          HourlyDays,     \* values METRICS_HOURLY_RETENTION_DAYS may have
          MinRawDays,     \* minRawMetricsDays (4)
          HourlyWindow,   \* start_offset of the hourly refresh (3 days)
          DailyWindow,    \* start_offset of the daily refresh (7 days)
          LastDay,        \* bound: the days of a run are 0 .. LastDay
          MaxDaySamples   \* bound: samples recorded for one day

ASSUME RollupAssumption ==
    /\ MetricsDays \subseteq Nat /\ HourlyDays \subseteq Nat
    /\ {MinRawDays, HourlyWindow, DailyWindow, LastDay, MaxDaySamples} \subseteq Nat
    /\ HourlyWindow < MinRawDays

VARIABLES today, configured, hourlyDays, raw, hourly, daily

rollupVars == <<today, configured, hourlyDays, raw, hourly, daily>>

AllDays == 0 .. LastDay

RollupsTypeOK ==
    /\ today \in AllDays /\ configured \in MetricsDays /\ hourlyDays \in HourlyDays
    /\ \A t \in {raw, hourly, daily} : t \in [AllDays -> 0 .. MaxDaySamples]

RollupsInit ==
    /\ today = 0 /\ configured \in MetricsDays /\ hourlyDays \in HourlyDays
    /\ raw = [d \in AllDays |-> 0] /\ hourly = raw /\ daily = raw

AsConfigured == configured

\* retentionPolicies raises a value below the refresh window.
RawDays == IF configured > 0 /\ configured < MinRawDays THEN MinRawDays ELSE configured

Dropped(table, days) ==
    [d \in AllDays |-> IF days > 0 /\ d + days < today THEN 0 ELSE table[d]]

Refreshed(rollup, source, window) ==
    [d \in AllDays |-> IF d + window >= today /\ d <= today THEN source[d] ELSE rollup[d]]

RecordSample ==
    /\ raw[today] < MaxDaySamples
    /\ raw' = [raw EXCEPT ![today] = @ + 1]
    /\ UNCHANGED <<today, configured, hourlyDays, hourly, daily>>

\* The refresh jobs run every 30 minutes and every 6 hours: each has run when a
\* day ends.
Tomorrow ==
    /\ today < LastDay
    /\ hourly[today] = raw[today] /\ daily[today] = raw[today]
    /\ today' = today + 1
    /\ UNCHANGED <<configured, hourlyDays, raw, hourly, daily>>

RefreshHourly ==
    /\ hourly' = Refreshed(hourly, raw, HourlyWindow)
    /\ UNCHANGED <<today, configured, hourlyDays, raw, daily>>

RefreshDaily ==
    /\ daily' = Refreshed(daily, hourly, DailyWindow)
    /\ UNCHANGED <<today, configured, hourlyDays, raw, hourly>>

DropRaw ==
    /\ raw' = Dropped(raw, RawDays)
    /\ UNCHANGED <<today, configured, hourlyDays, hourly, daily>>

DropHourly ==
    /\ hourly' = Dropped(hourly, hourlyDays)
    /\ UNCHANGED <<today, configured, hourlyDays, raw, daily>>

RollupsNext ==
    \/ RecordSample \/ Tomorrow \/ RefreshHourly \/ RefreshDaily \/ DropRaw \/ DropHourly

RollupsSpec == RollupsInit /\ [][RollupsNext]_rollupVars

-----------------------------------------------------------------------------
(***************************************************************************)
(* The sweep of the plain tables.                                          *)
(***************************************************************************)
CONSTANTS Tables,        \* the pruned tables, in order
          PruneRows,     \* the rows each may hold
          KeepDays,      \* table -> days, 0 keeps rows for ever
          PruneBatch,    \* batchSize (10000)
          MaxSweepDay    \* bound: the days of a run

ASSUME SweepAssumption ==
    /\ KeepDays \in [DOMAIN KeepDays -> Nat] /\ Tables \in Seq(DOMAIN KeepDays)
    /\ IsFiniteSet(PruneRows) /\ {PruneBatch, MaxSweepDay} \subseteq Nat

VARIABLES rowState,   \* <<table, row>> -> "none", "open", "closed", "pruned"
          rowBorn, sweepDay,
          sweep,      \* the sweep under way: table number, cutoff, rows due at its start
          leftOver,   \* rows a finished table of this sweep left behind (history)
          broken,     \* a table whose DELETE fails, 0 when there is none
          sweepStopped

sweepVars == <<rowState, rowBorn, sweepDay, sweep, leftOver, broken, sweepStopped>>

Cells == (1 .. Len(Tables)) \X PruneRows
NoSweep == [at |-> 0, cutoff |-> 0, due |-> {}]

RetentionSweepTypeOK ==
    /\ rowState \in [Cells -> {"none", "open", "closed", "pruned"}]
    /\ rowBorn \in [Cells -> 0 .. MaxSweepDay]
    /\ sweepDay \in 0 .. MaxSweepDay
    /\ sweep \in [at : 0 .. Len(Tables), cutoff : 0 .. MaxSweepDay, due : SUBSET Cells]
    /\ leftOver \in SUBSET Cells /\ broken \in 0 .. Len(Tables)

RetentionSweepInit ==
    /\ rowState = [c \in Cells |-> "none"] /\ rowBorn = [c \in Cells |-> 0]
    /\ sweepDay = 0 /\ sweep = NoSweep /\ leftOver = {}
    /\ broken \in 0 .. Len(Tables)
    /\ sweepStopped = FALSE

\* A health score is written once; an alert or a capture is open at first.
AddRow(c) ==
    /\ rowState[c] = "none"
    /\ rowState' = [rowState EXCEPT ![c] = IF Tables[c[1]] = "health" THEN "closed" ELSE "open"]
    /\ rowBorn' = [rowBorn EXCEPT ![c] = sweepDay]
    /\ UNCHANGED <<sweepDay, sweep, leftOver, broken, sweepStopped>>

\* The alert is resolved, the capture ends.
CloseRow(c) ==
    /\ rowState[c] = "open"
    /\ rowState' = [rowState EXCEPT ![c] = "closed"]
    /\ UNCHANGED <<rowBorn, sweepDay, sweep, leftOver, broken, sweepStopped>>

NextDay ==
    /\ sweepDay < MaxSweepDay
    /\ sweepDay' = sweepDay + 1
    /\ UNCHANGED <<rowState, rowBorn, sweep, leftOver, broken, sweepStopped>>

Prunable(t, cutoff) ==
    {c \in Cells : c[1] = t /\ rowState[c] = "closed" /\ rowBorn[c] < cutoff}

\* The tables from t on that are pruned at all, and the state of the sweep at the
\* first of them: its cutoff is taken when the table's turn comes.
From(t) ==
    LET kept == {u \in t .. Len(Tables) : KeepDays[Tables[u]] > 0} IN
    IF kept = {} THEN NoSweep
    ELSE LET u == CHOOSE x \in kept : \A y \in kept : x <= y
             cutoff == IF sweepDay > KeepDays[Tables[u]] THEN sweepDay - KeepDays[Tables[u]] ELSE 0
         IN [at |-> u, cutoff |-> cutoff, due |-> Prunable(u, cutoff)]

StartSweep ==
    /\ sweep.at = 0 /\ ~ sweepStopped
    /\ sweep' = From(1) /\ sweep' # NoSweep
    /\ leftOver' = {}
    /\ UNCHANGED <<rowState, rowBorn, sweepDay, broken, sweepStopped>>

\* A short batch is the last one.  (PruneAlerts deletes in one statement: its
\* first batch is always short.)
LastBatch(n) == n < PruneBatch

PruneBatchOf ==
    /\ sweep.at \notin {0, broken}
    /\ LET old == Prunable(sweep.at, sweep.cutoff) IN
       \E batch \in SUBSET old :
         /\ Cardinality(batch) = (IF Cardinality(old) < PruneBatch THEN Cardinality(old)
                                  ELSE PruneBatch)
         /\ rowState' = [c \in Cells |-> IF c \in batch THEN "pruned" ELSE rowState[c]]
         /\ IF LastBatch(Cardinality(batch))
              THEN /\ sweep' = From(sweep.at + 1)
                   /\ leftOver' = leftOver \cup (sweep.due \ {c \in Cells : rowState'[c] = "pruned"})
              ELSE UNCHANGED <<sweep, leftOver>>
         /\ rowBorn' = [c \in Cells |-> IF c \in batch THEN 0 ELSE rowBorn[c]]
    /\ UNCHANGED <<sweepDay, broken, sweepStopped>>

\* The failed table is left and the sweep goes on with the next.
AfterError == From(sweep.at + 1)

PruneFails ==
    /\ sweep.at = broken /\ broken > 0
    /\ sweep' = AfterError
    /\ UNCHANGED <<rowState, rowBorn, sweepDay, leftOver, broken, sweepStopped>>

\* Stop cancels the context: the tables that are left fail one after the other.
StopSweeps ==
    /\ ~ sweepStopped
    /\ sweepStopped' = TRUE /\ sweep' = NoSweep
    /\ UNCHANGED <<rowState, rowBorn, sweepDay, leftOver, broken>>

RetentionSweepNext ==
    \/ \E c \in Cells : AddRow(c) \/ CloseRow(c)
    \/ NextDay \/ StartSweep \/ PruneBatchOf \/ PruneFails \/ StopSweeps

\* The timers of the sweep come, and a sweep under way goes on.
RetentionSweepFairness == WF_sweepVars(StartSweep) /\ WF_sweepVars(PruneBatchOf \/ PruneFails)

RetentionSweepSpec ==
    RetentionSweepInit /\ [][RetentionSweepNext]_sweepVars /\ RetentionSweepFairness

-----------------------------------------------------------------------------
(***************************************************************************)
(* Properties.                                                             *)
(***************************************************************************)
\* "If raw data were dropped inside that window, the next refresh would see the
\* hours as empty and erase their rollups" (main.go:410-412): for every
\* configuration an hourly rollup loses samples only to its own retention.
HourlyRollupsKept ==
    [][\A d \in AllDays : hourly'[d] < hourly[d] => hourlyDays > 0 /\ d + hourlyDays < today]_rollupVars

\* Between them the raw rows and the rollups still know every day the daily rollup
\* knows, as long as the hourly rollups are kept for the daily refresh window.
DailyRollupsKept ==
    [][hourlyDays = 0 \/ hourlyDays >= DailyWindow =>
         \A d \in AllDays : daily'[d] >= daily[d]]_rollupVars

\* A table whose prune ended without an error has lost every row that was due when
\* its turn came, however many batches that took.
SweepClears == leftOver = {}

\* Every closed row of a pruned table whose days are over goes in the end, although
\* another table fails in every sweep, unless the sweeps are stopped.
OldRowsGo ==
    LET overdue == \E c \in Cells :
          /\ KeepDays[Tables[c[1]]] > 0 /\ c[1] # broken /\ rowState[c] = "closed"
          /\ rowBorn[c] + KeepDays[Tables[c[1]]] < sweepDay
    IN overdue ~> (~overdue \/ sweepStopped)

\* Retention removes what is due, all of it in the end, and takes no rollup
\* with it (main.go, migrations.go, retention.go).
RetentionCorrect ==
    /\ [](RollupsTypeOK /\ RetentionSweepTypeOK /\ SweepClears)
    /\ HourlyRollupsKept
    /\ DailyRollupsKept
    /\ OldRowsGo
=============================================================================
