------------------------------ MODULE Reports ------------------------------
(***************************************************************************)
(* Scheduled reports (reports/scheduler.go, reports/generator.go and       *)
(* RunScheduledReport of handlers/report_gen.go).  A schedule is due when  *)
(* a fire time lies between its last run and now; the runner generates the *)
(* due reports one after the other: a file, a row for it, then the time of *)
(* the run.  A user may run a schedule meanwhile.  One row the check       *)
(* cannot read ends the check of all of them.  What a report says, and     *)
(* under which name its file lies, is left out.                            *)
(***************************************************************************)
EXTENDS Naturals, FiniteSets

CONSTANTS Schedules,        \* the enabled ones
          ScheduleKinds,    \* the kinds among them
          FireTimes,        \* when the cron expression fires
          NoSchedule,
          MaxReportTime,    \* bound: seconds
          MaxReportFaults,  \* bound: restarts, failed calls and lost updates
          MaxManualRuns     \* bound: runs asked for by a user

ASSUME ReportBounds ==
    /\ FireTimes \subseteq 1..MaxReportTime
    /\ ScheduleKinds \subseteq {"sound", "no scope", "bad cron", "no next"}
    /\ {MaxReportTime, MaxReportFaults, MaxManualRuns} \subseteq Nat /\ NoSchedule \notin Schedules

Generators == {"scheduler", "user"}
NotRun == 0            \* last_run_at is null; otherwise the second plus one

\* A sound schedule; one whose scope_value is NULL, which the scan into a plain
\* string refuses; one whose expression the parser refuses; and one whose
\* expression never fires again, for which cron answers the zero time.
VARIABLES kind,
          second,
          lastRun,     \* scheduled_reports.last_run_at
          due,         \* what the runner has still to generate
          gen,         \* each generator: [pc, of]
          made,        \* history: reports the runner recorded for each sound schedule
          reportFaults, manualRuns

reportVars == <<kind, second, lastRun, due, gen, made, reportFaults, manualRuns>>

NoGen == [pc |-> "idle", of |-> NoSchedule]

ReportsInit ==
    /\ kind \in [Schedules -> ScheduleKinds]
    /\ second = 0 /\ lastRun \in [Schedules -> {NotRun, 1}]
    /\ due = {} /\ gen = [g \in Generators |-> NoGen]
    /\ made = [s \in Schedules |-> 0] /\ reportFaults = 0 /\ manualRuns = 0

-----------------------------------------------------------------------------
\* Seeded fault: a fire time counts in its own second only.
IsDueNow(s) == lastRun[s] = NotRun \/ (second \in FireTimes /\ second + 1 > lastRun[s])

\* isDue: a fire time in (lastRun, now], or no run yet.  The zero time is never
\* after now.
IsDue(s) ==
    /\ kind[s] # "bad cron"
    /\ \/ lastRun[s] = NotRun
       \/ kind[s] = "no next"
       \/ kind[s] = "sound" /\ \E f \in FireTimes : f + 1 > lastRun[s] /\ f <= second

\* The failed scan closes the rows, and rows.Err gives its error back.
ScanFails == \E s \in Schedules : kind[s] = "no scope"

\* checkAndRun, first half: the due schedules are read before any is run, and no
\* error leaves any.
DueReports ==
    /\ due = {} /\ gen["scheduler"].pc = "idle" /\ ~ScanFails
    /\ due' = {s \in Schedules : IsDue(s)}
    /\ UNCHANGED <<kind, second, lastRun, gen, made, reportFaults, manualRuns>>

ReportFault == reportFaults < MaxReportFaults /\ reportFaults' = reportFaults + 1

\* The query fails: nothing is due until the next tick of the runner.
DueQueryFails ==
    /\ due = {} /\ gen["scheduler"].pc = "idle" /\ ReportFault
    /\ UNCHANGED <<kind, second, lastRun, due, gen, made, manualRuns>>

\* Update: a user gives the schedule its scope.
GiveScope(s) ==
    /\ kind[s] = "no scope" /\ kind' = [kind EXCEPT ![s] = "sound"]
    /\ UNCHANGED <<second, lastRun, due, gen, made, reportFaults, manualRuns>>

StartReport(g, s) ==
    /\ gen[g].pc = "idle"
    /\ gen' = [gen EXCEPT ![g] = [pc |-> "query", of |-> s]]
    /\ UNCHANGED <<kind, second, lastRun, made, reportFaults>>

RunDue ==
    \E s \in due : StartReport("scheduler", s) /\ due' = due \ {s} /\ UNCHANGED manualRuns

RunScheduledReport(s) ==
    /\ manualRuns < MaxManualRuns /\ manualRuns' = manualRuns + 1
    /\ StartReport("user", s) /\ UNCHANGED due

\* writeCSV, writeHTML: the file is created, or written over.
WriteFile(g) ==
    /\ gen[g].pc = "query"
    /\ gen' = [gen EXCEPT ![g].pc = "record"]
    /\ UNCHANGED <<kind, second, lastRun, due, made, reportFaults, manualRuns>>

RecordReport(g) ==
    /\ gen[g].pc = "record"
    /\ gen' = [gen EXCEPT ![g].pc = "stamp"]
    /\ made' = IF g = "scheduler" /\ kind[gen[g].of] = "sound"
               THEN [made EXCEPT ![gen[g].of] = @ + 1] ELSE made
    /\ UNCHANGED <<kind, second, lastRun, due, reportFaults, manualRuns>>

\* The query or the file failed: the run is stamped as failed.
GenerateFails(g) ==
    /\ gen[g].pc = "query" /\ ReportFault
    /\ gen' = [gen EXCEPT ![g].pc = "stamp"]
    /\ UNCHANGED <<kind, second, lastRun, due, made, manualRuns>>

\* last_run_at = NOW().
StampRun(g) ==
    /\ gen[g].pc = "stamp"
    /\ lastRun' = [lastRun EXCEPT ![gen[g].of] = second + 1]
    /\ gen' = [gen EXCEPT ![g] = NoGen]
    /\ UNCHANGED <<kind, second, due, made, reportFaults, manualRuns>>

\* The error of the update is dropped.
StampLost(g) ==
    /\ gen[g].pc = "stamp" /\ ReportFault
    /\ gen' = [gen EXCEPT ![g] = NoGen]
    /\ UNCHANGED <<kind, second, lastRun, due, made, manualRuns>>

\* A stop or a crash, and the next start.
RestartReports ==
    /\ ReportFault
    /\ due' = {} /\ gen' = [g \in Generators |-> NoGen]
    /\ UNCHANGED <<kind, second, lastRun, made, manualRuns>>

ReportTick ==
    /\ second < MaxReportTime /\ second' = second + 1
    /\ UNCHANGED <<kind, lastRun, due, gen, made, reportFaults, manualRuns>>

Generate(g) == WriteFile(g) \/ RecordReport(g) \/ StampRun(g)
RunnerSteps == DueReports \/ RunDue \/ Generate("scheduler")

ReportsNext ==
    \/ RunnerSteps \/ Generate("user")
    \/ \E s \in Schedules : RunScheduledReport(s) \/ GiveScope(s)
    \/ \E g \in Generators : GenerateFails(g) \/ StampLost(g)
    \/ DueQueryFails \/ RestartReports \/ ReportTick

\* The runner's ticker goes on; time passes.
ReportsFairness == WF_reportVars(RunnerSteps) /\ WF_reportVars(Generate("user")) /\ WF_reportVars(ReportTick)

ReportsSpec == ReportsInit /\ [][ReportsNext]_reportVars /\ ReportsFairness

-----------------------------------------------------------------------------
\* Type correctness of the reports.
ReportsTypeOK ==
    /\ kind \in [Schedules -> {"sound", "no scope", "bad cron", "no next"}]
    /\ second \in 0..MaxReportTime /\ lastRun \in [Schedules -> 0..(MaxReportTime + 1)]
    /\ due \subseteq Schedules
    /\ \A g \in Generators : gen[g].pc \in {"idle", "query", "record", "stamp"}
    /\ reportFaults \in 0..MaxReportFaults /\ manualRuns \in 0..MaxManualRuns

\* The runner generates a sound schedule's report no more often than it has
\* fired, its first run and the restarts and lost updates allow: a finished run
\* is not repeated, whoever else runs the schedule meanwhile ("daily/weekly
\* schedules no longer run hourly", CHANGELOG.md B5).  An expression that never
\* fires again runs at every check instead (scheduler.go:171-172).
RunsExplained ==
    \A s \in Schedules :
        kind[s] = "sound" => made[s] <= 1 + Cardinality({f \in FireTimes : f <= second}) + reportFaults

\* No fire time of a sound schedule is forgotten: once it has come, a run that
\* ended after it is written down, restarts, failed calls and lost updates or
\* not; but only while every enabled schedule can be scanned.  As long as one has
\* no scope, none runs (checkAndRun, dueReports, isDue).
EveryFireServed ==
    LET unserved == \E s \in Schedules, f \in FireTimes :
                       kind[s] = "sound" /\ second >= f /\ lastRun[s] <= f
    IN (unserved /\ ~ScanFails) ~> ~unserved

\* A sound schedule's report is made for every time it fires and not more often,
\* whatever schedules run beside it that the scan can read (reports/scheduler.go).
ReportsCorrect ==
    /\ [](ReportsTypeOK /\ RunsExplained)
    /\ EveryFireServed
=============================================================================
