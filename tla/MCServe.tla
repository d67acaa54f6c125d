------------------------------ MODULE MCServe -------------------------------
(***************************************************************************)
(* Alerts, screens, captures, reports, ageing, in one run for TLC: each    *)
(* behaviour moves one component and leaves the others in their initial    *)
(* state, and the properties of all of them are checked.                   *)
(***************************************************************************)
EXTENDS AlertEngine, Hub, Capture, Reports, Retention, TLC

CONSTANT Components   \* the components this run moves
VARIABLE component    \* the one that moves in this behaviour

PrunedTables == <<"health", "captures">>

KeptDays == ("health" :> 1) @@ ("captures" :> 1)

\* A schedule that is sound; the others are of any kind and have run before.
OneSchedule == CHOOSE s \in Schedules : TRUE

allVars == <<component, vars, hubVars, captureVars, reportVars, rollupVars,
             sweepVars>>

ServeInit ==
    /\ component \in Components
    /\ component # "AlertEngine" => autoResolve = TRUE
    /\ Init
    /\ component # "Hub" => viaRedis = TRUE
    /\ HubInit
    /\ CaptureInit
    /\ component # "Reports" =>
           lastRun = [s \in Schedules |-> NotRun] /\ kind = [s \in Schedules |-> "sound"]
    /\ ReportsInit
    /\ component = "Reports" =>
           kind[OneSchedule] = "sound" /\ \A s \in Schedules \ {OneSchedule} : lastRun[s] # NotRun
    /\ component # "Rollups" =>
           configured = (CHOOSE d \in MetricsDays : TRUE) /\ hourlyDays = CHOOSE d \in HourlyDays : TRUE
    /\ RollupsInit
    /\ component # "RetentionSweep" => broken = 0
    /\ RetentionSweepInit

Rest ==
    /\ UNCHANGED component
    /\ IF component = "AlertEngine" THEN TRUE ELSE UNCHANGED vars
    /\ IF component = "Hub" THEN TRUE ELSE UNCHANGED hubVars
    /\ IF component = "Capture" THEN TRUE ELSE UNCHANGED captureVars
    /\ IF component = "Reports" THEN TRUE ELSE UNCHANGED reportVars
    /\ IF component = "Rollups" THEN TRUE ELSE UNCHANGED rollupVars
    /\ IF component = "RetentionSweep" THEN TRUE ELSE UNCHANGED sweepVars

ServeNext ==
    \/ component = "AlertEngine" /\ Next /\ Rest
    \/ component = "Hub" /\ HubNext /\ Rest
    \/ component = "Capture" /\ CaptureNext /\ Rest
    \/ component = "Reports" /\ ReportsNext /\ Rest
    \/ component = "Rollups" /\ RollupsNext /\ Rest
    \/ component = "RetentionSweep" /\ RetentionSweepNext /\ Rest

\* The fairness of each component, for its own behaviours.
ServeFairness ==
    /\ \A e \in Engines :
         /\ WF_vars(component = "AlertEngine" /\ ProcessMetric(e))
         /\ WF_vars(component = "AlertEngine" /\ Step(e))
    /\ WF_vars(component = "AlertEngine" /\ Tick)
    /\ \A a \in Ids : WF_vars(component = "AlertEngine" /\ Prune(a))
    /\ WF_hubVars(component = "Hub" /\ Receive)
    /\ WF_hubVars(component = "Hub" /\ Resubscribe)
    /\ WF_hubVars(component = "Hub" /\ Run)
    /\ \A c \in Conns :
         /\ WF_hubVars(component = "Hub" /\ Write(c)) /\ WF_hubVars(component = "Hub" /\ Ping(c))
         /\ WF_hubVars(component = "Hub" /\ ReadFails(c)) /\ WF_hubVars(component = "Hub" /\ MarkDead(c))
         /\ WF_hubVars(component = "Hub" /\ Snapshot(c)) /\ WF_hubVars(component = "Hub" /\ SendSnapshot(c))
    /\ \A i \in SessionIds :
         /\ WF_captureVars(component = "Capture" /\ GoesOn(i))
         /\ WF_captureVars(component = "Capture" /\ Kill(i))
         /\ WF_captureVars(component = "Capture" /\ DurationLimit(i))
    /\ WF_reportVars(component = "Reports" /\ RunnerSteps)
    /\ WF_reportVars(component = "Reports" /\ Generate("user"))
    /\ WF_reportVars(component = "Reports" /\ ReportTick)
    /\ WF_sweepVars(component = "RetentionSweep" /\ StartSweep)
    /\ WF_sweepVars(component = "RetentionSweep" /\ (PruneBatchOf \/ PruneFails))

ServeSpec == ServeInit /\ [][ServeNext]_allVars /\ ServeFairness
=============================================================================
