------------------------------- MODULE Server -------------------------------
(***************************************************************************)
(* The server process, two specifications: what it does before it serves   *)
(* (Startup), and how it runs and stops (Lifecycle).                       *)
(***************************************************************************)
EXTENDS Naturals, Sequences, FiniteSets

(***************************************************************************)
(* What a server does to the shared database before it serves: it runs     *)
(* the migrations under an advisory lock (internal/database/postgres.go),  *)
(* brings the retention policy to its configuration (timescale.go) and     *)
(* seeds the default devices, sensors and alert rules (seed.go), in the    *)
(* order of run() in cmd/server/main.go.  Several servers may start on one *)
(* database, and a start may end at any step, by an error or by a crash:   *)
(* both close its connections, which rolls an open transaction back and    *)
(* frees the lock.                                                         *)
(***************************************************************************)
CONSTANTS Servers,        \* the instances that start on this database
          ConfiguredDays, \* METRICS_RETENTION_DAYS of each of them
          Versions,       \* the migrations are 1..Versions
          Defaults,       \* the default devices are 1..Defaults
          NoServer,
          MaxDeaths,      \* bound on starts (and runs) that end early
          MaxLockLosses   \* bound on losses of the connection that holds the lock

ASSUME StartupAssumption ==
    /\ NoServer \notin Servers
    /\ ConfiguredDays \in [Servers -> Nat]
    /\ Versions \in Nat \ {0}
    /\ Defaults \in Nat \ {0}

VARIABLES lockedBy,    \* the holder of pg_advisory_lock(727280)
          recorded,    \* the versions in schema_migrations
          effects,     \* how often each version's SQL was committed (history)
          policy,      \* days of the retention policy, 0 when there is none
          seeds,       \* copies of each default device
          sensors,     \* sensors of each default device
          ruleSets,    \* copies of the default alert rules
          boot,        \* where each server's start is
          deaths, lockLosses,
          torn         \* a seeding was cut short or met another one (history)

startupVars == <<lockedBy, recorded, effects, policy, seeds, sensors, ruleSets,
                 boot, deaths, lockLosses, torn>>

Migrations == 1 .. Versions
Devices    == 1 .. Defaults
Seeding    == {"countDevices", "insertDevices", "findSensors", "insertSensors",
               "countRules", "insertRules"}
Waiting    == {"down", "serving"}
Off        == [at |-> "down", next |-> 1, todo |-> {}]

Goto(s, label) == boot' = [boot EXCEPT ![s].at = label]

StartupTypeOK ==
    /\ lockedBy \in Servers \cup {NoServer}
    /\ recorded \in SUBSET Migrations
    /\ effects \in [Migrations -> Nat]
    /\ policy \in Nat
    /\ seeds \in [Devices -> Nat] /\ sensors \in [Devices -> Nat] /\ ruleSets \in Nat
    /\ boot \in [Servers -> [at : Waiting \cup Seeding \cup
                                  {"lock", "check", "apply", "readPolicy",
                                   "removePolicy", "addPolicy"},
                             next : 1 .. Versions + Defaults + 1, todo : SUBSET Devices]]
    /\ deaths \in 0 .. MaxDeaths /\ lockLosses \in 0 .. MaxLockLosses /\ torn \in BOOLEAN

StartupInit ==
    /\ lockedBy = NoServer /\ recorded = {} /\ effects = [v \in Migrations |-> 0]
    /\ policy = 0
    /\ seeds = [d \in Devices |-> 0] /\ sensors = [d \in Devices |-> 0] /\ ruleSets = 0
    /\ boot = [s \in Servers |-> Off]
    /\ deaths = 0 /\ lockLosses = 0 /\ torn = FALSE

-----------------------------------------------------------------------------
(* Migrations. *)

\* Connect; the tracking table and the extension are created if missing.
BeginStart(s) ==
    /\ boot[s].at = "down"
    /\ Goto(s, "lock")
    /\ UNCHANGED <<lockedBy, recorded, effects, policy, seeds, sensors, ruleSets,
                   deaths, lockLosses, torn>>

\* pg_advisory_lock waits until no other session holds the lock.
LockMigrations(s) ==
    /\ boot[s].at = "lock"
    /\ lockedBy = NoServer
    /\ lockedBy' = s
    /\ boot' = [boot EXCEPT ![s] = [at |-> "check", next |-> 1, todo |-> {}]]
    /\ UNCHANGED <<recorded, effects, policy, seeds, sensors, ruleSets, deaths,
                   lockLosses, torn>>

\* An applied version is skipped (its checksum matches: every server runs the
\* same build); another one is applied.
CheckVersion(s) ==
    /\ boot[s].at = "check"
    /\ boot[s].next \in Migrations
    /\ IF boot[s].next \in recorded
         THEN boot' = [boot EXCEPT ![s].next = @ + 1]
         ELSE Goto(s, "apply")
    /\ UNCHANGED <<lockedBy, recorded, effects, policy, seeds, sensors, ruleSets,
                   deaths, lockLosses, torn>>

\* The SQL and its row in schema_migrations are committed together
\* (ON CONFLICT DO NOTHING when the row is there).
ApplyVersion(s) ==
    /\ boot[s].at = "apply"
    /\ effects' = [effects EXCEPT ![boot[s].next] = @ + 1]
    /\ recorded' = recorded \cup {boot[s].next}
    /\ boot' = [boot EXCEPT ![s].at = "check", ![s].next = @ + 1]
    /\ UNCHANGED <<lockedBy, policy, seeds, sensors, ruleSets, deaths, lockLosses, torn>>

UnlockElsewhere(s) == lockedBy

Unlocked(s) == IF lockedBy = s THEN NoServer ELSE lockedBy

\* The deferred pg_advisory_unlock, on the connection that locked.
Unlock(s) == lockedBy' = Unlocked(s)

EndMigrations(s) ==
    /\ boot[s].at = "check"
    /\ boot[s].next = Versions + 1
    /\ Unlock(s)
    /\ Goto(s, "readPolicy")
    /\ UNCHANGED <<recorded, effects, policy, seeds, sensors, ruleSets, deaths,
                   lockLosses, torn>>

-----------------------------------------------------------------------------
(* The retention policy of one relation. *)

\* The stored interval is compared as text with "<n> days"; the database
\* writes one day as "1 day", which never matches.
SameInterval(current, days) == current = days /\ days # 1

ReadPolicy(s) ==
    /\ boot[s].at = "readPolicy"
    /\ Goto(s, CASE ConfiguredDays[s] = 0 /\ policy = 0 -> "countDevices"
                 [] ConfiguredDays[s] > 0 /\ SameInterval(policy, ConfiguredDays[s])
                      -> "countDevices"
                 [] policy = 0 /\ ConfiguredDays[s] > 0 -> "addPolicy"
                 [] OTHER -> "removePolicy")
    /\ UNCHANGED <<lockedBy, recorded, effects, policy, seeds, sensors, ruleSets,
                   deaths, lockLosses, torn>>

\* remove_retention_policy, if_exists => TRUE.
RemovePolicy(s) ==
    /\ boot[s].at = "removePolicy"
    /\ policy' = 0
    /\ Goto(s, IF ConfiguredDays[s] = 0 THEN "countDevices" ELSE "addPolicy")
    /\ UNCHANGED <<lockedBy, recorded, effects, seeds, sensors, ruleSets, deaths,
                   lockLosses, torn>>

\* add_retention_policy, refused when another server has added one since: the
\* error ends the start.
AddPolicy(s) ==
    /\ boot[s].at = "addPolicy"
    /\ IF policy = 0
         THEN policy' = ConfiguredDays[s] /\ Goto(s, "countDevices")
         ELSE boot' = [boot EXCEPT ![s] = Off] /\ UNCHANGED policy
    /\ UNCHANGED <<lockedBy, recorded, effects, seeds, sensors, ruleSets, deaths,
                   lockLosses, torn>>

-----------------------------------------------------------------------------
(* Seeds. *)

Alone(s) == \A t \in Servers \ {s} : boot[t].at \notin Seeding

\* The defaults are inserted only into an empty table.
CountDevices(s) ==
    /\ boot[s].at = "countDevices"
    /\ IF \E d \in Devices : seeds[d] > 0
         THEN Goto(s, "findSensors")
         ELSE boot' = [boot EXCEPT ![s].at = "insertDevices", ![s].next = 1]
    /\ torn' = (torn \/ ~ Alone(s))
    /\ UNCHANGED <<lockedBy, recorded, effects, policy, seeds, sensors, ruleSets,
                   deaths, lockLosses>>

\* One statement per device, in no transaction; no unique index stops a copy.
InsertDevice(s) ==
    /\ boot[s].at = "insertDevices"
    /\ seeds' = [seeds EXCEPT ![boot[s].next] = @ + 1]
    /\ boot' = [boot EXCEPT ![s].next = @ + 1,
                            ![s].at = IF boot[s].next = Defaults THEN "findSensors" ELSE @]
    /\ UNCHANGED <<lockedBy, recorded, effects, policy, sensors, ruleSets, deaths,
                   lockLosses, torn>>

\* The devices without a sensor.  (Copies of a default, which only seedings that
\* meet can make, are not told apart.)
FindSensorless(s) ==
    /\ boot[s].at = "findSensors"
    /\ boot' = [boot EXCEPT ![s].at = "insertSensors",
                            ![s].todo = {d \in Devices : seeds[d] > 0 /\ sensors[d] = 0}]
    /\ UNCHANGED <<lockedBy, recorded, effects, policy, seeds, sensors, ruleSets,
                   deaths, lockLosses, torn>>

InsertSensor(s) ==
    /\ boot[s].at = "insertSensors"
    /\ IF boot[s].todo = {}
         THEN Goto(s, "countRules") /\ UNCHANGED sensors
         ELSE \E d \in boot[s].todo :
                /\ sensors' = [sensors EXCEPT ![d] = @ + 1]
                /\ boot' = [boot EXCEPT ![s].todo = @ \ {d}]
    /\ UNCHANGED <<lockedBy, recorded, effects, policy, seeds, ruleSets, deaths,
                   lockLosses, torn>>

CountRules(s) ==
    /\ boot[s].at = "countRules"
    /\ Goto(s, IF ruleSets > 0 THEN "serving" ELSE "insertRules")
    /\ UNCHANGED <<lockedBy, recorded, effects, policy, seeds, sensors, ruleSets,
                   deaths, lockLosses, torn>>

\* All rules and their conditions in one transaction.
InsertRules(s) ==
    /\ boot[s].at = "insertRules"
    /\ ruleSets' = ruleSets + 1
    /\ Goto(s, "serving")
    /\ UNCHANGED <<lockedBy, recorded, effects, policy, seeds, sensors, deaths,
                   lockLosses, torn>>

-----------------------------------------------------------------------------
(* Faults. *)

\* A start that fails, or a server that stops or crashes.
Die(s) ==
    /\ boot[s].at # "down"
    /\ deaths < MaxDeaths
    /\ deaths' = deaths + 1
    /\ torn' = (torn \/ boot[s].at \in Seeding)
    /\ boot' = [boot EXCEPT ![s] = Off]
    /\ Unlock(s)
    /\ UNCHANGED <<recorded, effects, policy, seeds, sensors, ruleSets, lockLosses>>

\* The one connection that holds the lock breaks; the migrations go on on the
\* others.
LoseLock(s) ==
    /\ lockedBy = s
    /\ lockLosses < MaxLockLosses
    /\ lockLosses' = lockLosses + 1
    /\ lockedBy' = NoServer
    /\ UNCHANGED <<recorded, effects, policy, seeds, sensors, ruleSets, boot, deaths,
                   torn>>

StartupStep(s) ==
    \/ LockMigrations(s) \/ CheckVersion(s) \/ ApplyVersion(s) \/ EndMigrations(s)
    \/ ReadPolicy(s) \/ RemovePolicy(s) \/ AddPolicy(s)
    \/ CountDevices(s) \/ InsertDevice(s) \/ FindSensorless(s) \/ InsertSensor(s)
    \/ CountRules(s) \/ InsertRules(s)

StartupNext ==
    \E s \in Servers : BeginStart(s) \/ StartupStep(s) \/ Die(s) \/ LoseLock(s)

\* A started server takes its steps; nothing starts it again, or ends it.
\* pg_advisory_lock serves its waiters in turn.
StartupFairness ==
    \A s \in Servers : WF_startupVars(StartupStep(s)) /\ SF_startupVars(LockMigrations(s))

StartupSpec == StartupInit /\ [][StartupNext]_startupVars /\ StartupFairness

-----------------------------------------------------------------------------
(* Properties. *)

\* "Each entry is applied exactly once, tracked by its explicit Version"
\* (migrations.go:26-28): whatever starts together or dies half-way, what
\* schema_migrations records is what was committed, without gaps, and nothing is
\* committed twice while the lock's connection lives.
SchemaMatchesRecord ==
    /\ \A v \in Migrations : (v \in recorded) = (effects[v] > 0)
    /\ \A v \in recorded : \A u \in 1 .. v : u \in recorded
    /\ lockLosses = 0 => \A v \in Migrations : effects[v] <= 1

\* A server serves only on the whole schema, with the default rules in place and
\* no device of the defaults left without a sensor, unless seedings met.
ServingIsReady ==
    (\E s \in Servers : boot[s].at = "serving") =>
        /\ recorded = Migrations
        /\ ruleSets > 0
        /\ torn \/ \A d \in Devices : seeds[d] = 1 /\ sensors[d] = 1

\* Every start comes to an end: the migration lock is never left held, so no
\* server waits for it for ever (B20, postgres.go:107-110).
StartsSettle == \A s \in Servers : (boot[s].at = "lock") ~> (boot[s].at \in Waiting)

\* Starts that race or die half-way leave a schema that matches its record, and
\* every start settles (postgres.go, migrations.go, seed.go).
StartupCorrect ==
    /\ [](StartupTypeOK /\ SchemaMatchesRecord /\ ServingIsReady)
    /\ StartsSettle

-----------------------------------------------------------------------------
(***************************************************************************)
(* The server process as run() in cmd/server/main.go wires it: polls feed  *)
(* the result pipeline, and it the hub, the metric buffer and the alert    *)
(* engine; handlers feed the alert engine too; a signal stops the parts    *)
(* one after the other, an error of the listener returns at once and only  *)
(* the deferred closes run.  Each part's own Stop is modelled in its       *)
(* module; here it is one step that waits for what the part waits for, or  *)
(* gives up where the part does.  Discovery scans and dumps are left out:  *)
(* no part waits for them (see Discovery and Backups).                     *)
(***************************************************************************)
CONSTANTS PollRuns,    \* polls this process makes
          Handlers,    \* requests that evaluate a metric (a port scan)
          MaxTroubles  \* bound: results that are dropped, or whose calls fail

VARIABLES mode,      \* "up", "signal", "error", "exited"
          withCache, \* Redis is configured and answered
          stopped,   \* the parts that were stopped, in order
          poll,      \* poll -> "idle", "out", "result" (in the pipeline), "over"
          handler,   \* request -> "idle", "in", "over"
          list,      \* metrics in the Redis list
          stored,    \* metrics in the database
          raised,    \* alerts queued for notification: polls and requests
          announced, \* alerts a worker has sent
          shown,     \* polls whose status the hub has taken
          deadline,  \* the 30 s of the shutdown are over
          late,      \* what was handed to a stopped part (history)
          lost,      \* poll -> what of it was given up: "result", "metric", "alerts" (history)
          gaveUp,    \* parts whose Stop returned with work left (history)
          troubles

lifecycleVars == <<mode, withCache, stopped, poll, handler, list, stored,
                   raised, announced, shown, deadline, late, lost, gaveUp, troubles>>

ASSUME LifecycleBounds == MaxTroubles \in Nat

Parts == {"server", "scheduler", "flow", "isp", "reports", "anomaly", "alerts",
          "buffer", "retention", "hub", "admin", "configSync", "redis", "database"}

\* "stop intake first, then the producers (scheduler, collectors), then what
\* they feed (alert engine, metric buffer), and the WebSocket hub last"; the
\* deferred calls follow in the reverse order of their registration.
StopOrder ==
    <<"server", "scheduler", "flow", "isp", "reports", "anomaly", "alerts", "buffer",
      "retention", "hub", "admin", "configSync", "redis", "database">>

\* run() returns without the Stop calls when the listener fails.
Deferred == <<"configSync", "redis", "database">>

Order == StopOrder

Skipped(part) == part \in {"buffer", "redis"} /\ ~ withCache
Sequence      == SelectSeq(IF mode = "error" THEN Deferred ELSE Order, LAMBDA x : ~ Skipped(x))
IsStopped(part) == \E i \in 1 .. Len(stopped) : stopped[i] = part
NextPart(part) == Len(stopped) < Len(Sequence) /\ Sequence[Len(stopped) + 1] = part

LifecycleTypeOK ==
    /\ mode \in {"up", "signal", "error", "exited"}
    /\ withCache \in BOOLEAN /\ deadline \in BOOLEAN
    /\ stopped \in Seq(Parts)
    /\ poll \in [PollRuns -> {"idle", "out", "result", "over"}]
    /\ handler \in [Handlers -> {"idle", "in", "over"}]
    /\ list \in SUBSET PollRuns /\ stored \in SUBSET PollRuns /\ shown \in SUBSET PollRuns
    /\ raised \in SUBSET (PollRuns \cup Handlers)
    /\ announced \in SUBSET (PollRuns \cup Handlers)
    /\ late \in SUBSET (PollRuns \cup Handlers)
    /\ lost \in [PollRuns -> SUBSET {"result", "metric", "alerts"}]
    /\ gaveUp \in SUBSET Parts /\ troubles \in 0..MaxTroubles

\* Everything is started and wired when the listener is.
LifecycleInit ==
    /\ mode = "up" /\ withCache \in BOOLEAN /\ stopped = << >> /\ deadline = FALSE
    /\ poll = [p \in PollRuns |-> "idle"]
    /\ handler = [h \in Handlers |-> "idle"]
    /\ list = {} /\ stored = {} /\ raised = {} /\ announced = {} /\ shown = {} /\ late = {}
    /\ lost = [p \in PollRuns |-> {}] /\ gaveUp = {} /\ troubles = 0

work   == <<poll, handler>>
stores == <<list, stored, raised, announced, shown>>
losses == <<lost, gaveUp, troubles>>

-----------------------------------------------------------------------------
(* Work. *)

StartPoll(p) ==
    /\ mode # "exited"
    /\ ~ IsStopped("scheduler")
    /\ poll[p] = "idle"
    /\ poll' = [poll EXCEPT ![p] = "out"]
    /\ UNCHANGED <<mode, withCache, stopped, handler, stores, losses, deadline, late>>

Trouble == troubles < MaxTroubles /\ troubles' = troubles + 1

\* Submit: the result is queued, or dropped when the pipeline has been full for 5 s.
FinishPoll(p) ==
    /\ mode # "exited"
    /\ poll[p] = "out"
    /\ \/ poll' = [poll EXCEPT ![p] = "result"] /\ UNCHANGED <<lost, troubles>>
       \/ /\ poll' = [poll EXCEPT ![p] = "over"]
          /\ Trouble /\ lost' = [lost EXCEPT ![p] = {"result"}]
    /\ UNCHANGED <<mode, withCache, stopped, handler, stores, gaveUp, deadline, late>>

\* The pipeline is stopping: a batch it has begun, or begins by the run loop, runs
\* on the cancelled context; the last ones on 15 s.
Cut == mode = "signal" /\ NextPart("scheduler") /\ \A p \in PollRuns : poll[p] # "out"

\* processBatch: the status goes to the hub, the metric to the buffer (or to the
\* database, without Redis or when its push fails), the evaluation to the alert
\* engine, which may queue a notification.  A call that fails is only logged.
ProcessResult(p) ==
    /\ mode # "exited"
    /\ poll[p] = "result"
    /\ poll' = [poll EXCEPT ![p] = "over"]
    /\ shown' = IF IsStopped("hub") THEN shown ELSE shown \cup {p}
    /\ \E fails \in SUBSET {"metric", "alerts"}, pushed \in BOOLEAN :
          /\ IF Cut \/ (fails = {} /\ pushed) THEN UNCHANGED troubles ELSE Trouble
          /\ LET gone == fails \cup IF IsStopped("database") THEN {"metric", "alerts"} ELSE {}
                 viaRedis == withCache /\ pushed /\ ~ IsStopped("redis") IN
             /\ lost' = [lost EXCEPT ![p] = gone]
             /\ list' = IF viaRedis /\ "metric" \notin fails THEN list \cup {p} ELSE list
             /\ stored' = IF ~ viaRedis /\ "metric" \notin gone THEN stored \cup {p} ELSE stored
             /\ raised' = IF "alerts" \in gone THEN raised ELSE raised \cup {p}
    /\ late' = IF \E part \in {"alerts", "buffer", "hub", "redis", "database"} : IsStopped(part)
                 THEN late \cup {p} ELSE late
    /\ UNCHANGED <<mode, withCache, stopped, handler, announced, gaveUp, deadline>>

BeginRequest(h) ==
    /\ mode = "up"
    /\ handler[h] = "idle"
    /\ handler' = [handler EXCEPT ![h] = "in"]
    /\ UNCHANGED <<mode, withCache, stopped, poll, stores, losses, deadline, late>>

\* ProcessMetric of the handler; a request may outlive the shutdown's deadline.
EndRequest(h) ==
    /\ mode # "exited"
    /\ handler[h] = "in"
    /\ handler' = [handler EXCEPT ![h] = "over"]
    /\ raised' = IF IsStopped("database") THEN raised ELSE raised \cup {h}
    /\ late' = IF IsStopped("alerts") \/ IsStopped("database") THEN late \cup {h} ELSE late
    /\ UNCHANGED <<mode, withCache, stopped, poll, list, stored, announced,
                   shown, losses, deadline>>

FlushList ==
    /\ mode # "exited"
    /\ ~ IsStopped("buffer") /\ ~ IsStopped("redis")
    /\ list # {}
    /\ stored' = stored \cup list /\ list' = {}
    /\ UNCHANGED <<mode, withCache, stopped, work, raised, announced, shown, losses, deadline, late>>

Announce(x) ==
    /\ mode # "exited"
    /\ ~ IsStopped("alerts")
    /\ x \in raised \ announced
    /\ announced' = announced \cup {x}
    /\ UNCHANGED <<mode, withCache, stopped, work, list, stored, raised, shown, losses, deadline, late>>

-----------------------------------------------------------------------------
(* The end of the process. *)

Signal ==
    /\ mode = "up" /\ mode' = "signal"
    /\ UNCHANGED <<withCache, stopped, work, stores, losses, deadline, late>>

ListenerFails ==
    /\ mode = "up" /\ mode' = "error"
    /\ UNCHANGED <<withCache, stopped, work, stores, losses, deadline, late>>

DeadlineOver ==
    /\ mode = "signal" /\ stopped = << >> /\ ~ deadline
    /\ deadline' = TRUE
    /\ UNCHANGED <<mode, withCache, stopped, work, stores, losses, late>>

\* Seeded fault: the listener's Shutdown waits for its requests without a limit.
WaitsForEver(part) ==
    CASE part = "server"    -> \A h \in Handlers : handler[h] # "in"
      [] part = "scheduler" -> \A p \in PollRuns : poll[p] \notin {"out", "result"}
      [] part = "alerts"    -> raised \subseteq announced
      [] part = "buffer"    -> list = {}
      [] OTHER              -> TRUE

\* What the Stop of a part waits for: requests until the deadline, the polls of
\* the pool and the results of the pipeline, the queued notifications (a worker
\* sends each or gives it up, see Delivery), the last flush (see RedisState).
Drained(part) ==
    CASE part = "server"    -> deadline \/ \A h \in Handlers : handler[h] # "in"
      [] part = "scheduler" -> \A p \in PollRuns : poll[p] \notin {"out", "result"}
      [] part = "alerts"    -> raised \subseteq announced
      [] part = "buffer"    -> list = {}
      [] OTHER              -> TRUE

\* The alert engine's workers drain for 10 s; the buffer flushes 50 batches in
\* 15 s, and stops at a batch that fails.
GivesUp(part) == part \in {"alerts", "buffer"} /\ ~ Drained(part)

StopPart(part) ==
    /\ mode \in {"signal", "error"}
    /\ NextPart(part)
    /\ \/ Drained(part) /\ UNCHANGED gaveUp
       \/ GivesUp(part) /\ gaveUp' = gaveUp \cup {part}
    /\ stopped' = Append(stopped, part)
    /\ mode' = IF Len(stopped) + 1 = Len(Sequence) THEN "exited" ELSE mode
    /\ UNCHANGED <<withCache, work, stores, lost, troubles, deadline, late>>

\* What goes on by itself: polls (their context is cancelled after the drain
\* timeout), the pipeline, the workers, the flusher, the deadline and the shutdown;
\* a request need not end.
GoesOn ==
    \/ \E p \in PollRuns : FinishPoll(p) \/ ProcessResult(p)
    \/ FlushList \/ (\E x \in PollRuns \cup Handlers : Announce(x))
    \/ DeadlineOver \/ (\E part \in Parts : StopPart(part))

LifecycleNext ==
    \/ \E p \in PollRuns : StartPoll(p)
    \/ \E h \in Handlers : BeginRequest(h) \/ EndRequest(h)
    \/ Signal \/ ListenerFails
    \/ GoesOn

\* Each of these has finitely many steps to make, so that one condition says for
\* all of them that none stays undone for ever.
LifecycleFairness == WF_lifecycleVars(GoesOn)

LifecycleSpec == LifecycleInit /\ [][LifecycleNext]_lifecycleVars /\ LifecycleFairness

-----------------------------------------------------------------------------
(* Properties. *)

\* "Order matters" (main.go:334-337): after a signal no poll hands anything to a
\* part that has stopped; only a request past the deadline does.
NothingFedAfterStop ==
    mode = "exited" /\ Len(stopped) > Len(Deferred) =>
        /\ late \cap PollRuns = {}
        /\ late \cap Handlers # {} => deadline

\* When a signalled process has exited, nothing got lost for the order in which it
\* stopped.  The status of every poll was handed to the hub; its metric is in the
\* database; its evaluation was made and every alert announced.  Missing are only a
\* result the full pipeline dropped, what a failing call or the cancelled context of
\* the pipeline's Stop cost it (ResultPipeline, result_pipeline.go:105), metrics the
\* buffer's last drain left in the Redis list for the next start, alerts the
\* engine's drain left queued, and those of requests the shutdown gave up on.
StopHandsOver ==
    mode = "exited" /\ Len(stopped) > Len(Deferred) =>
        /\ \A p \in PollRuns :
              poll[p] = "over" /\ "result" \notin lost[p] =>
                  /\ p \in shown
                  /\ "metric" \in lost[p] \/ p \in stored \/ (p \in list /\ "buffer" \in gaveUp)
                  /\ "alerts" \in lost[p] \/ p \in raised
        /\ "alerts" \in gaveUp \/ raised \ announced \subseteq late

\* A signal or a failed listener ends the process, whatever its requests do.
ProcessExits == (mode \in {"signal", "error"}) ~> (mode = "exited")

\* The shutdown stops producers before consumers, loses nothing for its order and
\* ends (main.go).
LifecycleCorrect ==
    /\ [](LifecycleTypeOK /\ NothingFedAfterStop /\ StopHandsOver)
    /\ ProcessExits
=============================================================================
