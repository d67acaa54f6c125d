--------------------------- MODULE PollScheduler ---------------------------
(***************************************************************************)
(* The polling core of internal/scheduler: the dispatcher's schedule, the  *)
(* jobs it puts in flight, the workers that run them, the handling of each *)
(* poll result, and the reconcile pass that follows the device table.      *)
(*                                                                         *)
(* Time is abstracted: any scheduled entry may be due at any moment (a     *)
(* poll may take longer than its interval).  Module PollTimer keeps the    *)
(* clock.  The worker pool is abstracted to which jobs wait, which run and *)
(* how many fit in each queue.  Module WorkerPool keeps the order in which *)
(* workers take them.                                                      *)
(*                                                                         *)
(* Each action is one critical section of PollDispatcher.mu or             *)
(* DeviceStateTracker.mu, or one channel operation.                        *)
(***************************************************************************)
EXTENDS Integers, FiniteSets

CONSTANTS
    Devices,           \* device ids
    Slots,             \* identities for the jobs of one device
    Critical,          \* devices that scheduleDevice gives priority 0
    WorkerCount,       \* workers in the pool
    QueueSize,         \* priority -> capacity of its queue
    UnreachableAfter,  \* failures that mark a device unreachable (3)
    Statuses,          \* what a collector can report, "down" included
    MaxEdits           \* bound: times an operator enables or disables a device

ASSUME SchedulerAssumption ==
    /\ Critical \subseteq Devices
    /\ WorkerCount \in Nat \ {0}
    /\ QueueSize \in [0..2 -> Nat \ {0}]
    /\ UnreachableAfter \in Nat \ {0}
    /\ "down" \in Statuses
    /\ "none" \notin Statuses /\ "db" \notin Statuses
    /\ MaxEdits \in Nat

VARIABLES
    enabled,     \* devices whose row is enabled in the database
    edits,       \* operator edits so far
    reachable,   \* devices that answer polls at the moment
    deviceMap,   \* PollDispatcher.deviceMap: ids that have a ScheduleEntry
    entry,       \* the ScheduleEntry of each id
    gen,         \* how many entries were ever created for each id
    tracker,     \* DeviceStateTracker.states: consecutive failures, -1 if absent
    jobs,        \* every job of every device, from dispatch to Submit
    reconciler   \* progress of the reconcile pass

dispatchVars  == <<deviceMap, entry, gen>>
databaseVars  == <<enabled, edits, reachable>>
vars == <<enabled, edits, reachable, deviceMap, entry, gen, tracker, jobs,
          reconciler>>

(***************************************************************************)
(* Entries and jobs.                                                       *)
(***************************************************************************)
NewEntry == [State |-> "healthy", Failures |-> 0, LastStatus |-> "none",
             InFlight |-> FALSE]

Entry == [State : {"healthy", "unreachable"}, Failures : 0..UnreachableAfter,
          LastStatus : Statuses \cup {"none"}, InFlight : BOOLEAN]

\* A job is collected under the dispatcher's lock, then queued or rejected,
\* then running.  The stages after running are the steps of handlePollResult.
Outstanding == {"collected", "rejected", "queued", "running"}
Handling == {"record", "track", "status", "submit"}

Job == [stage : {"free"} \cup Outstanding \cup Handling, gen : Nat,
        prev : Statuses \cup {"none", "db"}, prio : 0..2,
        status : Statuses \cup {"none"}]

FreeJob == [stage |-> "free", gen |-> 0, prev |-> "none", prio |-> 0,
            status |-> "none"]

\* Where a reconcile pass is, the ids it read (after the removals start, the
\* one id being removed) and the ids still to handle.
Pass == [pc : {"idle", "upsert", "remove", "untrack"},
         current : SUBSET Devices, todo : SUBSET Devices]

\* The stages of the jobs a worker holds.
Held == {"running"} \cup Handling

JobsIn(d, stages) == {s \in Slots : jobs[d][s].stage \in stages}

Busy == {p \in Devices \X Slots : jobs[p[1]][p[2]].stage \in Held}

QueuedAt(prio) ==
    {p \in Devices \X Slots : /\ jobs[p[1]][p[2]].stage = "queued"
                              /\ jobs[p[1]][p[2]].prio = prio}

SetStage(d, s, stage) == jobs' = [jobs EXCEPT ![d][s].stage = stage]
Release(d, s) == jobs' = [jobs EXCEPT ![d][s] = FreeJob]

-----------------------------------------------------------------------------
(***************************************************************************)
(* Environment: operators edit the device table, devices come and go.      *)
(***************************************************************************)
EditDevice(d) ==
    /\ edits < MaxEdits
    /\ edits' = edits + 1
    /\ enabled' = IF d \in enabled THEN enabled \ {d} ELSE enabled \cup {d}
    /\ UNCHANGED <<reachable, deviceMap, entry, gen, tracker, jobs,
                   reconciler>>

Flap(d) ==
    /\ reachable' = IF d \in reachable THEN reachable \ {d}
                                       ELSE reachable \cup {d}
    /\ UNCHANGED <<enabled, edits, deviceMap, entry, gen, tracker, jobs,
                   reconciler>>

(***************************************************************************)
(* Reconcile.  The initial load in Start is the same pass over an empty    *)
(* schedule.  A failed read of the table changes nothing.                  *)
(***************************************************************************)
ReconcileFetch ==
    /\ reconciler.pc = "idle"
    /\ reconciler' = [pc |-> "upsert", current |-> enabled, todo |-> enabled]
    /\ UNCHANGED <<databaseVars, dispatchVars, tracker, jobs>>

\* Upsert: an existing entry keeps everything but its device row (interval
\* and priority); a new one starts healthy and not in flight.
Upsert(d) ==
    /\ deviceMap' = deviceMap \cup {d}
    /\ entry' = IF d \in deviceMap THEN entry
                ELSE [entry EXCEPT ![d] = NewEntry]
    /\ gen' = IF d \in deviceMap THEN gen ELSE [gen EXCEPT ![d] = @ + 1]

ReconcileUpsert(d) ==
    /\ reconciler.pc = "upsert" /\ d \in reconciler.todo
    /\ Upsert(d)
    /\ reconciler' = [reconciler EXCEPT !.todo = @ \ {d}]
    /\ UNCHANGED <<databaseVars, tracker, jobs>>

\* DeviceIDs: the ids to drop are read once, after the upserts.
ReconcileList ==
    /\ reconciler.pc = "upsert" /\ reconciler.todo = {}
    /\ reconciler' = [reconciler EXCEPT
                        !.pc = "remove", !.todo = deviceMap \ reconciler.current]
    /\ UNCHANGED <<databaseVars, dispatchVars, tracker, jobs>>

Remove(d) ==
    /\ deviceMap' = deviceMap \ {d}
    /\ entry' = [entry EXCEPT ![d] = NewEntry]
    /\ UNCHANGED gen

ReconcileRemove(d) ==
    /\ reconciler.pc = "remove" /\ d \in reconciler.todo
    /\ Remove(d)
    /\ reconciler' = [reconciler EXCEPT !.pc = "untrack", !.current = {d},
                                        !.todo = @ \ {d}]
    /\ UNCHANGED <<databaseVars, tracker, jobs>>

\* stateTracker.Remove takes another lock than dispatcher.Remove.
ReconcileUntrack ==
    /\ reconciler.pc = "untrack"
    /\ tracker' = [d \in Devices |->
                     IF d \in reconciler.current THEN -1 ELSE tracker[d]]
    /\ reconciler' = [reconciler EXCEPT !.pc = "remove", !.current = {}]
    /\ UNCHANGED <<databaseVars, dispatchVars, jobs>>

ReconcileEnd ==
    /\ reconciler.pc = "remove" /\ reconciler.todo = {}
    /\ reconciler' = [pc |-> "idle", current |-> {}, todo |-> {}]
    /\ UNCHANGED <<databaseVars, dispatchVars, tracker, jobs>>

-----------------------------------------------------------------------------
(***************************************************************************)
(* The dispatcher goroutine.                                               *)
(***************************************************************************)
\* The job dispatchDue builds from an entry.
JobFor(d) ==
    [stage |-> "collected", gen |-> gen[d],
     prev |-> IF entry[d].LastStatus # "none" THEN entry[d].LastStatus ELSE "db",
     prio |-> IF entry[d].State = "unreachable" THEN 2
              ELSE IF d \in Critical THEN 0 ELSE 1,
     status |-> "none"]

FreeSlot(d) == CHOOSE s \in Slots : jobs[d][s].stage = "free"

\* Seeded fault: dispatchDue does not look at the in-flight mark.
DispatchableAlways(d) == d \in deviceMap /\ JobsIn(d, {"free"}) # {}

\* A due entry that is in flight is skipped: only its next poll time moves.
Dispatchable(d) ==
    /\ d \in deviceMap
    /\ ~ entry[d].InFlight
    /\ JobsIn(d, {"free"}) # {}

\* dispatchDue, up to the unlock: all due entries in one critical section.
\* The goroutine starts no new pass before it has enqueued the last one.
DispatchDue(due) ==
    /\ \A d \in due : Dispatchable(d)
    /\ \A d \in Devices : JobsIn(d, {"collected", "rejected"}) = {}
    /\ entry' = [d \in Devices |->
                   IF d \in due THEN [entry[d] EXCEPT !.InFlight = TRUE]
                                ELSE entry[d]]
    /\ jobs' = [d \in Devices |->
                  IF d \in due
                  THEN [jobs[d] EXCEPT ![FreeSlot(d)] = JobFor(d)]
                  ELSE jobs[d]]
    /\ UNCHANGED <<databaseVars, deviceMap, gen, tracker, reconciler>>

\* Enqueue never blocks: a full queue rejects the job.
Enqueue(d, s) ==
    /\ jobs[d][s].stage = "collected"
    /\ \A e \in Devices : JobsIn(e, {"rejected"}) = {}
    /\ IF Cardinality(QueuedAt(jobs[d][s].prio)) < QueueSize[jobs[d][s].prio]
       THEN SetStage(d, s, "queued")
       ELSE SetStage(d, s, "rejected")
    /\ UNCHANGED <<databaseVars, dispatchVars, tracker, reconciler>>

\* Done and retrySoon look the entry up by device id when they run.
ClearInFlight(d) ==
    entry' = IF d \in deviceMap THEN [entry EXCEPT ![d].InFlight = FALSE]
                                ELSE entry

\* Seeded fault: a rejected job leaves its entry marked in flight.
RetrySoonMarked(d, s) ==
    /\ jobs[d][s].stage = "rejected"
    /\ Release(d, s)
    /\ UNCHANGED <<databaseVars, dispatchVars, tracker, reconciler>>

RetrySoon(d, s) ==
    /\ jobs[d][s].stage = "rejected"
    /\ ClearInFlight(d)
    /\ Release(d, s)
    /\ UNCHANGED <<databaseVars, deviceMap, gen, tracker, reconciler>>

-----------------------------------------------------------------------------
(***************************************************************************)
(* The workers.                                                            *)
(***************************************************************************)
\* Seeded fault: no worker listens to the low-priority queue.
TakeJobNotLow(d, s) ==
    /\ jobs[d][s].prio # 2
    /\ jobs[d][s].stage = "queued"
    /\ Cardinality(Busy) < WorkerCount
    /\ SetStage(d, s, "running")
    /\ UNCHANGED <<databaseVars, dispatchVars, tracker, reconciler>>

TakeJob(d, s) ==
    /\ jobs[d][s].stage = "queued"
    /\ Cardinality(Busy) < WorkerCount
    /\ SetStage(d, s, "running")
    /\ UNCHANGED <<databaseVars, dispatchVars, tracker, reconciler>>

\* What a poll of d can report now.  A panicking collector reports "down".
Outcomes(d) == IF d \in reachable THEN Statuses \ {"down"} ELSE {"down"}

\* The poll ends and handlePollResult starts with Done, before anything of
\* the result is recorded.
FinishPoll(d, s, status) ==
    /\ jobs[d][s].stage = "running"
    /\ status \in Outcomes(d)
    /\ ClearInFlight(d)
    /\ jobs' = [jobs EXCEPT ![d][s].stage = "record", ![d][s].status = status]
    /\ UNCHANGED <<databaseVars, deviceMap, gen, tracker, reconciler>>

\* Seeded fault: the early return comes before Done.
SkipPollUndone(d, s) ==
    /\ jobs[d][s].stage = "running"
    /\ Release(d, s)
    /\ UNCHANGED <<databaseVars, dispatchVars, tracker, reconciler>>

\* An operational error (lock contention, unknown protocol, shutdown): the
\* early return after Done.
SkipPoll(d, s) ==
    /\ jobs[d][s].stage = "running"
    /\ ClearInFlight(d)
    /\ Release(d, s)
    /\ UNCHANGED <<databaseVars, deviceMap, gen, tracker, reconciler>>

\* Failures saturate at UnreachableAfter: nothing here tells larger ones apart.
Bump(n) == IF n < UnreachableAfter THEN n + 1 ELSE n

RecordFailure(e) ==
    [e EXCEPT !.Failures = Bump(@),
              !.State = IF Bump(e.Failures) >= UnreachableAfter
                        THEN "unreachable" ELSE @]

RecordSuccess(e) == [e EXCEPT !.Failures = 0, !.State = "healthy"]

\* dispatcher.RecordFailure / RecordSuccess
RecordHealth(d, s) ==
    /\ jobs[d][s].stage = "record"
    /\ entry' = IF d \notin deviceMap THEN entry
                ELSE [entry EXCEPT ![d] =
                        IF jobs[d][s].status = "down" THEN RecordFailure(@)
                                                      ELSE RecordSuccess(@)]
    /\ SetStage(d, s, "track")
    /\ UNCHANGED <<databaseVars, deviceMap, gen, tracker, reconciler>>

\* stateTracker.RecordFailure / RecordSuccess: creates the record if absent.
TrackHealth(d, s) ==
    /\ jobs[d][s].stage = "track"
    /\ tracker' = [tracker EXCEPT ![d] =
                     IF jobs[d][s].status # "down" THEN 0
                     ELSE IF @ = -1 THEN 1 ELSE Bump(@)]
    /\ SetStage(d, s, "status")
    /\ UNCHANGED <<databaseVars, dispatchVars, reconciler>>

RecordStatus(d, s) ==
    /\ jobs[d][s].stage = "status"
    /\ entry' = IF d \notin deviceMap THEN entry
                ELSE [entry EXCEPT ![d].LastStatus = jobs[d][s].status]
    /\ SetStage(d, s, "submit")
    /\ UNCHANGED <<databaseVars, deviceMap, gen, tracker, reconciler>>

\* pipeline.Submit: the result enters the pipeline or, after five seconds
\* of a full channel, is dropped.  Either way the worker is free again.
Submit(d, s) ==
    /\ jobs[d][s].stage = "submit"
    /\ Release(d, s)
    /\ UNCHANGED <<databaseVars, dispatchVars, tracker, reconciler>>

-----------------------------------------------------------------------------
Init ==
    /\ enabled \in SUBSET Devices
    /\ edits = 0
    /\ reachable = Devices
    /\ deviceMap = {}
    /\ entry = [d \in Devices |-> NewEntry]
    /\ gen = [d \in Devices |-> 0]
    /\ tracker = [d \in Devices |-> -1]
    /\ jobs = [d \in Devices |-> [s \in Slots |-> FreeJob]]
    /\ reconciler = [pc |-> "idle", current |-> {}, todo |-> {}]

Reconcile ==
    \/ ReconcileFetch \/ ReconcileList \/ ReconcileUntrack \/ ReconcileEnd
    \/ \E d \in Devices : ReconcileUpsert(d) \/ ReconcileRemove(d)

Dispatch ==
    \/ \E due \in SUBSET Devices \ {{}} : DispatchDue(due)
    \/ \E d \in Devices, s \in Slots : Enqueue(d, s) \/ RetrySoon(d, s)

HandleResult(d, s) ==
    RecordHealth(d, s) \/ TrackHealth(d, s) \/ RecordStatus(d, s) \/ Submit(d, s)

Work ==
    \E d \in Devices, s \in Slots :
        \/ TakeJob(d, s)
        \/ \E status \in Statuses : FinishPoll(d, s, status)
        \/ SkipPoll(d, s)
        \/ HandleResult(d, s)

Environment == \E d \in Devices : EditDevice(d) \/ Flap(d)

Next == Reconcile \/ Dispatch \/ Work \/ Environment

Spec == Init /\ [][Next]_vars

(***************************************************************************)
(* Fairness.  The goroutines keep running: the reconcile ticker fires, a   *)
(* scheduled entry keeps coming due, workers take what is queued and       *)
(* finish what they hold (every poll has a deadline).  dispatchDue takes    *)
(* every due entry of the heap in each pass, so an entry that stays due is  *)
(* not passed over for ever; a poll attempted over and over is not skipped  *)
(* every time.                                                             *)
(***************************************************************************)
Fairness ==
    /\ WF_vars(Reconcile)
    /\ WF_vars(\E d \in Devices, s \in Slots : Enqueue(d, s) \/ RetrySoon(d, s))
    /\ \A d \in Devices :
         SF_vars(\E due \in SUBSET Devices : d \in due /\ DispatchDue(due))
    /\ \A d \in Devices, s \in Slots :
         /\ SF_vars(TakeJob(d, s))
         /\ WF_vars(SkipPoll(d, s) \/ \E st \in Statuses : FinishPoll(d, s, st))
         /\ SF_vars(\E st \in Statuses : FinishPoll(d, s, st))
         /\ WF_vars(HandleResult(d, s))

FairSpec == Spec /\ Fairness

-----------------------------------------------------------------------------
(***************************************************************************)
(* Properties.                                                             *)
(***************************************************************************)
\* Every variable keeps its type.
TypeOK ==
    /\ enabled \subseteq Devices /\ reachable \subseteq Devices
    /\ edits \in Nat
    /\ deviceMap \subseteq Devices
    /\ entry \in [Devices -> Entry]
    /\ gen \in [Devices -> Nat]
    /\ tracker \in [Devices -> -1..UnreachableAfter]
    /\ jobs \in [Devices -> [Slots -> Job]]
    /\ reconciler \in Pass

\* An entry marked InFlight always has a job of its own generation on the
\* way that will clear the mark (Done or retrySoon).  A mark without a job
\* would make dispatchDue skip the device for ever.
InFlightHasJob ==
    \A d \in deviceMap :
        entry[d].InFlight =>
            \E s \in Slots : /\ jobs[d][s].stage \in Outstanding
                             /\ jobs[d][s].gen = gen[d]

\* InFlight is the only brake on duplicate polls, and Done clears it by
\* device id.  What it guarantees: the jobs of a device that are collected,
\* queued or running never outnumber the times the device was (re)added,
\* and a dispatchable entry leaves room for the next one.
PollsBoundedByAdds ==
    \A d \in Devices :
        Cardinality(JobsIn(d, Outstanding)) +
            (IF d \in deviceMap /\ ~ entry[d].InFlight THEN 1 ELSE 0) <= gen[d]

\* A device that is scheduled is polled again, unless it is unscheduled:
\* backoff, full queues, skipped polls and reconcile passes never leave an
\* entry that no worker will run.
PolledAgain ==
    \A d \in Devices :
        (d \in deviceMap) ~> (JobsIn(d, {"running"}) # {} \/ d \notin deviceMap)

\* A device that stays enabled and answers its polls does not stay marked
\* unreachable, whatever failures were recorded before.
Recovers ==
    \A d \in Devices :
        <>[](d \in enabled /\ d \in reachable)
            => <>[](d \in deviceMap /\ entry[d].State = "healthy")

\* A device that stays disabled ends with no entry and no job anywhere.
DisabledQuiesces ==
    \A d \in Devices :
        <>[](d \notin enabled)
            => <>[](d \notin deviceMap /\ JobsIn(d, Outstanding \cup Handling) = {})

\* Enabled devices go on being polled, come back from backoff, and disabled
\* ones come to rest (scheduler.go, poll_dispatcher.go).
PollingLives ==
    /\ PolledAgain
    /\ Recovers
    /\ DisabledQuiesces

\* An instance for TLC: one place in each queue, so that a second job of the same
\* priority is rejected.
TightQueues == [p \in 0..2 |-> 1]
=============================================================================
