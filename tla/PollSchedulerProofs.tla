------------------------ MODULE PollSchedulerProofs ------------------------
(***************************************************************************)
(* Proofs about PollScheduler for every set of devices, every pool size,   *)
(* every queue capacity and any number of operator edits.                  *)
(***************************************************************************)
EXTENDS PollScheduler, FiniteSetTheorems, TLAPS

\* The job dispatchDue builds is a job of the entry's own generation.
LEMMA JobForType ==
    ASSUME TypeOK, NEW d \in Devices
    PROVE  /\ JobFor(d) \in Job
           /\ JobFor(d).stage = "collected"
           /\ JobFor(d).gen = gen[d]
<1>1. entry[d] \in Entry /\ gen[d] \in Nat
    BY DEF TypeOK
<1>2. /\ (IF entry[d].LastStatus # "none" THEN entry[d].LastStatus ELSE "db")
             \in Statuses \cup {"none", "db"}
      /\ (IF entry[d].State = "unreachable" THEN 2
          ELSE IF d \in Critical THEN 0 ELSE 1) \in 0..2
    BY <1>1 DEF Entry
<1>. QED
    BY <1>1, <1>2 DEF JobFor, Job, Outstanding, Handling

\* FreeSlot picks a slot that holds no job.
LEMMA FreeSlotIsFree ==
    ASSUME NEW d \in Devices, JobsIn(d, {"free"}) # {}
    PROVE  FreeSlot(d) \in Slots /\ jobs[d][FreeSlot(d)].stage = "free"
BY DEF FreeSlot, JobsIn

\* What a poll records keeps an entry an entry.
LEMMA RecordType ==
    ASSUME NEW e \in Entry
    PROVE  /\ RecordFailure(e) \in Entry /\ RecordFailure(e).InFlight = e.InFlight
           /\ RecordSuccess(e) \in Entry /\ RecordSuccess(e).InFlight = e.InFlight
<1>1. /\ Bump(e.Failures) \in 0..UnreachableAfter
      /\ e.State \in {"healthy", "unreachable"}
      /\ e.LastStatus \in Statuses \cup {"none"}
      /\ e.InFlight \in BOOLEAN
    BY SchedulerAssumption DEF Bump, Entry
<1>2. ASSUME NEW f \in 0..UnreachableAfter,
             NEW st \in {"healthy", "unreachable"}
      PROVE  /\ [e EXCEPT !.Failures = f, !.State = st] \in Entry
             /\ [e EXCEPT !.Failures = f, !.State = st].InFlight = e.InFlight
    BY <1>2 DEF Entry
<1>3. (IF Bump(e.Failures) >= UnreachableAfter THEN "unreachable" ELSE e.State)
        \in {"healthy", "unreachable"}
    BY <1>1
<1>4. 0 \in 0..UnreachableAfter
    BY SchedulerAssumption
<1>5. RecordFailure(e) \in Entry /\ RecordFailure(e).InFlight = e.InFlight
    BY <1>1, <1>2, <1>3 DEF RecordFailure
<1>6. RecordSuccess(e) \in Entry /\ RecordSuccess(e).InFlight = e.InFlight
    BY <1>2, <1>4 DEF RecordSuccess
<1>. QED
    BY <1>5, <1>6

\* Setting or clearing the in-flight mark touches nothing else.
LEMMA InFlightType ==
    ASSUME NEW e \in Entry, NEW b \in BOOLEAN
    PROVE  [e EXCEPT !.InFlight = b] \in Entry
<1>1. [e EXCEPT !.InFlight = b] =
        [State |-> e.State, Failures |-> e.Failures,
         LastStatus |-> e.LastStatus, InFlight |-> b]
    BY DEF Entry
<1>. QED
    BY <1>1 DEF Entry

\* Done and retrySoon keep the entries well typed.
LEMMA ClearInFlightType ==
    ASSUME TypeOK, NEW d \in Devices, ClearInFlight(d)
    PROVE  entry' \in [Devices -> Entry]
<1>1. [entry[d] EXCEPT !.InFlight = FALSE] \in Entry
    BY InFlightType DEF TypeOK
<1>. QED
    BY <1>1 DEF ClearInFlight, TypeOK

\* Moving a job to another stage, or releasing it, keeps the jobs well typed.
LEMMA JobUpdateType ==
    ASSUME TypeOK, NEW d \in Devices, NEW s \in Slots,
           \/ Release(d, s)
           \/ \E stage \in {"free"} \cup Outstanding \cup Handling :
                 SetStage(d, s, stage)
    PROVE  jobs' \in [Devices -> [Slots -> Job]]
<1>1. FreeJob \in Job
    BY DEF FreeJob, Job
<1>2. CASE Release(d, s)
    BY <1>1, <1>2 DEF Release, TypeOK
<1>3. ASSUME NEW stage \in {"free"} \cup Outstanding \cup Handling,
             SetStage(d, s, stage)
      PROVE  jobs' \in [Devices -> [Slots -> Job]]
    <2>0. jobs[d][s] \in Job
        BY DEF TypeOK
    <2>1. [jobs[d][s] EXCEPT !.stage = stage] \in Job
        BY <2>0 DEF Job
    <2>. QED
        BY <1>3, <2>1 DEF SetStage, TypeOK
<1>. QED
    BY <1>2, <1>3

LEMMA TypeInit == Init => TypeOK
<1>. SUFFICES ASSUME Init PROVE TypeOK
    OBVIOUS
<1>1. NewEntry \in Entry
    BY SchedulerAssumption DEF NewEntry, Entry
<1>2. FreeJob \in Job
    BY DEF FreeJob, Job
<1>3. [pc |-> "idle", current |-> {}, todo |-> {}] \in Pass
    BY DEF Pass
<1>4. -1 \in -1..UnreachableAfter
    BY SchedulerAssumption
<1>. QED
    BY <1>1, <1>2, <1>3, <1>4 DEF Init, TypeOK

\* Every step of the goroutines and of the environment keeps the types.
LEMMA TypeStep == TypeOK /\ [Next]_vars => TypeOK'
<1>. SUFFICES ASSUME TypeOK, [Next]_vars PROVE TypeOK'
    OBVIOUS
<1>. USE SchedulerAssumption DEF databaseVars, dispatchVars
<1>1. CASE UNCHANGED vars
    BY <1>1 DEF vars, TypeOK
<1>2. ASSUME NEW d \in Devices, EditDevice(d) \/ Flap(d) PROVE TypeOK'
    BY <1>2 DEF EditDevice, Flap, TypeOK
<1>3. CASE ReconcileFetch \/ ReconcileList \/ ReconcileEnd
    <2>1. reconciler \in Pass /\ enabled \subseteq Devices
                             /\ deviceMap \subseteq Devices
        BY DEF TypeOK
    <2>2. reconciler' \in Pass
        <3>1. CASE ReconcileFetch \/ ReconcileEnd
            BY <3>1, <2>1 DEF ReconcileFetch, ReconcileEnd, Pass
        <3>2. CASE ReconcileList
            <4>1. deviceMap \ reconciler.current \in SUBSET Devices
                BY <2>1
            <4>2. ASSUME NEW S \in SUBSET Devices
                  PROVE [reconciler EXCEPT !.pc = "remove", !.todo = S] \in Pass
                BY <2>1 DEF Pass
            <4>. QED
                BY <3>2, <4>1, <4>2 DEF ReconcileList
        <3>. QED
            BY <1>3, <3>1, <3>2
    <2>. QED
        BY <1>3, <2>2 DEF ReconcileFetch, ReconcileList, ReconcileEnd, TypeOK
<1>4. CASE ReconcileUntrack
    <2>1. reconciler \in Pass /\ tracker \in [Devices -> -1..UnreachableAfter]
        BY DEF TypeOK
    <2>2. reconciler' \in Pass
        BY <1>4, <2>1 DEF ReconcileUntrack, Pass
    <2>3. tracker' \in [Devices -> -1..UnreachableAfter]
        BY <1>4, <2>1 DEF ReconcileUntrack
    <2>. QED
        BY <1>4, <2>2, <2>3 DEF ReconcileUntrack, TypeOK
<1>5. ASSUME NEW d \in Devices, ReconcileUpsert(d) \/ ReconcileRemove(d)
      PROVE TypeOK'
    <2>1. NewEntry \in Entry
        BY DEF NewEntry, Entry
    <2>2. reconciler \in Pass /\ entry \in [Devices -> Entry]
                             /\ gen \in [Devices -> Nat]
        BY DEF TypeOK
    <2>3. reconciler' \in Pass
        <3>1. ASSUME NEW S \in SUBSET Devices
              PROVE  /\ [reconciler EXCEPT !.todo = S] \in Pass
                     /\ [reconciler EXCEPT !.pc = "untrack", !.current = {d},
                                          !.todo = S] \in Pass
            BY <2>2 DEF Pass
        <3>2. reconciler.todo \ {d} \in SUBSET Devices
            BY <2>2 DEF Pass
        <3>. QED
            BY <1>5, <3>1, <3>2 DEF ReconcileUpsert, ReconcileRemove
    <2>4. entry' \in [Devices -> Entry] /\ gen' \in [Devices -> Nat]
        BY <1>5, <2>1, <2>2
        DEF ReconcileUpsert, ReconcileRemove, Upsert, Remove
    <2>. QED
        BY <1>5, <2>1, <2>3, <2>4
        DEF ReconcileUpsert, ReconcileRemove, Upsert, Remove, TypeOK
<1>6. ASSUME NEW due \in SUBSET Devices, DispatchDue(due) PROVE TypeOK'
    <2>1. entry' \in [Devices -> Entry]
        BY <1>6, InFlightType DEF DispatchDue, TypeOK
    <2>2. \A d \in due : FreeSlot(d) \in Slots /\ JobFor(d) \in Job
        BY <1>6, JobForType, FreeSlotIsFree DEF DispatchDue, Dispatchable
    <2>3. jobs' \in [Devices -> [Slots -> Job]]
        BY <1>6, <2>2 DEF DispatchDue, TypeOK
    <2>. QED
        BY <1>6, <2>1, <2>3 DEF DispatchDue, TypeOK
<1>7. ASSUME NEW d \in Devices, NEW s \in Slots,
             Enqueue(d, s) \/ TakeJob(d, s) \/ Submit(d, s)
      PROVE TypeOK'
    <2>1. jobs' \in [Devices -> [Slots -> Job]]
        BY <1>7, JobUpdateType DEF Enqueue, TakeJob, Submit, Outstanding
    <2>. QED
        BY <1>7, <2>1 DEF Enqueue, TakeJob, Submit, TypeOK
<1>8. ASSUME NEW d \in Devices, NEW s \in Slots,
             RetrySoon(d, s) \/ SkipPoll(d, s)
      PROVE TypeOK'
    <2>1. jobs' \in [Devices -> [Slots -> Job]]
        BY <1>8, JobUpdateType DEF RetrySoon, SkipPoll
    <2>2. entry' \in [Devices -> Entry]
        BY <1>8, ClearInFlightType DEF RetrySoon, SkipPoll
    <2>. QED
        BY <1>8, <2>1, <2>2 DEF RetrySoon, SkipPoll, TypeOK
<1>9. ASSUME NEW d \in Devices, NEW s \in Slots, NEW status \in Statuses,
             FinishPoll(d, s, status)
      PROVE TypeOK'
    <2>0. jobs[d][s] \in Job
        BY DEF TypeOK
    <2>1. [jobs[d][s] EXCEPT !.stage = "record", !.status = status] \in Job
        BY <2>0 DEF Job, Handling
    <2>2. entry' \in [Devices -> Entry]
        BY <1>9, ClearInFlightType DEF FinishPoll
    <2>3. jobs' \in [Devices -> [Slots -> Job]]
        BY <1>9, <2>1 DEF FinishPoll, TypeOK
    <2>. QED
        BY <1>9, <2>2, <2>3 DEF FinishPoll, TypeOK
<1>10. ASSUME NEW d \in Devices, NEW s \in Slots,
              RecordHealth(d, s) \/ TrackHealth(d, s) \/ RecordStatus(d, s)
       PROVE TypeOK'
    <2>1. jobs' \in [Devices -> [Slots -> Job]]
        BY <1>10, JobUpdateType DEF RecordHealth, TrackHealth, RecordStatus, Handling
    <2>2. ASSUME RecordHealth(d, s) PROVE entry' \in [Devices -> Entry]
        BY <2>2, RecordType DEF RecordHealth, TypeOK
    <2>3. ASSUME RecordStatus(d, s) PROVE entry' \in [Devices -> Entry]
        <3>0. entry[d] \in Entry /\ jobs[d][s].status \in Statuses \cup {"none"}
            BY DEF TypeOK, Job
        <3>1. [entry[d] EXCEPT !.LastStatus = jobs[d][s].status] \in Entry
            BY <3>0 DEF Entry
        <3>. QED
            BY <2>3, <3>1 DEF RecordStatus, TypeOK
    <2>4. ASSUME TrackHealth(d, s)
          PROVE  tracker' \in [Devices -> -1..UnreachableAfter]
        <3>1. tracker[d] \in -1..UnreachableAfter
            BY DEF TypeOK
        <3>2. (IF jobs[d][s].status # "down" THEN 0
               ELSE IF tracker[d] = -1 THEN 1 ELSE Bump(tracker[d]))
                 \in -1..UnreachableAfter
            BY <3>1 DEF Bump
        <3>. QED
            BY <2>4, <3>2 DEF TrackHealth, TypeOK
    <2>. QED
        BY <1>10, <2>1, <2>2, <2>3, <2>4
        DEF RecordHealth, TrackHealth, RecordStatus, TypeOK
<1>. QED
    BY <1>1, <1>2, <1>3, <1>4, <1>5, <1>6, <1>7, <1>8, <1>9, <1>10
    DEF Next, Reconcile, Dispatch, Work, HandleResult, Environment

\* Type correctness of the scheduler.
THEOREM TypeCorrect == Spec => []TypeOK
BY TypeInit, TypeStep, PTL DEF Spec

-----------------------------------------------------------------------------
(***************************************************************************)
(* How the actions change jobs.                                            *)
(***************************************************************************)
\* SetStage changes the stage of one job and the generation of none.
LEMMA StageEffect ==
    ASSUME TypeOK, NEW d \in Devices, NEW s \in Slots, NEW stage,
           SetStage(d, s, stage)
    PROVE  \A e \in Devices, t \in Slots :
             /\ jobs'[e][t].gen = jobs[e][t].gen
             /\ jobs'[e][t].stage = IF e = d /\ t = s THEN stage
                                                    ELSE jobs[e][t].stage
BY DEF TypeOK, SetStage, Job

\* Release frees one slot and leaves every other job alone.
LEMMA ReleaseEffect ==
    ASSUME TypeOK, NEW d \in Devices, NEW s \in Slots, Release(d, s)
    PROVE  /\ jobs'[d][s].stage = "free"
           /\ \A e \in Devices, t \in Slots :
                (e # d \/ t # s) => jobs'[e][t] = jobs[e][t]
BY DEF TypeOK, Release, FreeJob

\* The end of a poll takes its job out of the outstanding ones.
LEMMA FinishEffect ==
    ASSUME TypeOK, NEW d \in Devices, NEW s \in Slots, NEW status,
           FinishPoll(d, s, status)
    PROVE  /\ jobs'[d][s].stage = "record"
           /\ \A e \in Devices, t \in Slots :
                (e # d \/ t # s) => jobs'[e][t] = jobs[e][t]
BY DEF TypeOK, FinishPoll, Job

\* Done and retrySoon clear the mark of one entry, if it is scheduled.
LEMMA ClearInFlightEffect ==
    ASSUME TypeOK, NEW d \in Devices, ClearInFlight(d)
    PROVE  /\ d \in deviceMap => entry'[d].InFlight = FALSE
           /\ \A e \in Devices : e # d => entry'[e] = entry[e]
BY DEF TypeOK, ClearInFlight, Entry

\* The jobs a dispatch pass creates, each in a slot that was free.
LEMMA DispatchEffect ==
    ASSUME TypeOK, NEW due \in SUBSET Devices, DispatchDue(due)
    PROVE  /\ \A d \in due :
                /\ FreeSlot(d) \in Slots
                /\ jobs[d][FreeSlot(d)].stage = "free"
                /\ jobs'[d][FreeSlot(d)].stage = "collected"
                /\ jobs'[d][FreeSlot(d)].gen = gen[d]
                /\ \A t \in Slots : t # FreeSlot(d) => jobs'[d][t] = jobs[d][t]
                /\ d \in deviceMap /\ ~ entry[d].InFlight
                /\ entry'[d].InFlight
           /\ \A d \in Devices \ due : jobs'[d] = jobs[d] /\ entry'[d] = entry[d]
<1>1. ASSUME NEW d \in due
      PROVE  /\ FreeSlot(d) \in Slots
             /\ jobs[d][FreeSlot(d)].stage = "free"
             /\ d \in deviceMap /\ ~ entry[d].InFlight
    BY FreeSlotIsFree DEF DispatchDue, Dispatchable
<1>2. ASSUME NEW d \in due
      PROVE  jobs'[d] = [jobs[d] EXCEPT ![FreeSlot(d)] = JobFor(d)]
    BY DEF DispatchDue
<1>3. ASSUME NEW d \in due
      PROVE  /\ jobs'[d][FreeSlot(d)] = JobFor(d)
             /\ \A t \in Slots : t # FreeSlot(d) => jobs'[d][t] = jobs[d][t]
    <2>1. PICK s, j : s = FreeSlot(d) /\ j = JobFor(d)
        OBVIOUS
    <2>2. s \in Slots /\ DOMAIN jobs[d] = Slots /\ jobs'[d] = [jobs[d] EXCEPT ![s] = j]
        BY <1>1, <1>2, <1>3, <2>1 DEF TypeOK
    <2>. QED
        BY <2>1, <2>2
<1>4. ASSUME NEW d \in due PROVE entry'[d].InFlight
    <2>1. entry'[d] = [entry[d] EXCEPT !.InFlight = TRUE]
        BY DEF DispatchDue
    <2>2. entry[d] \in Entry
        BY DEF TypeOK
    <2>. QED
        BY <2>1, <2>2 DEF Entry
<1>5. \A d \in Devices \ due : jobs'[d] = jobs[d] /\ entry'[d] = entry[d]
    BY DEF DispatchDue
<1>6. ASSUME NEW d \in due
      PROVE  /\ jobs'[d][FreeSlot(d)].stage = "collected"
             /\ jobs'[d][FreeSlot(d)].gen = gen[d]
    BY <1>3, JobForType
<1>. QED
    BY <1>1, <1>3, <1>4, <1>5, <1>6, Zenon

-----------------------------------------------------------------------------
(***************************************************************************)
(* A marked entry always has the job that will clear its mark.  With the   *)
(* types the property is inductive as it stands: the job that set the mark *)
(* carries the entry's generation, and it leaves the outstanding jobs only *)
(* in a step that also clears the mark of whatever entry the id now has.   *)
(***************************************************************************)
\* The witness survives a step that keeps the mark, the generation and the
\* outstanding jobs of the device.
LEMMA WitnessKept ==
    ASSUME TypeOK, InFlightHasJob, NEW x \in deviceMap, x \in deviceMap',
           entry'[x].InFlight => entry[x].InFlight, gen'[x] = gen[x],
           \A t \in Slots : jobs[x][t].stage \in Outstanding =>
               /\ jobs'[x][t].stage \in Outstanding
               /\ jobs'[x][t].gen = jobs[x][t].gen
    PROVE  entry'[x].InFlight =>
             \E s \in Slots : /\ jobs'[x][s].stage \in Outstanding
                              /\ jobs'[x][s].gen = gen'[x]
BY DEF InFlightHasJob

LEMMA InFlightHasJobStep ==
    TypeOK /\ InFlightHasJob /\ [Next]_vars => InFlightHasJob'
<1>. SUFFICES ASSUME TypeOK, InFlightHasJob, [Next]_vars,
                     NEW x \in deviceMap', entry'[x].InFlight
              PROVE  \E s \in Slots : /\ jobs'[x][s].stage \in Outstanding
                                      /\ jobs'[x][s].gen = gen'[x]
    BY DEF InFlightHasJob
<1>. DEFINE Kept == \E s \in Slots : /\ jobs'[x][s].stage \in Outstanding
                                     /\ jobs'[x][s].gen = gen'[x]
<1>. USE DEF databaseVars, dispatchVars
<1>0. x \in Devices
    BY TypeStep DEF TypeOK
<1>1. CASE UNCHANGED vars
    BY <1>1, WitnessKept DEF vars
<1>2. ASSUME NEW d \in Devices, EditDevice(d) \/ Flap(d) PROVE Kept
    BY <1>2, WitnessKept DEF EditDevice, Flap
<1>3. CASE ReconcileFetch \/ ReconcileList \/ ReconcileUntrack \/ ReconcileEnd
    BY <1>3, WitnessKept
    DEF ReconcileFetch, ReconcileList, ReconcileUntrack, ReconcileEnd
<1>4. ASSUME NEW d \in Devices, ReconcileUpsert(d) PROVE Kept
    <2>1. CASE x \in deviceMap
        <3>1. entry'[x] = entry[x] /\ gen'[x] = gen[x] /\ jobs' = jobs
            BY <1>0, <1>4, <2>1 DEF ReconcileUpsert, Upsert, TypeOK
        <3>. QED
            BY <3>1, <2>1, WitnessKept
    <2>2. CASE x \notin deviceMap
        <3>1. x = d /\ entry'[x] = NewEntry
            BY <1>0, <1>4, <2>2 DEF ReconcileUpsert, Upsert, TypeOK
        <3>. QED
            BY <3>1 DEF NewEntry
    <2>. QED
        BY <2>1, <2>2
<1>5. ASSUME NEW d \in Devices, ReconcileRemove(d) PROVE Kept
    <2>1. /\ x \in deviceMap /\ x # d
          /\ entry'[x] = entry[x] /\ gen' = gen /\ jobs' = jobs
        BY <1>0, <1>5 DEF ReconcileRemove, Remove, TypeOK
    <2>. QED
        BY <2>1, WitnessKept
<1>6. ASSUME NEW due \in SUBSET Devices, DispatchDue(due) PROVE Kept
    <2>1. deviceMap' = deviceMap /\ gen' = gen
        BY <1>6 DEF DispatchDue
    <2>2. CASE x \in due
        <3>1. /\ FreeSlot(x) \in Slots
              /\ jobs'[x][FreeSlot(x)].stage = "collected"
              /\ jobs'[x][FreeSlot(x)].gen = gen[x]
            BY <1>6, <2>2, DispatchEffect, Zenon
        <3>. QED
            BY <2>1, <3>1 DEF Outstanding
    <2>3. CASE x \notin due
        <3>1. jobs'[x] = jobs[x] /\ entry'[x] = entry[x]
            BY <1>0, <1>6, <2>3, DispatchEffect
        <3>. QED
            BY <2>1, <3>1, WitnessKept
    <2>. QED
        BY <2>2, <2>3
<1>7. ASSUME NEW d \in Devices, NEW s \in Slots, Enqueue(d, s) \/ TakeJob(d, s)
      PROVE  Kept
    <2>1. deviceMap' = deviceMap /\ gen' = gen /\ entry' = entry
        BY <1>7 DEF Enqueue, TakeJob
    <2>2. \A t \in Slots : jobs[x][t].stage \in Outstanding =>
            /\ jobs'[x][t].stage \in Outstanding
            /\ jobs'[x][t].gen = jobs[x][t].gen
        BY <1>0, <1>7, StageEffect DEF Enqueue, TakeJob, Outstanding
    <2>. QED
        BY <2>1, <2>2, WitnessKept
<1>8. ASSUME NEW d \in Devices, NEW s \in Slots,
             \/ RetrySoon(d, s) \/ SkipPoll(d, s)
             \/ \E status \in Statuses : FinishPoll(d, s, status)
      PROVE  Kept
    <2>1. /\ deviceMap' = deviceMap /\ gen' = gen /\ ClearInFlight(d)
          /\ \A e \in Devices, t \in Slots : e # d => jobs'[e][t] = jobs[e][t]
        BY <1>8, ReleaseEffect, FinishEffect DEF RetrySoon, SkipPoll, FinishPoll
    <2>2. x # d /\ entry'[x] = entry[x]
        BY <1>0, <2>1, ClearInFlightEffect
    <2>. QED
        BY <1>0, <2>1, <2>2, WitnessKept
<1>9. ASSUME NEW d \in Devices, NEW s \in Slots, HandleResult(d, s) PROVE Kept
    <2>1. deviceMap' = deviceMap /\ gen' = gen
        BY <1>9 DEF HandleResult, RecordHealth, TrackHealth, RecordStatus, Submit
    <2>2. entry'[x].InFlight = entry[x].InFlight
        <3>1. CASE RecordHealth(d, s)
            BY <1>0, <3>1, RecordType DEF RecordHealth, TypeOK
        <3>2. CASE RecordStatus(d, s)
            BY <1>0, <3>2 DEF RecordStatus, TypeOK, Entry
        <3>. QED
            BY <1>9, <3>1, <3>2 DEF HandleResult, TrackHealth, Submit
    <2>3. jobs[d][s].stage \notin Outstanding
        BY <1>9 DEF HandleResult, RecordHealth, TrackHealth, RecordStatus, Submit,
                    Outstanding
    <2>4. \A t \in Slots : jobs[x][t].stage \in Outstanding =>
            /\ jobs'[x][t].stage \in Outstanding
            /\ jobs'[x][t].gen = jobs[x][t].gen
        BY <1>0, <1>9, <2>3, StageEffect, ReleaseEffect
        DEF HandleResult, RecordHealth, TrackHealth, RecordStatus, Submit
    <2>. QED
        BY <2>1, <2>2, <2>4, WitnessKept
<1>. QED
    BY <1>1, <1>2, <1>3, <1>4, <1>5, <1>6, <1>7, <1>8, <1>9
    DEF Next, Reconcile, Dispatch, Work, Environment

\* No entry is ever marked in flight without a job on its way: a scheduled
\* device cannot drop out of polling because of a stuck mark.
THEOREM InFlightAlwaysHasJob == Spec => []InFlightHasJob
<1>1. Init => InFlightHasJob
    BY DEF Init, InFlightHasJob
<1>. QED
    BY <1>1, TypeCorrect, InFlightHasJobStep, PTL DEF Spec

-----------------------------------------------------------------------------
(***************************************************************************)
(* The outstanding jobs of a device never outnumber its entries.  Each     *)
(* entry lends one permit.  A dispatch uses the permit (the mark goes up), *)
(* every end of a job returns one (the mark comes down), a removal leaves  *)
(* it with the job in flight and a new entry brings another.               *)
(***************************************************************************)
Outs(d) == JobsIn(d, Outstanding)

\* The permit of an entry that may be dispatched.
Spare(d) == IF d \in deviceMap /\ ~ entry[d].InFlight THEN 1 ELSE 0

FiniteOuts == \A d \in Devices : IsFiniteSet(Outs(d))

Bounded == FiniteOuts /\ \A d \in Devices : Cardinality(Outs(d)) + Spare(d) <= gen[d]

LEMMA BoundedIsBound == Bounded => PollsBoundedByAdds
BY DEF Bounded, PollsBoundedByAdds, Outs, Spare

\* The bound survives when the jobs of a device stay and its spare permits
\* grow no faster than its entries.
LEMMA BoundKept ==
    ASSUME Bounded, NEW d \in Devices, Outs(d)' = Outs(d),
           gen[d] \in Nat, gen'[d] \in Nat,
           Spare(d)' - Spare(d) <= gen'[d] - gen[d]
    PROVE  IsFiniteSet(Outs(d))' /\ Cardinality(Outs(d))' + Spare(d)' <= gen'[d]
<1>1. /\ IsFiniteSet(Outs(d)) /\ Cardinality(Outs(d)) \in Nat
      /\ Cardinality(Outs(d)) + Spare(d) <= gen[d]
    BY FS_CardinalityType DEF Bounded, FiniteOuts
<1>2. Spare(d) \in {0, 1} /\ Spare(d)' \in {0, 1}
    BY DEF Spare
<1>. QED
    BY <1>1, <1>2

\* It survives when one job leaves and the entry, if any, gets its permit.
LEMMA BoundAfterEnd ==
    ASSUME Bounded, NEW d \in Devices, NEW s \in Outs(d),
           Outs(d)' = Outs(d) \ {s}, gen[d] \in Nat, gen'[d] = gen[d]
    PROVE  IsFiniteSet(Outs(d))' /\ Cardinality(Outs(d))' + Spare(d)' <= gen'[d]
<1>1. /\ IsFiniteSet(Outs(d)) /\ Cardinality(Outs(d)) \in Nat
      /\ Cardinality(Outs(d)) + Spare(d) <= gen[d]
    BY FS_CardinalityType DEF Bounded, FiniteOuts
<1>2. /\ IsFiniteSet(Outs(d) \ {s})
      /\ Cardinality(Outs(d) \ {s}) = Cardinality(Outs(d)) - 1
    BY <1>1, FS_RemoveElement
<1>3. Spare(d) \in {0, 1} /\ Spare(d)' \in {0, 1}
    BY DEF Spare
<1>. QED
    BY <1>1, <1>2, <1>3

\* It survives when a dispatch turns the spare permit into a job.
LEMMA BoundAfterDispatch ==
    ASSUME Bounded, NEW d \in Devices, NEW s, s \notin Outs(d),
           Outs(d)' = Outs(d) \cup {s}, gen[d] \in Nat, gen'[d] = gen[d],
           Spare(d) = 1, Spare(d)' = 0
    PROVE  IsFiniteSet(Outs(d))' /\ Cardinality(Outs(d))' + Spare(d)' <= gen'[d]
<1>1. /\ IsFiniteSet(Outs(d)) /\ Cardinality(Outs(d)) \in Nat
      /\ Cardinality(Outs(d)) + 1 <= gen[d]
    BY FS_CardinalityType DEF Bounded, FiniteOuts
<1>2. /\ IsFiniteSet(Outs(d) \cup {s})
      /\ Cardinality(Outs(d) \cup {s}) = Cardinality(Outs(d)) + 1
    BY <1>1, FS_AddElement
<1>. QED
    BY <1>1, <1>2

LEMMA BoundedStep == TypeOK /\ Bounded /\ [Next]_vars => Bounded'
<1>. SUFFICES ASSUME TypeOK, Bounded, [Next]_vars, NEW x \in Devices
              PROVE  /\ IsFiniteSet(Outs(x))'
                     /\ Cardinality(Outs(x))' + Spare(x)' <= gen'[x]
    BY DEF Bounded, FiniteOuts
<1>. DEFINE Kept == /\ IsFiniteSet(Outs(x))'
                    /\ Cardinality(Outs(x))' + Spare(x)' <= gen'[x]
<1>. USE DEF databaseVars, dispatchVars
<1>0. gen[x] \in Nat /\ gen'[x] \in Nat
    BY TypeStep DEF TypeOK
<1>S. ASSUME Outs(x)' = Outs(x), Spare(x)' = Spare(x), gen'[x] = gen[x]
      PROVE  Kept
    <2>1. Spare(x) \in {0, 1}
        BY DEF Spare
    <2>. QED
        BY <1>0, <1>S, <2>1, BoundKept
<1>1. CASE UNCHANGED <<deviceMap, entry, gen, jobs>>
    BY <1>1, <1>S DEF Outs, JobsIn, Spare
<1>2. ASSUME NEW d \in Devices, ReconcileUpsert(d) PROVE Kept
    <2>1. Outs(x)' = Outs(x)
        BY <1>2 DEF ReconcileUpsert, Outs, JobsIn
    <2>2. CASE d # x \/ x \in deviceMap
        <3>1. entry'[x] = entry[x] /\ gen'[x] = gen[x]
              /\ (x \in deviceMap' <=> x \in deviceMap)
            BY <1>2, <2>2 DEF ReconcileUpsert, Upsert, TypeOK
        <3>. QED
            BY <2>1, <3>1, <1>S DEF Spare
    <2>3. CASE d = x /\ x \notin deviceMap
        <3>1. gen'[x] = gen[x] + 1
            BY <1>2, <2>3 DEF ReconcileUpsert, Upsert, TypeOK
        <3>2. Spare(x) = 0 /\ Spare(x)' \in {0, 1}
            BY <2>3 DEF Spare
        <3>. QED
            BY <1>0, <2>1, <3>1, <3>2, BoundKept
    <2>. QED
        BY <2>2, <2>3
<1>3. ASSUME NEW d \in Devices, ReconcileRemove(d) PROVE Kept
    <2>1. Outs(x)' = Outs(x) /\ gen' = gen
        BY <1>3 DEF ReconcileRemove, Remove, Outs, JobsIn
    <2>2. Spare(x)' = 0 \/ Spare(x)' = Spare(x)
        BY <1>3 DEF ReconcileRemove, Remove, Spare, TypeOK
    <2>3. Spare(x) \in {0, 1}
        BY DEF Spare
    <2>. QED
        BY <1>0, <2>1, <2>2, <2>3, BoundKept
<1>4. ASSUME NEW due \in SUBSET Devices, DispatchDue(due) PROVE Kept
    <2>1. deviceMap' = deviceMap /\ gen' = gen
        BY <1>4 DEF DispatchDue
    <2>2. CASE x \notin due
        <3>1. jobs'[x] = jobs[x] /\ entry'[x] = entry[x]
            BY <1>4, <2>2, DispatchEffect
        <3>. QED
            BY <2>1, <3>1, <1>S DEF Outs, JobsIn, Spare
    <2>3. CASE x \in due
        <3>. DEFINE f == FreeSlot(x)
        <3>1. /\ f \in Slots
              /\ jobs[x][f].stage = "free" /\ jobs'[x][f].stage = "collected"
              /\ \A t \in Slots : t # f => jobs'[x][t] = jobs[x][t]
              /\ x \in deviceMap /\ ~ entry[x].InFlight /\ entry'[x].InFlight
            BY <1>4, <2>3, DispatchEffect, Zenon
        <3>. HIDE DEF f
        <3>2. f \notin Outs(x) /\ Outs(x)' = Outs(x) \cup {f}
            BY <3>1 DEF Outs, JobsIn, Outstanding
        <3>3. Spare(x) = 1 /\ Spare(x)' = 0
            BY <2>1, <3>1 DEF Spare
        <3>. QED
            BY <1>0, <2>1, <3>2, <3>3, BoundAfterDispatch
    <2>. QED
        BY <2>2, <2>3
<1>5. ASSUME NEW d \in Devices, NEW s \in Slots, Enqueue(d, s) \/ TakeJob(d, s)
      PROVE  Kept
    <2>1. UNCHANGED <<deviceMap, gen, entry>>
        BY <1>5 DEF Enqueue, TakeJob
    <2>2. Outs(x)' = Outs(x)
        BY <1>5, StageEffect DEF Enqueue, TakeJob, Outs, JobsIn, Outstanding
    <2>. QED
        BY <2>1, <2>2, <1>S DEF Spare
<1>6. ASSUME NEW d \in Devices, NEW s \in Slots,
             \/ RetrySoon(d, s) \/ SkipPoll(d, s)
             \/ \E status \in Statuses : FinishPoll(d, s, status)
      PROVE  Kept
    <2>1. /\ UNCHANGED <<deviceMap, gen>> /\ ClearInFlight(d)
          /\ s \in Outs(d)
        BY <1>6 DEF RetrySoon, SkipPoll, FinishPoll, Outs, JobsIn, Outstanding
    <2>2. /\ jobs'[d][s].stage \notin Outstanding
          /\ \A e \in Devices, t \in Slots :
               (e # d \/ t # s) => jobs'[e][t] = jobs[e][t]
        BY <1>6, ReleaseEffect, FinishEffect
        DEF RetrySoon, SkipPoll, FinishPoll, Outstanding
    <2>3. CASE x = d
        <3>1. Outs(x)' = Outs(x) \ {s}
            BY <2>2, <2>3 DEF Outs, JobsIn
        <3>. QED
            BY <1>0, <2>1, <2>3, <3>1, BoundAfterEnd
    <2>4. CASE x # d
        <3>1. Outs(x)' = Outs(x) /\ entry'[x] = entry[x]
            BY <2>1, <2>2, <2>4, ClearInFlightEffect DEF Outs, JobsIn
        <3>. QED
            BY <2>1, <3>1, <1>S DEF Spare
    <2>. QED
        BY <2>3, <2>4
<1>7. ASSUME NEW d \in Devices, NEW s \in Slots, HandleResult(d, s) PROVE Kept
    <2>1. UNCHANGED <<deviceMap, gen>>
        BY <1>7 DEF HandleResult, RecordHealth, TrackHealth, RecordStatus, Submit
    <2>2. entry'[x].InFlight = entry[x].InFlight
        <3>1. CASE RecordHealth(d, s)
            BY <3>1, RecordType DEF RecordHealth, TypeOK
        <3>2. CASE RecordStatus(d, s)
            BY <3>2 DEF RecordStatus, TypeOK, Entry
        <3>. QED
            BY <1>7, <3>1, <3>2 DEF HandleResult, TrackHealth, Submit
    <2>3. Outs(x)' = Outs(x)
        <3>1. CASE Submit(d, s)
            BY <3>1, ReleaseEffect DEF Submit, Outs, JobsIn, Outstanding
        <3>2. CASE RecordHealth(d, s) \/ TrackHealth(d, s) \/ RecordStatus(d, s)
            BY <3>2, StageEffect
            DEF RecordHealth, TrackHealth, RecordStatus, Outs, JobsIn, Outstanding
        <3>. QED
            BY <1>7, <3>1, <3>2 DEF HandleResult
    <2>4. Spare(x)' = Spare(x)
        BY <2>1, <2>2 DEF Spare
    <2>. QED
        BY <2>1, <2>3, <2>4, <1>S
<1>8. CASE \/ UNCHANGED vars
           \/ \E d \in Devices : EditDevice(d) \/ Flap(d)
           \/ ReconcileFetch \/ ReconcileList \/ ReconcileUntrack \/ ReconcileEnd
    BY <1>1, <1>8 DEF vars, EditDevice, Flap, ReconcileFetch, ReconcileList,
                      ReconcileUntrack, ReconcileEnd
<1>. QED
    BY <1>2, <1>3, <1>4, <1>5, <1>6, <1>7, <1>8
    DEF Next, Reconcile, Dispatch, Work, Environment

LEMMA BoundedInit == Init => Bounded
<1>. SUFFICES ASSUME Init, NEW d \in Devices
              PROVE  IsFiniteSet(Outs(d)) /\ Cardinality(Outs(d)) + Spare(d) <= gen[d]
    BY DEF Bounded, FiniteOuts
<1>1. Outs(d) = {}
    BY DEF Init, Outs, JobsIn, FreeJob, Outstanding
<1>2. Spare(d) = 0 /\ gen[d] = 0
    BY DEF Init, Spare
<1>. QED
    BY <1>1, <1>2, FS_EmptySet

\* The polls of a device that are collected, queued or running at once never
\* outnumber the times it was added to the schedule: without a removal
\* followed by a new add, one device never has two polls in flight.
THEOREM PollsNeverOutnumberAdds == Spec => []PollsBoundedByAdds
BY BoundedInit, TypeCorrect, BoundedStep, BoundedIsBound, PTL DEF Spec
=============================================================================
