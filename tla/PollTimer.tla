----------------------------- MODULE PollTimer -----------------------------
(***************************************************************************)
(* internal/scheduler/poll_dispatcher.go with its clock: when each entry is *)
(* due, the one shared timer, the wakeup channel, backoff and retries.     *)
(* Complements PollScheduler, which leaves time out and keeps everything a *)
(* poll result does.  Pause and Resume, which only tests call, are left    *)
(* out.                                                                    *)
(*                                                                         *)
(* Times are relative to now, in ticks.  The dispatcher goroutine is       *)
(* prompt: time does not pass while its timer has fired, a wakeup waits or *)
(* a pass is under way.  Polls take any time.                              *)
(***************************************************************************)
EXTENDS Integers, FiniteSets

CONSTANTS
    Devices,      \* device ids
    Intervals,    \* poll intervals an operator may choose
    TwiceAfter,   \* failures that double the interval (2)
    FourAfter,    \* failures that quadruple it and mark unreachable (3)
    EightAfter,   \* failures that multiply it by eight (10)
    MinRetry      \* shortest delay after a full queue (2 s)

ASSUME TimerAssumption ==
    /\ Intervals \subseteq Nat \ {0} /\ Intervals # {} /\ IsFiniteSet(Intervals)
    /\ TwiceAfter \in Nat /\ FourAfter \in Nat /\ EightAfter \in Nat
    /\ 0 < TwiceAfter /\ TwiceAfter < FourAfter /\ FourAfter < EightAfter
    /\ MinRetry \in Nat \ {0}

Longest == CHOOSE i \in Intervals : \A j \in Intervals : j <= i

VARIABLES
    entries,   \* ids in deviceMap
    interval,  \* ScheduleEntry.Interval
    due,       \* ScheduleEntry.NextPollAt - now, negative when overdue
    failures,  \* ScheduleEntry.Failures
    inFlight,  \* ScheduleEntry.InFlight
    job,       \* the job of each device: none, collected, running
    outcome,   \* a finished poll whose health is not recorded yet
    timer,     \* time until the timer fires
    wakeup,    \* the wakeup channel holds a token
    phase,     \* the dispatcher goroutine: waiting or in a pass
    quiet,     \* ticks before another poll of the entry is wanted (history)
    hurried    \* entries moved closer without a wakeup since the timer was
               \* armed (history)

entryVars == <<entries, interval, due, failures, inFlight>>
vars == <<entryVars, job, outcome, timer, wakeup, phase, quiet, hurried>>

-----------------------------------------------------------------------------
Factor(n) == IF n >= EightAfter THEN 8 ELSE IF n >= FourAfter THEN 4
             ELSE IF n >= TwiceAfter THEN 2 ELSE 1

effectiveInterval(d, n) == interval[d] * Factor(n)

RetryDelay(d) ==
    LET quarter == effectiveInterval(d, failures[d]) \div 4
    IN IF quarter < MinRetry THEN MinRetry ELSE quarter

-----------------------------------------------------------------------------
(***************************************************************************)
(* The dispatcher goroutine.                                               *)
(***************************************************************************)
\* Seeded fault: a dispatched entry keeps the time it was due at.
DispatchDueStuck ==
    /\ phase = "wait"
    /\ \/ timer = 0 /\ UNCHANGED wakeup
       \/ wakeup /\ wakeup' = FALSE
    /\ LET late == {d \in entries : due[d] <= 0}
           polled == {d \in late : ~ inFlight[d]}
       IN /\ inFlight' = [d \in Devices |-> inFlight[d] \/ d \in polled]
          /\ job' = [d \in Devices |-> IF d \in polled THEN "collected" ELSE job[d]]
          /\ quiet' = [d \in Devices |-> IF d \in polled THEN interval[d] ELSE quiet[d]]
    /\ phase' = "pass"
    /\ UNCHANGED <<entries, interval, due, failures, outcome, timer, hurried>>

\* dispatchDue, after the timer or a wakeup: every entry that is due is put
\* off; it is polled unless a poll of it is in flight.
DispatchDue ==
    /\ phase = "wait"
    /\ \/ timer = 0 /\ UNCHANGED wakeup
       \/ wakeup /\ wakeup' = FALSE
    /\ LET late == {d \in entries : due[d] <= 0}
           polled == {d \in late : ~ inFlight[d]}
       IN /\ due' = [d \in Devices |->
                       IF d \in late THEN effectiveInterval(d, failures[d]) ELSE due[d]]
          /\ inFlight' = [d \in Devices |-> inFlight[d] \/ d \in polled]
          /\ job' = [d \in Devices |-> IF d \in polled THEN "collected" ELSE job[d]]
          /\ quiet' = [d \in Devices |-> IF d \in polled THEN interval[d] ELSE quiet[d]]
    /\ phase' = "pass"
    /\ UNCHANGED <<entries, interval, failures, outcome, timer, hurried>>

EnqueueAccepted(d) ==
    /\ phase = "pass" /\ job[d] = "collected"
    /\ job' = [job EXCEPT ![d] = "running"]
    /\ UNCHANGED <<entryVars, outcome, timer, wakeup, phase, quiet, hurried>>

\* retrySoon, if the entry is still there.
EnqueueRejected(d) ==
    /\ phase = "pass" /\ job[d] = "collected"
    /\ job' = [job EXCEPT ![d] = "none"]
    /\ IF d \in entries
       THEN /\ inFlight' = [inFlight EXCEPT ![d] = FALSE]
            /\ due' = [due EXCEPT ![d] = RetryDelay(d)]
       ELSE UNCHANGED <<inFlight, due>>
    /\ quiet' = [quiet EXCEPT ![d] = 0]
    /\ UNCHANGED <<entries, interval, failures, outcome, timer, wakeup, phase,
                   hurried>>

\* The earliest entry of the heap; one second if there is none.
Earliest ==
    IF entries = {} THEN 1
    ELSE LET first == CHOOSE d \in entries : \A e \in entries : due[d] <= due[e]
         IN IF due[first] < 0 THEN 0 ELSE due[first]

RescheduleTimer ==
    /\ phase = "pass" /\ \A d \in Devices : job[d] # "collected"
    /\ timer' = Earliest
    /\ phase' = "wait"
    /\ hurried' = {}
    /\ UNCHANGED <<entryVars, job, outcome, wakeup, quiet>>

-----------------------------------------------------------------------------
(***************************************************************************)
(* Poll results: Done, then RecordSuccess or RecordFailure in a second     *)
(* critical section.  A second poll that finishes in between waits here.   *)
(***************************************************************************)
FinishPoll(d, result) ==
    /\ job[d] = "running" /\ outcome[d] = "none"
    /\ job' = [job EXCEPT ![d] = "none"]
    /\ inFlight' = [inFlight EXCEPT ![d] = FALSE]
    /\ outcome' = [outcome EXCEPT ![d] = result]
    /\ UNCHANGED <<entries, interval, due, failures, timer, wakeup, phase, quiet,
                   hurried>>

\* An operational error: only Done.
SkipPoll(d) ==
    /\ job[d] = "running"
    /\ job' = [job EXCEPT ![d] = "none"]
    /\ inFlight' = [inFlight EXCEPT ![d] = FALSE]
    /\ UNCHANGED <<entries, interval, due, failures, outcome, timer, wakeup, phase,
                   quiet, hurried>>

\* NextPollAt = now + t, waking nobody even if that is closer than before.
PutOff(d, t) ==
    /\ due' = [due EXCEPT ![d] = t]
    /\ hurried' = IF t < due[d] THEN hurried \cup {d} ELSE hurried

RecordSuccess(d) ==
    /\ outcome[d] = "success"
    /\ outcome' = [outcome EXCEPT ![d] = "none"]
    /\ IF d \in entries
       THEN /\ failures' = [failures EXCEPT ![d] = 0]
            /\ PutOff(d, interval[d])
       ELSE UNCHANGED <<failures, due, hurried>>
    /\ UNCHANGED <<entries, interval, inFlight, job, timer, wakeup, phase, quiet>>

\* Failures saturate where effectiveInterval no longer changes.
Bump(n) == IF n < EightAfter THEN n + 1 ELSE n

RecordFailure(d) ==
    /\ outcome[d] = "failure"
    /\ outcome' = [outcome EXCEPT ![d] = "none"]
    /\ IF d \in entries
       THEN /\ failures' = [failures EXCEPT ![d] = Bump(@)]
            /\ PutOff(d, effectiveInterval(d, Bump(failures[d])))
       ELSE UNCHANGED <<failures, due, hurried>>
    /\ UNCHANGED <<entries, interval, inFlight, job, timer, wakeup, phase, quiet>>

-----------------------------------------------------------------------------
(***************************************************************************)
(* Upsert and Remove.                                                      *)
(***************************************************************************)
\* A new entry is due at once; its other fields are as RemoveDevice leaves
\* them.  (PollScheduler covers the id that is added again while an old job
\* of it is under way.)
AddDevice(d, i) ==
    /\ d \notin entries /\ job[d] = "none" /\ outcome[d] = "none"
    /\ entries' = entries \cup {d}
    /\ interval' = [interval EXCEPT ![d] = i]
    /\ wakeup' = TRUE
    /\ UNCHANGED <<due, failures, inFlight, job, outcome, timer, phase, quiet, hurried>>

ChangeInterval(d, i) ==
    /\ d \in entries /\ i # interval[d]
    /\ interval' = [interval EXCEPT ![d] = i]
    /\ due' = [due EXCEPT ![d] = i * Factor(failures[d])]
    /\ wakeup' = (wakeup \/ i < interval[d])
    /\ quiet' = [quiet EXCEPT ![d] = IF @ > i THEN i ELSE @]
    /\ UNCHANGED <<entries, failures, inFlight, job, outcome, timer, phase, hurried>>

\* The entry is gone; a job of it may still be under way.
RemoveDevice(d) ==
    /\ d \in entries
    /\ entries' = entries \ {d}
    /\ interval' = [interval EXCEPT ![d] = Longest]
    /\ due' = [due EXCEPT ![d] = 0]
    /\ failures' = [failures EXCEPT ![d] = 0]
    /\ inFlight' = [inFlight EXCEPT ![d] = FALSE]
    /\ quiet' = [quiet EXCEPT ![d] = 0]
    /\ hurried' = hurried \ {d}
    /\ UNCHANGED <<job, outcome, timer, wakeup, phase>>

-----------------------------------------------------------------------------
\* Overdue entries stop counting where no property tells them apart.
Sooner(t) == IF t >= -(7 * Longest) THEN t - 1 ELSE t

Tick ==
    /\ phase = "wait" /\ ~ wakeup /\ timer > 0
    /\ timer' = timer - 1
    /\ due' = [d \in Devices |-> IF d \in entries THEN Sooner(due[d]) ELSE 0]
    /\ quiet' = [d \in Devices |-> IF quiet[d] > 0 THEN quiet[d] - 1 ELSE 0]
    /\ UNCHANGED <<entries, interval, failures, inFlight, job, outcome, wakeup,
                   phase, hurried>>

\* BeginInitialLoad spreads the first polls over [0, interval).
Init ==
    /\ entries = Devices
    /\ interval \in [Devices -> Intervals]
    /\ due \in [Devices -> 0..Longest - 1]
    /\ \A d \in Devices : due[d] < interval[d]
    /\ failures = [d \in Devices |-> 0]
    /\ inFlight = [d \in Devices |-> FALSE]
    /\ job = [d \in Devices |-> "none"]
    /\ outcome = [d \in Devices |-> "none"]
    /\ timer = 0 /\ wakeup = TRUE /\ phase = "wait"
    /\ quiet = [d \in Devices |-> 0]
    /\ hurried = {}

Dispatcher == \/ DispatchDue \/ RescheduleTimer
              \/ \E d \in Devices : EnqueueAccepted(d) \/ EnqueueRejected(d)

Results(d) == \/ SkipPoll(d) \/ RecordSuccess(d) \/ RecordFailure(d)
              \/ \E r \in {"success", "failure"} : FinishPoll(d, r)

Edit(d) == \/ RemoveDevice(d)
           \/ \E i \in Intervals : AddDevice(d, i) \/ ChangeInterval(d, i)

Next == Dispatcher \/ Tick \/ \E d \in Devices : Results(d) \/ Edit(d)

Spec == Init /\ [][Next]_vars

-----------------------------------------------------------------------------
(***************************************************************************)
(* Properties.                                                             *)
(***************************************************************************)
\* Every variable keeps its type; no entry is further away than the longest
\* backoff or retry.
TypeOK ==
    /\ entries \subseteq Devices /\ hurried \subseteq Devices
    /\ interval \in [Devices -> Intervals]
    /\ \A d \in Devices : due[d] \in -(7 * Longest) - 1..8 * Longest + MinRetry
    /\ failures \in [Devices -> 0..EightAfter]
    /\ inFlight \in [Devices -> BOOLEAN]
    /\ job \in [Devices -> {"none", "collected", "running"}]
    /\ outcome \in [Devices -> {"none", "success", "failure"}]
    /\ timer \in Nat /\ wakeup \in BOOLEAN /\ phase \in {"wait", "pass"}
    /\ quiet \in [Devices -> 0..Longest]

\* The one shared timer never makes an entry late: new devices, shorter
\* intervals (M17), retries and backoff are all served when they are due.
\* The exception is a device that answers after backoff: RecordSuccess moves
\* it closer and wakes nobody, so it waits for the timer that was armed for
\* its backoff, at most seven intervals too long.
OnTime ==
    \A d \in entries : due[d] >= 0 \/ (d \in hurried /\ due[d] >= -(7 * Longest))

\* The dispatcher never collects a job for an entry sooner than its interval
\* after the last accepted poll, whatever retries, backoff, late results and
\* interval changes came in between (a shorter interval counts at once, a
\* longer one from the next poll on).
SpacedPolls ==
    [][\A d \in Devices : job[d] # "collected" /\ job'[d] = "collected"
                            => quiet[d] = 0]_vars

\* poll_dispatcher.go keeps its timer: an entry is served when it is due and
\* is not polled again before its interval is over.
TimelyPolls ==
    /\ [](TypeOK /\ OnTime)
    /\ SpacedPolls
=============================================================================
