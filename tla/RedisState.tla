------------------------------ MODULE RedisState -----------------------------
(***************************************************************************)
(* internal/cache: what collection keeps in Redis.  Two components that    *)
(* share no state: the lock of a poll and the buffer of the metrics.       *)
(***************************************************************************)
EXTENDS Integers, Sequences, FiniteSets, SequencesExt

-----------------------------------------------------------------------------
(***************************************************************************)
(* internal/cache/distributed_lock.go as internal/scheduler/scheduler.go   *)
(* uses it: server instances take a lock in Redis before they poll a       *)
(* device, poll anyway when Redis does not answer, skip the poll when      *)
(* somebody else holds the lock, and release it afterwards if it is still  *)
(* theirs.  The lock expires; a poll has a deadline that may be longer.    *)
(***************************************************************************)
CONSTANTS
    Instances,     \* server instances that schedule the device
    LockTTL,       \* lockTTL, in ticks
    PollDeadline,  \* timeout of the collector, in ticks
    Nobody,        \* no lock value
    MaxLockErrors, \* bound: Redis calls that fail
    MaxLockCrashes \* bound: instances that crash during a poll

ASSUME PollLockAssumption ==
    /\ Nobody \notin Instances
    /\ LockTTL \in Nat \ {0} /\ PollDeadline \in Nat \ {0}
    /\ MaxLockErrors \in Nat /\ MaxLockCrashes \in Nat

VARIABLES
    lock,       \* nm:lock:collect:<id>: whose value, and its age
    poll,       \* what each instance is doing with the device
    lockErrors, \* failed Redis calls (history)
    lockCrashes

pollLockVars == <<lock, poll, lockErrors, lockCrashes>>

\* Lock values are fresh UUIDs; an instance has one poll at a time, so the
\* instance and its turn stand for the value.
Free == [owner |-> Nobody, turn |-> 0, age |-> 0]
NotPolling == [pc |-> "idle", turn |-> 0, locked |-> FALSE, age |-> 0]

PollLockTypeOK ==
    /\ lock \in [owner : Instances \cup {Nobody}, turn : {0, 1}, age : 0..LockTTL]
    /\ poll \in [Instances -> [pc : {"idle", "polling", "release"}, turn : {0, 1},
                               locked : BOOLEAN, age : 0..PollDeadline]]
    /\ lockErrors \in 0..MaxLockErrors /\ lockCrashes \in 0..MaxLockCrashes

PollLockInit ==
    /\ lock = Free
    /\ poll = [i \in Instances |-> NotPolling]
    /\ lockErrors = 0 /\ lockCrashes = 0

Start(i, locked) ==
    poll' = [poll EXCEPT ![i] = [pc |-> "polling", turn |-> 1 - poll[i].turn,
                                 locked |-> locked, age |-> 0]]

\* TryLock with SET NX: taken, held by somebody (the poll is skipped), or
\* Redis fails and the poll goes ahead without it.
TryLock(i) ==
    /\ poll[i].pc = "idle"
    /\ \/ /\ lock = Free
          /\ lock' = [owner |-> i, turn |-> 1 - poll[i].turn, age |-> 0]
          /\ Start(i, TRUE) /\ UNCHANGED lockErrors
       \/ /\ lockErrors < MaxLockErrors /\ lockErrors' = lockErrors + 1
          /\ Start(i, FALSE) /\ UNCHANGED lock
    /\ UNCHANGED lockCrashes

\* The collector returns, at the latest at its deadline.
Collected(i) ==
    /\ poll[i].pc = "polling"
    /\ poll' = [poll EXCEPT ![i].pc = IF poll[i].locked THEN "release" ELSE "idle",
                            ![i].age = 0]
    /\ UNCHANGED <<lock, lockErrors, lockCrashes>>

Mine(i) == lock.owner = i /\ lock.turn = poll[i].turn

\* release: compare and delete in one script; a lost call leaves the lock
\* to its expiry.
Release(i) ==
    /\ poll[i].pc = "release"
    /\ \/ lock' = (IF Mine(i) THEN Free ELSE lock) /\ UNCHANGED lockErrors
       \/ /\ lockErrors < MaxLockErrors /\ lockErrors' = lockErrors + 1
          /\ UNCHANGED lock
    /\ poll' = [poll EXCEPT ![i].pc = "idle", ![i].locked = FALSE]
    /\ UNCHANGED lockCrashes

LockCrash(i) ==
    /\ poll[i].pc # "idle" /\ lockCrashes < MaxLockCrashes
    /\ lockCrashes' = lockCrashes + 1
    /\ poll' = [poll EXCEPT ![i] = [NotPolling EXCEPT !.turn = poll[i].turn]]
    /\ UNCHANGED <<lock, lockErrors>>

\* Seeded fault: a lock without an expiry (an interval of 0, not clamped).
NeverExpires == lock

\* lockTTL is clamped to at least 30 seconds, so the key always expires.
AgedLock == IF lock # Free /\ lock.age + 1 < LockTTL THEN [lock EXCEPT !.age = @ + 1] ELSE Free

\* A tick: polls end by their deadline, the lock expires.
LockTick ==
    /\ \A i \in Instances : poll[i].pc = "polling" => poll[i].age < PollDeadline
    /\ lock' = AgedLock
    /\ poll' = [i \in Instances |-> IF poll[i].pc = "polling"
                                    THEN [poll[i] EXCEPT !.age = @ + 1] ELSE poll[i]]
    /\ UNCHANGED <<lockErrors, lockCrashes>>

PollLockNext ==
    \/ \E i \in Instances : TryLock(i) \/ Collected(i) \/ Release(i) \/ LockCrash(i)
    \/ LockTick

PollLockFairness ==
    /\ WF_pollLockVars(LockTick)
    /\ \A i \in Instances : WF_pollLockVars(Collected(i)) /\ WF_pollLockVars(Release(i))

PollLockSpec == PollLockInit /\ [][PollLockNext]_pollLockVars /\ PollLockFairness

-----------------------------------------------------------------------------
(* Properties of the poll lock. *)
Fresh(i) == poll[i].pc = "polling" /\ poll[i].age < LockTTL

\* Two instances poll the device at once only if one of them polls without
\* a lock because Redis failed, or polls longer than its lock lives: neither
\* a release that comes late nor a crash opens the lock for a second poll
\* (scheduler.go:293, distributed_lock.go:52).
OnePollPerLock ==
    \A i, j \in Instances :
        i # j /\ Fresh(i) /\ Fresh(j) => ~(poll[i].locked /\ poll[j].locked)

\* No crash and no lost release keeps the lock for ever (scheduler.go:284).
LockComesFree == lock # Free ~> lock = Free

\* The distributed lock excludes a second poll while it lives and always comes
\* free (distributed_lock.go, scheduler.go).
PollLockCorrect ==
    /\ [](PollLockTypeOK /\ OnePollPerLock)
    /\ LockComesFree

-----------------------------------------------------------------------------
(***************************************************************************)
(* internal/cache/metric_buffer.go: metrics wait in a Redis list and are   *)
(* written to the database in batches by one goroutine.  The run context   *)
(* is cancelled by Stop, after which one last drain runs on a context of   *)
(* its own.  A crash ends the goroutine and leaves the list.               *)
(*                                                                         *)
(* A metric the database can never accept (its device was deleted) is in   *)
(* Poison.  An insert fails because of such a row, because of the          *)
(* connection, or because its context is over; a connection may also break *)
(* after the rows were committed.  A Redis command that fails may have     *)
(* taken effect, and the client sends it again on its own, so that it may  *)
(* also take effect twice.                                                 *)
(***************************************************************************)
CONSTANTS
    Metrics,     \* metrics that are produced
    Poison,      \* those the database rejects for good
    BufferBatch, \* batchSize
    DrainLimit,  \* maxBatchesPerTick
    DeadMax,     \* deadLetterMax
    MaxOutages,  \* bound: calls to the database or Redis that fail
    MaxBufferCrashes \* bound: crashes

ASSUME MetricBufferAssumption ==
    /\ Poison \subseteq Metrics
    /\ BufferBatch \in Nat \ {0} /\ DrainLimit \in Nat \ {0} /\ DeadMax \in Nat \ {0}
    /\ MaxOutages \in Nat /\ MaxBufferCrashes \in Nat

VARIABLES
    list,     \* nm:buffer:metrics
    dead,     \* nm:metrics:deadletter, newest first
    table,    \* how often each metric is in the metrics table
    pushed,   \* metrics produced so far
    flush,    \* the flush under way
    phase,    \* "running", "final" (the last drain) or "stopped"
    ctxDone,  \* the context of the flush under way is over
    outages,  \* failed calls (history)
    crashed,  \* crashes (history)
    lost,     \* metrics of which a copy was dropped: by a crash, by a failing
              \* command or insert, or by a full dead-letter list (history)
    again     \* metrics whose insert, or a Redis command with them, took effect
              \* and was repeated (history)

metricBufferVars == <<list, dead, table, pushed, flush, phase, ctxDone, outages, crashed,
                      lost, again>>

\* held: popped and not handled yet; requeue, bad: what becomes of them;
\* full: the pop filled the batch; ok: nothing had to be put back.
NoFlush == [pc |-> "idle", round |-> 0, full |-> FALSE, ok |-> TRUE,
            held |-> <<>>, requeue |-> <<>>, bad |-> <<>>]

Pcs == {"idle", "pop", "batch", "rows", "requeue", "dead"}

MetricBufferTypeOK ==
    /\ list \in Seq(Metrics) /\ dead \in Seq(Metrics) /\ Len(dead) <= DeadMax
    /\ table \in [Metrics -> Nat]
    /\ pushed \subseteq Metrics /\ lost \subseteq Metrics /\ again \subseteq Metrics
    /\ flush.pc \in Pcs /\ flush.round \in 0..DrainLimit /\ {flush.full, flush.ok} \subseteq BOOLEAN
    /\ {flush.held, flush.requeue, flush.bad} \subseteq Seq(Metrics)
    /\ phase \in {"running", "final", "stopped"} /\ ctxDone \in BOOLEAN
    /\ outages \in 0..MaxOutages /\ crashed \in 0..MaxBufferCrashes

MetricBufferInit ==
    /\ list = <<>> /\ dead = <<>> /\ table = [m \in Metrics |-> 0]
    /\ pushed = {} /\ flush = NoFlush /\ phase = "running" /\ ctxDone = FALSE
    /\ outages = 0 /\ crashed = 0 /\ lost = {} /\ again = {}

Outage == outages < MaxOutages /\ outages' = outages + 1
NoOutage == UNCHANGED outages

\* How often m is in a sequence; the table once the rows of one are in.
Copies(ms, m) == Len(SelectSeq(ms, LAMBDA x : x = m))
Stored(ms) == [m \in Metrics |-> table[m] + Copies(ms, m)]

FirstOf(n, ms) == SubSeq(ms, 1, IF Len(ms) < n THEN Len(ms) ELSE n)
Without(n, ms) == SubSeq(ms, n + 1, Len(ms))

\* How a Redis command may go: how often it took effect, and whether the client
\* reports success.
Done == [times |-> 1, ok |-> TRUE]
Failures == {[times |-> 0, ok |-> FALSE], [times |-> 1, ok |-> FALSE], [times |-> 2, ok |-> TRUE]}
RedisCall(t) == \/ t = Done /\ ~ctxDone /\ NoOutage
                \/ t \in Failures /\ Outage
                \/ t = [times |-> 0, ok |-> FALSE] /\ ctxDone /\ NoOutage
Calls == {Done} \cup Failures
Repeated(ms, times) == IF times = 0 THEN << >> ELSE IF times = 1 THEN ms ELSE ms \o ms

-----------------------------------------------------------------------------
\* writeMetrics of the result pipeline pushes a metric; when that fails it is
\* inserted directly, and whether it could be is ignored.
Push(m) ==
    /\ m \notin pushed
    /\ pushed' = pushed \cup {m}
    /\ \E t \in Calls, stored \in BOOLEAN :
        /\ IF t = Done THEN NoOutage ELSE Outage
        /\ stored => ~t.ok /\ m \notin Poison
        /\ list' = list \o Repeated(<<m>>, t.times)
        /\ table' = Stored(IF stored THEN <<m>> ELSE << >>)
        /\ lost' = IF t.times = 0 /\ ~stored THEN lost \cup {m} ELSE lost
        /\ again' = IF t.times = 2 \/ (t.times = 1 /\ stored) THEN again \cup {m} ELSE again
    /\ UNCHANGED <<dead, flush, phase, ctxDone, crashed>>

\* flushLoop: a tick starts a drain.
TickDrain ==
    /\ phase = "running" /\ flush.pc = "idle" /\ ~ctxDone
    /\ flush' = [NoFlush EXCEPT !.pc = "pop"]
    /\ UNCHANGED <<list, dead, table, pushed, phase, ctxDone, outages, crashed, lost, again>>

\* Stop cancels the context, perhaps in the middle of a flush.
StopBuffer ==
    /\ phase = "running" /\ ~ctxDone
    /\ ctxDone' = TRUE
    /\ UNCHANGED <<list, dead, table, pushed, flush, phase, outages, crashed, lost, again>>

\* The loop sees the cancelled context and drains once more on a new one.
FinalDrain ==
    /\ phase = "running" /\ flush.pc = "idle" /\ ctxDone
    /\ phase' = "final" /\ ctxDone' = FALSE
    /\ flush' = [NoFlush EXCEPT !.pc = "pop"]
    /\ UNCHANGED <<list, dead, table, pushed, outages, crashed, lost, again>>

\* Fifteen seconds are over.
FinalTimeout ==
    /\ phase = "final" /\ flush.pc # "idle" /\ ~ctxDone /\ Outage
    /\ ctxDone' = TRUE
    /\ UNCHANGED <<list, dead, table, pushed, flush, phase, crashed, lost, again>>

BufferStopped ==
    /\ phase = "final" /\ flush.pc = "idle"
    /\ phase' = "stopped"
    /\ UNCHANGED <<list, dead, table, pushed, flush, ctxDone, outages, crashed, lost, again>>

\* drain: go on while batches are full and nothing transient failed.
Drained(f) ==
    IF f.ok /\ f.full /\ f.round + 1 < DrainLimit
    THEN [NoFlush EXCEPT !.pc = "pop", !.round = f.round + 1]
    ELSE NoFlush

\* LPopCount takes up to batchSize metrics off the head of the list.  What an
\* earlier try of it took is gone, and so is what it took when it fails.
Pop ==
    /\ flush.pc = "pop"
    /\ \E t \in Calls :
        /\ RedisCall(t)
        /\ LET first == FirstOf(BufferBatch, list)
               rest == Without(BufferBatch, list)
               gone == IF t.times = 2 \/ (t.times = 1 /\ ~t.ok) THEN first ELSE << >>
               items == IF ~t.ok THEN << >> ELSE FirstOf(BufferBatch, IF t.times = 2 THEN rest ELSE list)
           IN /\ list' = Without(Len(gone \o items), list)
              /\ lost' = lost \cup ToSet(gone)
              /\ flush' = IF items = << >> THEN NoFlush
                          ELSE [flush EXCEPT !.pc = "batch", !.full = (Len(items) = BufferBatch), !.held = items]
    /\ UNCHANGED <<dead, table, pushed, phase, ctxDone, crashed, again>>

\* The whole batch goes back to the list.
PutBack == [flush EXCEPT !.pc = "requeue", !.held = <<>>, !.requeue = flush.held]

\* RecordMetricsBatch: all rows, or none because of a row or of the
\* connection; a connection may break once the rows are in.
InsertBatch ==
    /\ flush.pc = "batch"
    /\ LET ms == ToSet(flush.held)
       IN \/ /\ ~ctxDone /\ ms \cap Poison = {} /\ NoOutage
             /\ table' = Stored(flush.held) /\ flush' = Drained(flush) /\ UNCHANGED again
          \/ /\ ~ctxDone /\ ms \cap Poison # {} /\ NoOutage
             /\ flush' = [flush EXCEPT !.pc = "rows"] /\ UNCHANGED <<table, again>>
          \/ /\ ms \cap Poison = {} /\ Outage
             /\ table' = Stored(flush.held) /\ again' = again \cup ms
             /\ flush' = PutBack
          \/ /\ IF ctxDone THEN NoOutage ELSE Outage
             /\ flush' = PutBack
             /\ UNCHANGED <<table, again>>
    /\ UNCHANGED <<list, dead, pushed, phase, ctxDone, crashed, lost>>

\* isPermanentDBError: integrity violations and data exceptions.
IsPermanent(m) == m \in Poison

\* Seeded fault: a row that fails for good is tried again.
RowAlwaysRequeued ==
    /\ flush.pc = "rows" /\ flush.held # <<>>
    /\ LET m == Head(flush.held) rest == Tail(flush.held)
       IN \/ /\ ~ctxDone /\ ~IsPermanent(m) /\ NoOutage
             /\ table' = Stored(<<m>>) /\ flush' = [flush EXCEPT !.held = rest]
          \/ /\ IF ctxDone \/ IsPermanent(m) THEN NoOutage ELSE Outage
             /\ flush' = [flush EXCEPT !.held = rest, !.requeue = Append(@, m)]
             /\ UNCHANGED table
    /\ UNCHANGED <<list, dead, pushed, phase, ctxDone, crashed, lost, again>>

\* RecordMetric row by row: stored, dead-lettered or kept for another try.
InsertRow ==
    /\ flush.pc = "rows" /\ flush.held # <<>>
    /\ LET m == Head(flush.held) rest == Tail(flush.held)
       IN \/ /\ ~ctxDone /\ ~IsPermanent(m) /\ NoOutage
             /\ table' = Stored(<<m>>) /\ flush' = [flush EXCEPT !.held = rest]
          \/ /\ ~ctxDone /\ IsPermanent(m) /\ NoOutage
             /\ flush' = [flush EXCEPT !.held = rest, !.bad = Append(@, m)]
             /\ UNCHANGED table
          \/ /\ IF ctxDone THEN NoOutage ELSE Outage
             /\ flush' = [flush EXCEPT !.held = rest, !.requeue = Append(@, m)]
             /\ UNCHANGED table
    /\ UNCHANGED <<list, dead, pushed, phase, ctxDone, crashed, lost, again>>

RowsDone ==
    /\ flush.pc = "rows" /\ flush.held = <<>>
    /\ flush' = [flush EXCEPT !.pc = "requeue"]
    /\ UNCHANGED <<list, dead, table, pushed, phase, ctxDone, outages, crashed, lost, again>>

\* Where a flush goes once its rows are back in the list.
AfterRequeue ==
    LET f == [flush EXCEPT !.pc = "dead", !.ok = (flush.requeue = <<>>), !.requeue = <<>>]
    IN IF f.bad # <<>> THEN f ELSE Drained(f)

\* requeue: LPUSH puts them at the head, the last one first.  Its error is
\* only logged, and a cancelled context is one.
Requeue ==
    /\ flush.pc = "requeue"
    /\ flush' = AfterRequeue
    /\ IF flush.requeue = << >> THEN NoOutage /\ UNCHANGED <<list, lost, again>>
       ELSE \E t \in Calls :
                /\ RedisCall(t)
                /\ list' = Repeated(Reverse(flush.requeue), t.times) \o list
                /\ lost' = IF t.times = 0 THEN lost \cup ToSet(flush.requeue) ELSE lost
                /\ again' = IF t.times = 2 THEN again \cup ToSet(flush.requeue) ELSE again
    /\ UNCHANGED <<dead, table, pushed, phase, ctxDone, crashed>>

\* deadLetter: LPUSH and LTRIM in one transaction; what does not fit and
\* what cannot be written is dropped.
DeadLetter ==
    /\ flush.pc = "dead"
    /\ flush' = Drained(flush)
    /\ \E t \in Calls :
        /\ RedisCall(t)
        /\ LET all == Repeated(Reverse(flush.bad), t.times) \o dead
           IN /\ dead' = FirstOf(DeadMax, all)
              /\ lost' = lost \cup (ToSet(flush.bad \o dead) \ ToSet(dead'))
              /\ again' = IF t.times = 2 THEN again \cup ToSet(flush.bad) ELSE again
    /\ UNCHANGED <<list, table, pushed, phase, ctxDone, crashed>>

\* The process dies and starts again.
CrashBuffer ==
    /\ crashed < MaxBufferCrashes /\ phase # "stopped"
    /\ crashed' = crashed + 1
    /\ lost' = lost \cup ((ToSet(flush.held) \cup ToSet(flush.requeue) \cup ToSet(flush.bad))
                          \ {m \in Metrics : table[m] > 0})
    /\ flush' = NoFlush /\ phase' = "running" /\ ctxDone' = FALSE
    /\ UNCHANGED <<list, dead, table, pushed, outages, again>>

MetricBufferNext ==
    \/ \E m \in Metrics : Push(m)
    \/ TickDrain \/ StopBuffer \/ FinalDrain \/ FinalTimeout \/ BufferStopped
    \/ Pop \/ InsertBatch \/ InsertRow \/ RowsDone \/ Requeue \/ DeadLetter
    \/ CrashBuffer

FlushStep == Pop \/ InsertBatch \/ InsertRow \/ RowsDone \/ Requeue \/ DeadLetter

\* The goroutine runs and the ticker ticks.
MetricBufferFairness == WF_metricBufferVars(FlushStep) /\ WF_metricBufferVars(TickDrain)
                        /\ WF_metricBufferVars(FinalDrain) /\ WF_metricBufferVars(BufferStopped)

MetricBufferSpec == MetricBufferInit /\ [][MetricBufferNext]_metricBufferVars /\ MetricBufferFairness

-----------------------------------------------------------------------------
(* Properties of the metric buffer. *)
Places(m) == Copies(list \o dead \o flush.held \o flush.requeue \o flush.bad, m) + table[m]

\* Every metric handed over is in exactly one place: the list, the batch
\* under way, the table or the dead letters; unless a copy of it was dropped
\* (by a crash, a full dead-letter list, or a command or insert that failed
\* where its error is only logged) or made (by an insert or a command that took
\* effect and was repeated) (metric_buffer.go:109-161, result_pipeline.go:249).
InOnePlace == \A m \in pushed \ (lost \cup again) : Places(m) = 1

\* While nothing fails nothing is dropped but what the database rejects, and
\* nothing is stored twice.
LossNeedsFault ==
    (outages = 0 /\ crashed = 0 /\ phase = "running" /\ ~ctxDone) => again = {} /\ lost \subseteq Poison

\* A metric the database accepts is stored in the end, however many rejected
\* ones are in front of it, unless a copy of it was dropped or the server stopped
\* with it in the list (metric_buffer.go:66-70 and :144-147).
AllPersisted ==
    \A m \in Metrics \ Poison :
        m \in pushed ~> (table[m] > 0 \/ m \in lost \/ (phase = "stopped" /\ m \in ToSet(list)))

\* A buffered metric is never in two places and, if the database takes it, ends
\* up stored, where no call to Redis or the database failed (metric_buffer.go).
MetricBufferCorrect ==
    /\ [](MetricBufferTypeOK /\ InOnePlace /\ LossNeedsFault)
    /\ AllPersisted
=============================================================================
