----------------------------- MODULE WorkerPool -----------------------------
(***************************************************************************)
(* internal/scheduler/worker_pool.go: three bounded queues, workers that   *)
(* prefer critical jobs but give the others a chance every FairEvery-th    *)
(* round, the queue gauges, and the two-stage Stop.                        *)
(*                                                                         *)
(* A job is the poll of one device.  The client (the dispatcher goroutine) *)
(* enqueues one job at a time and not again before its result is back.     *)
(***************************************************************************)
EXTENDS Integers, Sequences, FiniteSets

CONSTANTS
    Jobs,        \* jobs the dispatcher may enqueue
    Prio,        \* job -> 0 (critical), 1 (normal), 2 (low)
    Workers,     \* worker goroutines
    QueueSize,   \* lane -> capacity of its channel
    FairEvery,   \* every FairEvery-th round skips the fast paths (8)
    NoJob        \* the zero PollJob

Lanes == 0..2

ASSUME PoolAssumption ==
    /\ Prio \in [Jobs -> Lanes]
    /\ Workers # {} /\ IsFiniteSet(Workers)
    /\ QueueSize \in [Lanes -> Nat \ {0}]
    /\ FairEvery \in Nat \ {0}
    /\ NoJob \notin Jobs

VARIABLES
    queue,     \* lane -> channel contents
    gauge,     \* lane -> WorkerPoolMetrics.Queued*
    client,    \* the Enqueue call in progress
    worker,    \* program counter, job and round of each worker
    stopped,   \* wp.stop is closed
    cancelled, \* the job context is cancelled
    stopper,   \* progress of Stop
    late       \* jobs each worker took after stop was closed (history)

vars == <<queue, gauge, client, worker, stopped, cancelled, stopper, late>>

\* The jobs in the channels, and those in the hands of a worker.
Waiting == UNION {{queue[p][i] : i \in 1..Len(queue[p])} : p \in Lanes}
HeldJobs == {worker[w].job : w \in Workers} \ {NoJob}

-----------------------------------------------------------------------------
(***************************************************************************)
(* Enqueue: count the job, try the channel, take the count back if it is   *)
(* full.  The dispatcher has stopped before Stop is called.                *)
(***************************************************************************)
EnqueueCount(j) ==
    /\ client.pc = "idle" /\ stopper = "running" /\ j \notin Waiting \cup HeldJobs
    /\ gauge' = [gauge EXCEPT ![Prio[j]] = @ + 1]
    /\ client' = [pc |-> "send", job |-> j]
    /\ UNCHANGED <<queue, worker, stopped, cancelled, stopper, late>>

EnqueueSend ==
    /\ client.pc = "send"
    /\ LET p == Prio[client.job] IN
         IF Len(queue[p]) < QueueSize[p]
         THEN /\ queue' = [queue EXCEPT ![p] = Append(@, client.job)]
              /\ client' = [pc |-> "idle", job |-> NoJob]
         ELSE /\ client' = [client EXCEPT !.pc = "full"]
              /\ UNCHANGED queue
    /\ UNCHANGED <<gauge, worker, stopped, cancelled, stopper, late>>

EnqueueDrop ==
    /\ client.pc = "full"
    /\ gauge' = [gauge EXCEPT ![Prio[client.job]] = @ - 1]
    /\ client' = [pc |-> "idle", job |-> NoJob]
    /\ UNCHANGED <<queue, worker, stopped, cancelled, stopper, late>>

-----------------------------------------------------------------------------
(***************************************************************************)
(* The worker loop.                                                        *)
(***************************************************************************)
Goto(w, pc) == worker' = [worker EXCEPT ![w].pc = pc]

Exit(w) ==
    /\ stopped \/ cancelled
    /\ Goto(w, "exit")
    /\ UNCHANGED <<queue, gauge, client, stopped, cancelled, stopper, late>>

\* The non-blocking look at ctx and stop, then the choice of the round.
CheckExit(w) == worker[w].pc = "check" /\ Exit(w)

NextRound(n) == (n + 1) % FairEvery

\* Seeded fault: no round skips the fast paths.
BeginRoundUnfair(w) ==
    /\ worker[w].pc = "check" /\ ~ stopped /\ ~ cancelled
    /\ worker' = [worker EXCEPT ![w].pc = "critical"]
    /\ UNCHANGED <<queue, gauge, client, stopped, cancelled, stopper, late>>

\* Seeded fault: the loop looks at stop only in its blocking select.
BeginRoundUnchecked(w) ==
    /\ worker[w].pc = "check"
    /\ worker' = [worker EXCEPT
                    ![w].round = NextRound(@),
                    ![w].pc = IF NextRound(worker[w].round) = 0
                              THEN "any" ELSE "critical"]
    /\ UNCHANGED <<queue, gauge, client, stopped, cancelled, stopper, late>>

BeginRound(w) ==
    /\ worker[w].pc = "check" /\ ~ stopped /\ ~ cancelled
    /\ worker' = [worker EXCEPT
                    ![w].round = NextRound(@),
                    ![w].pc = IF NextRound(worker[w].round) = 0
                              THEN "any" ELSE "critical"]
    /\ UNCHANGED <<queue, gauge, client, stopped, cancelled, stopper, late>>

\* The lanes each select statement of the loop listens to.
Listens(pc) == CASE pc = "critical" -> {0}
                 [] pc = "two"      -> {0, 1}
                 [] pc = "any"      -> {0, 1, 2}
                 [] OTHER           -> {}

\* A select with several ready lanes picks any of them.
Receive(w, p) ==
    /\ p \in Listens(worker[w].pc)
    /\ queue[p] # <<>>
    /\ worker' = [worker EXCEPT ![w].pc = "count", ![w].job = Head(queue[p])]
    /\ queue' = [queue EXCEPT ![p] = Tail(@)]
    /\ late' = [late EXCEPT ![w] = IF stopped THEN @ + 1 ELSE @]
    /\ UNCHANGED <<gauge, client, stopped, cancelled, stopper>>

\* The default branches of the two fast paths.
FallThrough(w) ==
    /\ worker[w].pc \in {"critical", "two"}
    /\ \A p \in Listens(worker[w].pc) : queue[p] = <<>>
    /\ Goto(w, IF worker[w].pc = "critical" THEN "two" ELSE "any")
    /\ UNCHANGED <<queue, gauge, client, stopped, cancelled, stopper, late>>

\* The blocking select also listens to ctx.Done() and stop.
LeaveSelect(w) == worker[w].pc = "any" /\ Exit(w)

Uncount(w) ==
    /\ worker[w].pc = "count"
    /\ gauge' = [gauge EXCEPT ![Prio[worker[w].job]] = @ - 1]
    /\ Goto(w, "execute")
    /\ UNCHANGED <<queue, client, stopped, cancelled, stopper, late>>

\* executeJob: run the poll (a panic is turned into a result) and hand the
\* result to the handler.
Execute(w) ==
    /\ worker[w].pc = "execute"
    /\ Goto(w, "deliver")
    /\ UNCHANGED <<queue, gauge, client, stopped, cancelled, stopper, late>>

\* Seeded fault: a poll that failed goes straight back to its queue.
DeliverRequeue(w) ==
    /\ worker[w].pc = "deliver"
    /\ worker' = [worker EXCEPT ![w].pc = "check", ![w].job = NoJob]
    /\ queue' = [queue EXCEPT ![Prio[worker[w].job]] =
                   IF Len(@) < QueueSize[Prio[worker[w].job]]
                   THEN Append(@, worker[w].job) ELSE @]
    /\ gauge' = [gauge EXCEPT ![Prio[worker[w].job]] = @ + 1]
    /\ UNCHANGED <<client, stopped, cancelled, stopper, late>>

Deliver(w) ==
    /\ worker[w].pc = "deliver"
    /\ worker' = [worker EXCEPT ![w].pc = "check", ![w].job = NoJob]
    /\ UNCHANGED <<queue, gauge, client, stopped, cancelled, stopper, late>>

-----------------------------------------------------------------------------
(***************************************************************************)
(* Stop: close the stop channel, wait for the workers, cancel the job      *)
(* context if they take longer than drainTimeout, wait again.              *)
(***************************************************************************)
AllExited == \A w \in Workers : worker[w].pc = "exit"

CloseStop ==
    /\ stopper = "running" /\ client.pc = "idle"
    /\ stopped' = TRUE
    /\ stopper' = "draining"
    /\ UNCHANGED <<queue, gauge, client, worker, cancelled, late>>

DrainTimeout ==
    /\ stopper = "draining"
    /\ cancelled' = TRUE
    /\ stopper' = "cancelling"
    /\ UNCHANGED <<queue, gauge, client, worker, stopped, late>>

StopReturns ==
    /\ stopper \in {"draining", "cancelling"} /\ AllExited
    /\ cancelled' = TRUE
    /\ stopper' = "stopped"
    /\ UNCHANGED <<queue, gauge, client, worker, stopped, late>>

-----------------------------------------------------------------------------
Init ==
    /\ queue = [p \in Lanes |-> <<>>]
    /\ gauge = [p \in Lanes |-> 0]
    /\ client = [pc |-> "idle", job |-> NoJob]
    /\ worker = [w \in Workers |-> [pc |-> "check", job |-> NoJob, round |-> 0]]
    /\ stopped = FALSE
    /\ cancelled = FALSE
    /\ stopper = "running"
    /\ late = [w \in Workers |-> 0]

Enqueue == (\E j \in Jobs : EnqueueCount(j)) \/ EnqueueSend \/ EnqueueDrop

Work(w) ==
    \/ CheckExit(w) \/ BeginRound(w) \/ FallThrough(w) \/ LeaveSelect(w)
    \/ (\E p \in Lanes : Receive(w, p))
    \/ Uncount(w) \/ Execute(w) \/ Deliver(w)

Stop == CloseStop \/ DrainTimeout \/ StopReturns

Done == stopper = "stopped" /\ UNCHANGED vars

Next == Enqueue \/ (\E w \in Workers : Work(w)) \/ Stop \/ Done

(***************************************************************************)
(* Fairness: the goroutines run, a poll ends (every collector has a        *)
(* deadline), the dispatcher finishes an Enqueue it has begun, and Stop    *)
(* returns once the workers are gone.  Go's select picks uniformly among   *)
(* ready cases, so a lane that is ready again and again is not passed over *)
(* for ever by the blocking select.                                        *)
(***************************************************************************)
Fairness ==
    /\ WF_vars(EnqueueSend \/ EnqueueDrop)
    /\ WF_vars(StopReturns)
    /\ \A w \in Workers :
         /\ WF_vars(Work(w))
         /\ \A p \in Lanes : SF_vars(worker[w].pc = "any" /\ Receive(w, p))

Spec == Init /\ [][Next]_vars

FairSpec == Spec /\ Fairness

-----------------------------------------------------------------------------
(***************************************************************************)
(* Properties.                                                             *)
(***************************************************************************)
WorkerPc == {"check", "critical", "two", "any", "count", "execute", "deliver",
             "exit"}

\* Every variable keeps its type, and no channel holds more than it can.
TypeOK ==
    /\ queue \in [Lanes -> Seq(Jobs)]
    /\ \A p \in Lanes : Len(queue[p]) <= QueueSize[p]
    /\ gauge \in [Lanes -> Int]
    /\ client \in [pc : {"idle", "send", "full"}, job : Jobs \cup {NoJob}]
    /\ worker \in [Workers -> [pc : WorkerPc, job : Jobs \cup {NoJob},
                               round : 0..FairEvery - 1]]
    /\ stopped \in BOOLEAN /\ cancelled \in BOOLEAN
    /\ stopper \in {"running", "draining", "cancelling", "stopped"}
    /\ late \in [Workers -> Nat]

\* The queue-depth gauges the pool reports are never below the real depth,
\* hence never negative: a job is counted before it is in the channel and
\* uncounted after it left.
GaugeCoversQueue == \A p \in Lanes : gauge[p] >= Len(queue[p])

\* When Stop has returned no worker holds a job: every poll that started
\* has delivered its result, and only jobs still in a queue are abandoned.
StopLeavesNoJob ==
    stopper = "stopped" =>
        \A w \in Workers : worker[w].pc = "exit" /\ worker[w].job = NoJob

\* Once stop is closed a worker takes at most one more job: the one it can
\* receive before it looks at stop again.
OneLateJob == \A w \in Workers : late[w] <= 1

\* No lane starves: a job that was accepted is executed unless the pool is
\* stopped, even when critical jobs keep coming (M15).
NoStarvation ==
    \A j \in Jobs :
        (j \in Waiting) ~> (j \in HeldJobs \/ stopped)

\* A Stop that has begun returns, and does not need its drain timeout for it
\* as long as every poll ends by itself.
StopEnds == stopped ~> (stopper = "stopped")

Abstract == INSTANCE JobPool WITH
    waiting <- Waiting, held <- HeldJobs, WorkerCount <- Cardinality(Workers)

\* The priority queues, the fast paths, the gauges and Stop implement a pool
\* that loses no job, duplicates none and respects its capacities.
ImplementsJobPool == Abstract!Spec

\* The gauge never understates a queue, and Stop leaves no accepted job behind
\* but the ones whose loss it reports (worker_pool.go).
PoolSafe ==
    /\ TypeOK
    /\ GaugeCoversQueue
    /\ StopLeavesNoJob
    /\ OneLateJob

\* No queued job starves behind a busier lane, and Stop ends (worker_pool.go).
PoolLives ==
    /\ NoStarvation
    /\ StopEnds

-----------------------------------------------------------------------------
\* An instance for TLC: jobs 0 to 3, of which 0 and 3 are critical, 1 is normal
\* and 2 is low, and one place in each channel.
MixedPriorities == [j \in 0..3 |-> j % 3]
SingleQueues == [p \in Lanes |-> 1]
=============================================================================
