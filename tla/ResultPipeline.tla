--------------------------- MODULE ResultPipeline ---------------------------
(***************************************************************************)
(* internal/scheduler: the way of a poll result from the worker through    *)
(* Submit, the batching goroutine and processBatch to the database, and    *)
(* Scheduler.Stop, which stops dispatcher, pool and pipeline in this order.*)
(*                                                                         *)
(* The polls of a run are given: Polls is a finite set, DeviceOf tells the *)
(* device.  What is written is abstracted to whose result it is.           *)
(***************************************************************************)
EXTENDS Integers, Sequences, FiniteSets, SequencesExt

CONSTANTS
    Polls,        \* polls the dispatcher starts
    DeviceOf,     \* poll -> device
    NoPoll,       \* no result yet
    WorkerCount,  \* workers in the pool
    ChanSize,     \* capacity of resultCh (2048)
    BatchSize,    \* results that fill a batch (100)
    MaxFaults     \* bound: database statements that fail

Devices == {DeviceOf[p] : p \in Polls}

ASSUME PipelineAssumption ==
    /\ IsFiniteSet(Polls) /\ NoPoll \notin Polls
    /\ WorkerCount \in Nat \ {0} /\ ChanSize \in Nat \ {0}
    /\ BatchSize \in Nat \ {0} /\ MaxFaults \in Nat

VARIABLES
    answers,    \* polls whose device answers
    stage,      \* where each poll is
    status,     \* PollResult.Status
    finished,   \* polls in the order of their FinishedAt
    resultCh,   \* ResultPipeline.resultCh
    batch,      \* the batch being collected or written
    writer,     \* the run goroutine (and, after it, Stop's own flush)
    sched,      \* progress of Scheduler.Stop
    pollsCut,   \* the pool has cancelled the context of its polls
    cancelled,  \* the pipeline has cancelled the context of run
    saved,      \* polls whose metric is stored
    row,        \* device -> the poll whose status the device row shows
    processed,  \* how often each result went through processBatch (history)
    faults      \* failed database statements (history)

pollVars == <<answers, stage, status, finished>>
dbVars == <<saved, row, processed, faults>>
vars == <<pollVars, resultCh, batch, writer, sched, pollsCut, cancelled, dbVars>>

Elements(s) == {s[i] : i \in 1..Len(s)}

\* FinishedAt.After
After(p, q) == \E i, j \in 1..Len(finished) :
                  i > j /\ finished[i] = p /\ finished[j] = q

-----------------------------------------------------------------------------
(***************************************************************************)
(* Polls and Submit.  handlePollResult calls Done before Submit, so the    *)
(* next poll of a device may start while a result waits to be submitted.   *)
(* A job a worker takes just after the stop channel was closed counts as   *)
(* taken just before.                                                      *)
(***************************************************************************)
AtWorker == {"running", "collected", "submit"}

StartPoll(p) ==
    /\ sched = "running" /\ stage[p] = "idle"
    /\ Cardinality({q \in Polls : stage[q] \in AtWorker}) < WorkerCount
    /\ \A q \in Polls : DeviceOf[q] = DeviceOf[p] => stage[q] \notin {"running", "collected"}
    /\ stage' = [stage EXCEPT ![p] = "running"]
    /\ UNCHANGED <<answers, status, finished, resultCh, batch, writer, sched,
                   pollsCut, cancelled, dbVars>>

\* What the collector may answer: up, a result without a status ("none"), or
\* down; a call that the cancelled context cut off looks like one unanswered.
Outcomes(p) == (IF p \in answers THEN {"up", "none"} ELSE {"down"}) \cup {st \in {"down"} : pollsCut}

CollectorReturns(p, st) ==
    /\ stage[p] = "running" /\ st \in Outcomes(p)
    /\ stage' = [stage EXCEPT ![p] = "collected"]
    /\ status' = [status EXCEPT ![p] = st]
    /\ UNCHANGED <<answers, finished, resultCh, batch, writer, sched, pollsCut,
                   cancelled, dbVars>>

\* Seeded fault: the outcome is believed whatever became of the context.
NeverCutOff == FALSE

\* ctx.Err() != nil, looked at when the collector has returned.
CutOff == pollsCut

\* "The pool cancelled the poll, so the outcome says nothing about the device":
\* no status, and handlePollResult returns before Submit.
FinishPoll(p) ==
    /\ stage[p] = "collected"
    /\ IF CutOff THEN /\ stage' = [stage EXCEPT ![p] = "skipped"]
                      /\ status' = [status EXCEPT ![p] = "none"]
                      /\ UNCHANGED finished
                 ELSE /\ stage' = [stage EXCEPT ![p] = "submit"]
                      /\ finished' = Append(finished, p)
                      /\ UNCHANGED status
    /\ UNCHANGED <<answers, resultCh, batch, writer, sched, pollsCut, cancelled,
                   dbVars>>

\* Lock contention or an unknown protocol: no status, and handlePollResult
\* returns before Submit.
SkipPoll(p) ==
    /\ stage[p] = "running"
    /\ stage' = [stage EXCEPT ![p] = "skipped"]
    /\ UNCHANGED <<answers, status, finished, resultCh, batch, writer, sched,
                   pollsCut, cancelled, dbVars>>

Submit(p) ==
    /\ stage[p] = "submit" /\ Len(resultCh) < ChanSize
    /\ resultCh' = Append(resultCh, p)
    /\ stage' = [stage EXCEPT ![p] = "sent"]
    /\ UNCHANGED <<answers, status, finished, batch, writer, sched, pollsCut,
                   cancelled, dbVars>>

\* The channel stayed full for five seconds.
SubmitTimeout(p) ==
    /\ stage[p] = "submit" /\ Len(resultCh) = ChanSize
    /\ stage' = [stage EXCEPT ![p] = "dropped"]
    /\ UNCHANGED <<answers, status, finished, resultCh, batch, writer, sched,
                   pollsCut, cancelled, dbVars>>

-----------------------------------------------------------------------------
(***************************************************************************)
(* The run goroutine.  writer.fresh: the batch is written with finalCtx    *)
(* rather than the run context; writer.next: where to go afterwards.       *)
(***************************************************************************)
Process(fresh, next) ==
    writer' = [pc |-> "metrics", fresh |-> fresh, next |-> next]
Goto(pc) == writer' = [pc |-> pc, fresh |-> FALSE, next |-> pc]

ReceiveResult ==
    /\ writer.pc = "select" /\ resultCh # <<>>
    /\ batch' = Append(batch, Head(resultCh))
    /\ resultCh' = Tail(resultCh)
    /\ IF Len(batch') >= BatchSize THEN Process(FALSE, "select")
                                   ELSE UNCHANGED writer
    /\ UNCHANGED <<pollVars, sched, pollsCut, cancelled, dbVars>>

\* Seeded fault: the ticker writes full batches only.
TickFull ==
    /\ writer.pc = "select" /\ Len(batch) >= BatchSize
    /\ Process(FALSE, "select")
    /\ UNCHANGED <<pollVars, resultCh, batch, sched, pollsCut, cancelled, dbVars>>

Tick ==
    /\ writer.pc = "select" /\ batch # <<>>
    /\ Process(FALSE, "select")
    /\ UNCHANGED <<pollVars, resultCh, batch, sched, pollsCut, cancelled, dbVars>>

\* The cancelled context is one of the ready cases of the select.
ContextDone ==
    /\ writer.pc = "select" /\ cancelled
    /\ IF batch # <<>> THEN Process(TRUE, "flush") ELSE Goto("flush")
    /\ UNCHANGED <<pollVars, resultCh, batch, sched, pollsCut, cancelled, dbVars>>

\* flush: everything still in the channel becomes one batch.
Flush(next) ==
    /\ batch' = resultCh
    /\ resultCh' = <<>>
    /\ IF resultCh # <<>> THEN Process(TRUE, next) ELSE Goto(next)
    /\ UNCHANGED <<pollVars, sched, pollsCut, cancelled, dbVars>>

FinalFlush == writer.pc = "flush" /\ Flush("exit")

\* Pipeline.Stop flushes once more when run has returned.
StopFlush == writer.pc = "exit" /\ sched = "flushing" /\ Flush("returned")

-----------------------------------------------------------------------------
(***************************************************************************)
(* processBatch: metrics, device statuses, alert evaluation.  A statement  *)
(* on a cancelled context fails, any other may fail with the database      *)
(* (counted in faults).                                                    *)
(***************************************************************************)
ContextAlive == writer.fresh \/ ~ cancelled

\* One batch insert, then single inserts if it fails: any part can be lost.
WriteMetrics ==
    /\ writer.pc = "metrics"
    /\ \/ /\ ContextAlive
          /\ saved' = saved \cup Elements(batch)
          /\ UNCHANGED faults
       \/ /\ ContextAlive /\ faults < MaxFaults
          /\ \E kept \in SUBSET Elements(batch) \ {Elements(batch)} :
                saved' = saved \cup kept
          /\ faults' = faults + 1
       \/ /\ ~ ContextAlive
          /\ UNCHANGED <<saved, faults>>
    /\ writer' = [writer EXCEPT !.pc = "statuses"]
    /\ UNCHANGED <<pollVars, resultCh, batch, sched, pollsCut, cancelled, row,
                   processed>>

\* Polls of the batch that carry a status of device d.
Reports(d) == {p \in Elements(batch) : DeviceOf[p] = d /\ status[p] # "none"}

Latest(d) == CHOOSE p \in Reports(d) : \A q \in Reports(d) : ~ After(q, p)

WriteStatuses ==
    /\ writer.pc = "statuses"
    /\ \/ /\ ContextAlive
          /\ row' = [d \in Devices |-> IF Reports(d) # {} THEN Latest(d) ELSE row[d]]
          /\ UNCHANGED faults
       \/ /\ ContextAlive /\ faults < MaxFaults
          /\ faults' = faults + 1
          /\ UNCHANGED row
       \/ /\ ~ ContextAlive
          /\ UNCHANGED <<row, faults>>
    /\ writer' = [writer EXCEPT !.pc = "alerts"]
    /\ UNCHANGED <<pollVars, resultCh, batch, sched, pollsCut, cancelled, saved,
                   processed>>

\* alertEng.ProcessMetric for every result, in batch order; errors are
\* ignored.  This ends the batch.
EvaluateAlerts ==
    /\ writer.pc = "alerts"
    /\ processed' = [p \in Polls |->
                       processed[p] + Cardinality({i \in 1..Len(batch) : batch[i] = p})]
    /\ batch' = <<>>
    /\ Goto(writer.next)
    /\ UNCHANGED <<pollVars, resultCh, sched, pollsCut, cancelled, saved, row,
                   faults>>

-----------------------------------------------------------------------------
(***************************************************************************)
(* Scheduler.Stop.                                                         *)
(***************************************************************************)
StopDispatcher ==
    /\ sched = "running"
    /\ sched' = "draining"
    /\ UNCHANGED <<pollVars, resultCh, batch, writer, pollsCut, cancelled, dbVars>>

\* pool.Stop after drainTimeout: cancel what still runs.
CutPolls ==
    /\ sched = "draining" /\ ~ pollsCut
    /\ pollsCut' = TRUE
    /\ UNCHANGED <<pollVars, resultCh, batch, writer, sched, cancelled, dbVars>>

WorkersIdle == \A p \in Polls : stage[p] \notin AtWorker

\* pool.Stop has returned; pipeline.Stop cancels the context of run.
StopPipeline ==
    /\ sched = "draining" /\ WorkersIdle
    /\ cancelled' = TRUE
    /\ pollsCut' = TRUE
    /\ sched' = "flushing"
    /\ UNCHANGED <<pollVars, resultCh, batch, writer, dbVars>>

StopReturns ==
    /\ sched = "flushing" /\ writer.pc = "returned"
    /\ sched' = "stopped"
    /\ UNCHANGED <<pollVars, resultCh, batch, writer, pollsCut, cancelled, dbVars>>

-----------------------------------------------------------------------------
Init ==
    /\ answers \in SUBSET Polls
    /\ stage = [p \in Polls |-> "idle"]
    /\ status = [p \in Polls |-> "none"]
    /\ finished = <<>> /\ resultCh = <<>> /\ batch = <<>>
    /\ writer = [pc |-> "select", fresh |-> FALSE, next |-> "select"]
    /\ sched = "running"
    /\ pollsCut = FALSE /\ cancelled = FALSE
    /\ saved = {}
    /\ row = [d \in Devices |-> NoPoll]
    /\ processed = [p \in Polls |-> 0]
    /\ faults = 0

Poll(p) ==
    \/ StartPoll(p) \/ SkipPoll(p) \/ FinishPoll(p) \/ Submit(p) \/ SubmitTimeout(p)
    \/ \E st \in {"up", "down", "none"} : CollectorReturns(p, st)

Run ==
    \/ ReceiveResult \/ Tick \/ ContextDone \/ FinalFlush
    \/ WriteMetrics \/ WriteStatuses \/ EvaluateAlerts

Stop == StopDispatcher \/ CutPolls \/ StopPipeline \/ StopFlush \/ StopReturns

Stopped == sched = "stopped" /\ UNCHANGED vars

Next == (\E p \in Polls : Poll(p)) \/ Run \/ Stop \/ Stopped

Spec == Init /\ [][Next]_vars

(***************************************************************************)
(* Fairness: run keeps taking ready cases, the ticker keeps firing and is  *)
(* not passed over for ever by the select; polls and Submit end; Stop, once*)
(* called, goes on.  Nothing forces Stop to be called.                     *)
(***************************************************************************)
Fairness ==
    /\ WF_vars(Run) /\ SF_vars(Tick) /\ SF_vars(ContextDone)
    /\ WF_vars(StopPipeline \/ StopFlush \/ StopReturns)
    /\ \A p \in Polls :
         /\ WF_vars(SkipPoll(p) \/ FinishPoll(p) \/ \E st \in {"up", "down", "none"} : CollectorReturns(p, st))
         /\ WF_vars(Submit(p) \/ SubmitTimeout(p))

FairSpec == Spec /\ Fairness

-----------------------------------------------------------------------------
(***************************************************************************)
(* Properties.                                                             *)
(***************************************************************************)
\* Every variable keeps its type; the channel and the batch stay within
\* their sizes (the batches of flush are as large as the channel).
TypeOK ==
    /\ answers \subseteq Polls /\ saved \subseteq Polls
    /\ stage \in [Polls -> {"idle", "running", "collected", "submit", "sent", "dropped", "skipped"}]
    /\ status \in [Polls -> {"up", "down", "none"}]
    /\ finished \in Seq(Polls) /\ resultCh \in Seq(Polls) /\ batch \in Seq(Polls)
    /\ Len(resultCh) <= ChanSize
    /\ Len(batch) <= IF BatchSize > ChanSize THEN BatchSize ELSE ChanSize
    /\ writer \in [pc : {"select", "metrics", "statuses", "alerts", "flush",
                         "exit", "returned"},
                   fresh : BOOLEAN, next : {"select", "flush", "exit", "returned"}]
    /\ sched \in {"running", "draining", "flushing", "stopped"}
    /\ pollsCut \in BOOLEAN /\ cancelled \in BOOLEAN
    /\ row \in [Devices -> Polls \cup {NoPoll}]
    /\ processed \in [Polls -> Nat]
    /\ faults \in 0..MaxFaults

\* A submitted result goes through processBatch exactly once: never twice,
\* and when Scheduler.Stop has returned, none is left in the channel, in a
\* batch or in the hands of a worker.
ProcessedOnce ==
    \A p \in Polls :
        /\ processed[p] <= 1
        /\ sched = "stopped" =>
             /\ stage[p] \notin AtWorker
             /\ (stage[p] = "sent") <=> (processed[p] = 1)

\* Shutdown never turns a poll it cut off into a "down": a device row shows
\* down only if a poll of it really went unanswered, although the collectors of
\* the polls that Stop cancels report failures (scheduler.go:331-337).
NoFalseDown ==
    \A d \in Devices :
        row[d] # NoPoll /\ status[row[d]] = "down" => row[d] \notin answers

\* However the results of a device are ordered in a batch, the status that
\* is written is that of the poll that finished last.
BatchWriteIsLatest ==
    [][\A d \in Devices :
          row'[d] # row[d] => \A q \in Elements(batch) :
                                DeviceOf[q] = d /\ status[q] # "none"
                                    => ~ After(q, row'[d])]_vars

\* With one worker the status of a device row never goes back to that of an
\* earlier poll, over any number of batches.
StatusNeverRegresses ==
    [][\A d \in Devices :
          row[d] # NoPoll /\ row'[d] # row[d] => After(row'[d], row[d])]_vars

\* A submitted result does not stay in the channel or in a half-full batch:
\* it is processed even if no further result ever arrives.
EveryResultProcessed ==
    \A p \in Polls : (stage[p] = "sent") ~> (processed[p] = 1)

\* A Scheduler.Stop that has begun returns.
StopEnds == (sched = "draining") ~> (sched = "stopped")

\* result_pipeline.go, where the run context is found cancelled: "persist the
\* final batch (and anything still queued) with a fresh, bounded context".
\* With a database that never fails every submitted result is then stored.
FinalBatchPersisted ==
    sched = "stopped" /\ faults = 0 =>
        \A p \in Polls : stage[p] = "sent" => p \in saved

\* No result is processed twice, none is made up by the shutdown, and a batch
\* writes each device's latest one (result_pipeline.go, scheduler.go).
ResultsSafe ==
    /\ [](TypeOK /\ ProcessedOnce /\ NoFalseDown)
    /\ BatchWriteIsLatest

\* Results reach the database in order, all of them, and Stop ends
\* (result_pipeline.go).
ResultsArrive ==
    /\ StatusNeverRegresses
    /\ EveryResultProcessed
    /\ StopEnds

-----------------------------------------------------------------------------
\* An instance for TLC: polls 1 and 2 of one device, poll 3 of another.
TwoDevices == [p \in 1..3 |-> IF p = 3 THEN 2 ELSE 1]
=============================================================================
