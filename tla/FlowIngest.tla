----------------------------- MODULE FlowIngest -----------------------------
(***************************************************************************)
(* The flow ingest server (flowingest/server.go, writer.go and the         *)
(* exporter table of decode.go).  Two readers take datagrams from their    *)
(* sockets and offer the decoded flows, one at a time and without waiting, *)
(* to a bounded queue; one writer gathers batches.  Flows are counted, not *)
(* told apart.  A NetFlow v9 or IPFIX exporter needs an entry in a bounded *)
(* table, which holds the templates it has announced.                      *)
(***************************************************************************)
EXTENDS Naturals, FiniteSets

CONSTANTS Exporters,     \* addresses sending NetFlow v9 / IPFIX
          MaxExporters,  \* entries of the exporter table
          ExporterIdleTTL,
          QueueSize, BatchSize,
          FlowsPerDatagram,
          MaxDatagrams,  \* bound: datagrams that arrive
          MaxFlowClock,  \* bound: time
          MaxWriteErrors \* bound: batches the database refuses

ASSUME FlowBounds ==
    /\ {MaxExporters, QueueSize, BatchSize, FlowsPerDatagram} \subseteq Nat \ {0}
    /\ {ExporterIdleTTL, MaxDatagrams, MaxFlowClock, MaxWriteErrors} \subseteq Nat

Readers == {"netflow", "sflow"}

VARIABLES reader,    \* each readLoop: [pc, left]; left flows are still to be offered
          socket,    \* is the reader's socket open?
          queue, queueClosed,
          writer, pending,
          ingest,    \* the shutdown goroutine of Start
          exporter,  \* entry of each address: [known, templates, lastSeen]
          heard,     \* history: until when an accepted exporter must be remembered
          flowClock,
          counts     \* [datagrams, decoded, stored, dropped, writeErrors]

flowVars == <<reader, socket, queue, queueClosed, writer, pending, ingest, exporter, heard, flowClock, counts>>

NoEntry == [known |-> FALSE, templates |-> FALSE, lastSeen |-> 0]
MaxFlows == MaxDatagrams * FlowsPerDatagram

\* Type correctness of the ingest server.
FlowIngestTypeOK ==
    /\ reader \in [Readers -> [pc: {"read", "enqueue", "done"}, left: 0..FlowsPerDatagram]]
    /\ socket \in [Readers -> BOOLEAN]
    /\ queue \in 0..QueueSize /\ queueClosed \in BOOLEAN
    /\ writer \in {"run", "done"} /\ pending \in 0..BatchSize
    /\ ingest \in {"up", "cancelled", "closing", "waiting", "draining", "done"}
    /\ exporter \in [Exporters -> [known: BOOLEAN, templates: BOOLEAN, lastSeen: 0..MaxFlowClock]]
    /\ heard \in [Exporters -> 0..(MaxFlowClock + ExporterIdleTTL + 1)]
    /\ flowClock \in 0..MaxFlowClock
    /\ counts \in [datagrams: 0..MaxDatagrams, decoded: 0..MaxFlows, stored: 0..MaxFlows,
                   dropped: 0..MaxFlows, writeErrors: 0..MaxWriteErrors]

FlowIngestInit ==
    /\ reader = [r \in Readers |-> [pc |-> "read", left |-> 0]]
    /\ socket = [r \in Readers |-> TRUE]
    /\ queue = 0 /\ queueClosed = FALSE
    /\ writer = "run" /\ pending = 0
    /\ ingest = "up"
    /\ exporter = [x \in Exporters |-> NoEntry]
    /\ heard = [x \in Exporters |-> 0]
    /\ flowClock = 0
    /\ counts = [datagrams |-> 0, decoded |-> 0, stored |-> 0, dropped |-> 0, writeErrors |-> 0]

-----------------------------------------------------------------------------
(* Datagrams.                                                              *)

Known(e) == {x \in Exporters : e[x].known}

\* When the table is full, entries not heard of for the TTL are removed.
Evicted == [x \in Exporters |->
               IF exporter[x].known /\ flowClock - exporter[x].lastSeen > ExporterIdleTTL
               THEN NoEntry ELSE exporter[x]]

\* decoder.exporter: the table after a v9 datagram of x (x may stay unknown).
EntryOf(x) ==
    IF exporter[x].known THEN [exporter EXCEPT ![x].lastSeen = flowClock]
    ELSE LET room == IF Cardinality(Known(exporter)) >= MaxExporters THEN Evicted ELSE exporter IN
         IF Cardinality(Known(room)) >= MaxExporters THEN room
         ELSE [room EXCEPT ![x] = [known |-> TRUE, templates |-> FALSE, lastSeen |-> flowClock]]

\* handleDatagram with n decoded flows.
Decoded(r, n) ==
    /\ socket[r] /\ reader[r].pc = "read" /\ counts.datagrams < MaxDatagrams
    /\ reader' = [reader EXCEPT ![r] = [pc |-> IF n = 0 THEN "read" ELSE "enqueue", left |-> n]]
    /\ counts' = [counts EXCEPT !.datagrams = @ + 1, !.decoded = @ + n]
    /\ UNCHANGED <<socket, queue, queueClosed, writer, pending, ingest, flowClock>>

\* NetFlow v5 and sFlow carry no session state; a malformed datagram has no flows.
Stateless(r) == \E n \in {0, FlowsPerDatagram} : Decoded(r, n) /\ UNCHANGED <<exporter, heard>>

Heard(x, e) == heard' = IF e[x].known THEN [heard EXCEPT ![x] = flowClock + ExporterIdleTTL + 1] ELSE heard

\* A template, for an exporter the table has room for.
Template(x) ==
    LET e == EntryOf(x) IN
    /\ Decoded("netflow", 0)
    /\ exporter' = IF e[x].known THEN [e EXCEPT ![x].templates = TRUE] ELSE e
    /\ Heard(x, e)

\* Data records: they cannot be decoded without the template.
DataRecords(x) ==
    LET e == EntryOf(x) IN
    /\ Decoded("netflow", IF e[x].templates THEN FlowsPerDatagram ELSE 0)
    /\ exporter' = e
    /\ Heard(x, e)

\* enqueue never blocks: a flow that finds the queue full is dropped.
Enqueue(r) ==
    LET rest == reader[r].left - 1 IN
    /\ reader[r].pc = "enqueue" /\ ~queueClosed
    /\ reader' = [reader EXCEPT ![r] = [pc |-> IF rest = 0 THEN "read" ELSE "enqueue", left |-> rest]]
    /\ \/ queue < QueueSize /\ queue' = queue + 1 /\ UNCHANGED counts
       \/ queue = QueueSize /\ UNCHANGED queue /\ counts' = [counts EXCEPT !.dropped = @ + 1]
    /\ UNCHANGED <<socket, queueClosed, writer, pending, ingest, exporter, heard, flowClock>>

\* A read on a closed socket ends the loop.
ReaderEnds(r) ==
    /\ reader[r].pc = "read" /\ ~socket[r]
    /\ reader' = [reader EXCEPT ![r].pc = "done"]
    /\ UNCHANGED <<socket, queue, queueClosed, writer, pending, ingest, exporter, heard, flowClock, counts>>

-----------------------------------------------------------------------------
(* The writer.                                                             *)

\* RecordFlows writes the batch in one COPY; its error drops the batch.
Flush(n, c) ==
    {[c EXCEPT !.stored = @ + n]} \cup
    {[c EXCEPT !.dropped = @ + n, !.writeErrors = @ + 1] : x \in {y \in {n} : y > 0 /\ c.writeErrors < MaxWriteErrors}}

Receive ==
    /\ writer = "run" /\ queue > 0
    /\ queue' = queue - 1
    /\ IF pending + 1 >= BatchSize
       THEN pending' = 0 /\ counts' \in Flush(pending + 1, counts)
       ELSE pending' = pending + 1 /\ UNCHANGED counts
    /\ UNCHANGED <<reader, socket, queueClosed, writer, ingest, exporter, heard, flowClock>>

FlushTick ==
    /\ writer = "run" /\ pending > 0
    /\ counts' \in Flush(pending, counts)
    /\ pending' = 0
    /\ UNCHANGED <<reader, socket, queue, queueClosed, writer, ingest, exporter, heard, flowClock>>

\* Seeded fault: the writer returns when it finds the queue closed.
ReturnAtOnce ==
    /\ writer = "run" /\ queueClosed /\ queue = 0
    /\ writer' = "done"
    /\ UNCHANGED <<reader, socket, queue, queueClosed, pending, ingest, exporter, heard, flowClock, counts>>

\* The closed queue is drained first, then comes the final flush.
FinalFlush ==
    /\ writer = "run" /\ queueClosed /\ queue = 0
    /\ counts' \in Flush(pending, counts)
    /\ pending' = 0
    /\ writer' = "done"
    /\ UNCHANGED <<reader, socket, queue, queueClosed, ingest, exporter, heard, flowClock>>

-----------------------------------------------------------------------------
(* Shutdown: Stop cancels; the goroutine closes the sockets, waits for the *)
(* readers, closes the queue and waits for the writer.                     *)

Shutdown(from, to) == ingest = from /\ ingest' = to

StopIngest ==
    /\ Shutdown("up", "cancelled")
    /\ UNCHANGED <<reader, socket, queue, queueClosed, writer, pending, exporter, heard, flowClock, counts>>

CloseSocket ==
    \/ /\ Shutdown("cancelled", "closing") /\ socket' = [socket EXCEPT !["netflow"] = FALSE]
       /\ UNCHANGED <<reader, queue, queueClosed, writer, pending, exporter, heard, flowClock, counts>>
    \/ /\ Shutdown("closing", "waiting") /\ socket' = [socket EXCEPT !["sflow"] = FALSE]
       /\ UNCHANGED <<reader, queue, queueClosed, writer, pending, exporter, heard, flowClock, counts>>

CloseQueue ==
    /\ \A r \in Readers : reader[r].pc = "done"
    /\ Shutdown("waiting", "draining")
    /\ queueClosed' = TRUE
    /\ UNCHANGED <<reader, socket, queue, writer, pending, exporter, heard, flowClock, counts>>

WriterDone ==
    /\ writer = "done"
    /\ Shutdown("draining", "done")
    /\ UNCHANGED <<reader, socket, queue, queueClosed, writer, pending, exporter, heard, flowClock, counts>>

FlowTime ==
    /\ flowClock < MaxFlowClock
    /\ flowClock' = flowClock + 1
    /\ UNCHANGED <<reader, socket, queue, queueClosed, writer, pending, ingest, exporter, heard, counts>>

ReadLoop(r) == Stateless(r) \/ Enqueue(r) \/ ReaderEnds(r)
WriterLoop == Receive \/ FlushTick \/ FinalFlush
ShutdownLoop == CloseSocket \/ CloseQueue \/ WriterDone

FlowIngestNext ==
    \/ \E r \in Readers : ReadLoop(r)
    \/ \E x \in Exporters : Template(x) \/ DataRecords(x)
    \/ WriterLoop \/ StopIngest \/ ShutdownLoop \/ FlowTime

\* Every goroutine that can go on does; nothing obliges datagrams to come.
FlowIngestFairness ==
    /\ \A r \in Readers : WF_flowVars(Enqueue(r) \/ ReaderEnds(r))
    /\ WF_flowVars(WriterLoop)
    /\ WF_flowVars(ShutdownLoop)

FlowIngestSpec == FlowIngestInit /\ [][FlowIngestNext]_flowVars /\ FlowIngestFairness

-----------------------------------------------------------------------------
\* No reader offers a flow to the closed queue (a send that would panic):
\* while a decoded flow is in a reader's hands the queue is open, through
\* every interleaving of Stop with datagrams being handled (Server.Start).
NoSendOnClosedQueue == \A r \in Readers : reader[r].pc = "enqueue" => ~queueClosed

\* Every decoded flow is in exactly one place: with a reader, queued, pending,
\* stored, or counted as dropped (handleDatagram, enqueue, run, flush).
FlowsAccounted ==
    counts.decoded = reader["netflow"].left + reader["sflow"].left + queue + pending
                     + counts.stored + counts.dropped

\* Stop returns, and by then every decoded flow has been stored or counted as
\* dropped: the shutdown never cuts the last batch off (Server.Stop, run).
StopDrains ==
    (ingest = "cancelled") ~> (ingest = "done" /\ counts.decoded = counts.stored + counts.dropped)

\* The table never loses the templates of an exporter that was heard of
\* within the TTL: only idle entries make room for a newcomer
\* (decoder.exporter).
RecentExporterKept == \A x \in Exporters : flowClock < heard[x] => exporter[x].known

\* Flows are accounted for from the socket to the table, the queue is closed
\* after its last sender, and Stop drains it (flowingest/server.go).
FlowIngestCorrect ==
    /\ [](FlowIngestTypeOK /\ NoSendOnClosedQueue /\ FlowsAccounted /\ RecentExporterKept)
    /\ StopDrains
=============================================================================
